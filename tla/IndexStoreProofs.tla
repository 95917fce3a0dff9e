-------------------------- MODULE IndexStoreProofs --------------------------
(***************************************************************************)
(* Proofs about IndexStore for every set of slaves, jobs, users,           *)
(* attributes, calls and queries and any number of faults.                 *)
(***************************************************************************)
EXTENDS IndexStore, TLAPS

\* A step is one of the actions.
LEMMA StepCases ==
  ASSUME [Next]_vars
  PROVE  \/ \E s \in Slave, c \in Call : UpdateJobs(s, c)
         \/ \E s \in Slave : SelectJob(s)
         \/ \E s \in Slave : InsertJob(s)
         \/ \E s \in Slave : SelectUser(s)
         \/ \E s \in Slave : InsertUser(s)
         \/ \E s \in Slave : SkipAttr(s)
         \/ \E s \in Slave : InsertAttrVal(s)
         \/ \E s \in Slave : UpdateColumn(s)
         \/ \E s \in Slave : NextJob(s)
         \/ \E s \in Slave : Crash(s)
         \/ \E q \in Query : QueryJobs(q)
         \/ \E j \in Job : GetAttrs(j)
         \/ Reply
         \/ UNCHANGED vars
BY DEF Next

\* What it is to be a sequence.
LEMMA SeqElements ==
  ASSUME NEW S, NEW q \in Seq(S)
  PROVE  /\ Len(q) \in Nat /\ DOMAIN q = 1 .. Len(q) /\ \A i \in DOMAIN q : q[i] \in S
         /\ q # <<>> => 1 \in DOMAIN q
OBVIOUS

-----------------------------------------------------------------------------
(* Lemmas about the tables: nothing that is stored is taken back.           *)

\* The tables after a step have the jobs, owners and rows they had before it.  A
\* column of jobs that is set may get another value, but is not emptied.
Grow ==
  /\ jobs \subseteq jobs' /\ users \subseteq users'
  /\ DOMAIN rows' = DOMAIN rows
  /\ \A a \in DOMAIN rows : rows[a] \subseteq rows'[a]
  /\ \A j \in Job, a \in Single : column[j][a] # None => column'[j][a] # None

\* A column that changes gets the value of a row the job already has.
ColumnsFollowRows ==
  \A j \in Job, a \in Single : column'[j][a] # column[j][a] =>
    \E row \in rows[a] : row.job = j /\ row.value = column'[j][a]

LEMMA RequestTypes ==
  ASSUME NEW c \in Call, NEW r \in DOMAIN Request[c]
  PROVE  /\ Len(Request[c]) \in Nat /\ Len(Request[c]) > 0
         /\ DOMAIN Request[c] = 1 .. Len(Request[c])
         /\ Request[c][r].job \in Job
         /\ Request[c][r].attrs \in Seq(Item)
         /\ Len(Request[c][r].attrs) \in Nat
         /\ DOMAIN Request[c][r].attrs = 1 .. Len(Request[c][r].attrs)
         /\ \A i \in DOMAIN Request[c][r].attrs : Request[c][r].attrs[i] \in Item
<1>1. Request[c] \in Seq([job: Job, attrs: Seq(Item)])
  BY IndexAssumption
<1>2. /\ Request[c][r] \in [job: Job, attrs: Seq(Item)]
      /\ DOMAIN Request[c] = 1 .. Len(Request[c]) /\ Len(Request[c]) \in Nat
  BY <1>1, SeqElements
<1>3. Len(Request[c]) > 0
  BY <1>2
<1>4. Request[c][r].attrs \in Seq(Item) /\ Request[c][r].job \in Job
  BY <1>2
<1> QED
  BY <1>2, <1>3, <1>4, SeqElements

\* A slave at work is at a record of its call.
LEMMA AtRecord ==
  ASSUME TypeOK, NEW s \in Slave, ~At(s, "idle")
  PROVE  /\ slave[s].call \in Call /\ slave[s].job \in DOMAIN Request[slave[s].call]
         /\ slave[s].job \in 1 .. Len(Request[slave[s].call])
         /\ Len(Request[slave[s].call]) \in Nat
         /\ Record(s).job \in Job
         /\ Record(s).attrs \in Seq(Item) /\ Len(Record(s).attrs) \in Nat
         /\ slave[s].attr \in 1 .. Len(Record(s).attrs) + 1
         /\ MoreAttrs(s) => Item1(s) \in Item /\ slave[s].attr \in DOMAIN Record(s).attrs
<1>1. /\ slave[s].call \in Call /\ slave[s].job \in DOMAIN Request[slave[s].call]
      /\ slave[s].attr \in 1 .. Len(Record(s).attrs) + 1
  BY DEF TypeOK
<1>2. /\ Record(s).attrs \in Seq(Item) /\ Len(Record(s).attrs) \in Nat
      /\ Record(s).job \in Job /\ Len(Request[slave[s].call]) \in Nat
      /\ slave[s].job \in 1 .. Len(Request[slave[s].call])
      /\ DOMAIN Record(s).attrs = 1 .. Len(Record(s).attrs)
  BY <1>1, RequestTypes DEF Record
<1>3. ASSUME MoreAttrs(s)
      PROVE  Item1(s) \in Item /\ slave[s].attr \in DOMAIN Record(s).attrs
  <2>1. slave[s].attr \in DOMAIN Record(s).attrs
    BY <1>1, <1>2, <1>3 DEF MoreAttrs
  <2> QED
    BY <2>1, <1>1, <1>2, RequestTypes DEF Item1, Record
<1> QED
  BY <1>1, <1>2, <1>3

\* What a slave stores is of the type of its table.
LEMMA StoredTypes ==
  ASSUME TypeOK, NEW s \in Slave, ~At(s, "idle"), MoreAttrs(s)
  PROVE  /\ Item1(s).name \in Attr /\ Item1(s).value \in Value /\ Item1(s).value # None
         /\ [job |-> Record(s).job, value |-> Item1(s).value, origin |-> Item1(s).origin,
             from |-> <<slave[s].call, slave[s].job, slave[s].attr>>] \in AttrRow
<1>1. Item1(s) \in Item
  BY AtRecord
<1>2. /\ Item1(s).name \in Attr /\ Item1(s).value \in Value /\ Item1(s).origin \in Origin
      /\ Item1(s).value # None
  BY <1>1, IndexAssumption DEF Item
<1>3. <<slave[s].call, slave[s].job, slave[s].attr>> \in Call \X Nat \X Nat
  BY AtRecord
<1>4. Record(s).job \in Job
  BY AtRecord
<1> QED
  BY <1>2, <1>3, <1>4 DEF AttrRow

-----------------------------------------------------------------------------
(* What the steps do to the slaves, without EXCEPT.                         *)

Moved(s) == slave' \in [Slave -> Local] /\ \A t \in Slave : t # s => slave'[t] = slave[t]

\* A slave goes on with its record, or with the next attribute of it.
Stays(s) ==
  /\ Moved(s) /\ fate' = fate
  /\ slave[s].pc # "idle" /\ slave'[s].pc # "idle"
  /\ slave'[s].call = slave[s].call /\ slave'[s].job = slave[s].job
  /\ \/ slave'[s].attr = slave[s].attr
     \/ MoreAttrs(s) /\ slave'[s].attr = slave[s].attr + 1

\* A call ends, in one way or the other.
Ends(s, how) ==
  /\ Moved(s) /\ slave[s].pc # "idle" /\ slave'[s] = Idle
  /\ fate' = [fate EXCEPT ![slave[s].call] = how]

\* A slave about to update a column has inserted the row of an attribute that has one.
AtColumns ==
  \A s \in Slave : At(s, "column") =>
    /\ MoreAttrs(s) /\ Item1(s).name \in Single
    /\ \E row \in rows[Item1(s).name] :
         /\ row.from = <<slave[s].call, slave[s].job, slave[s].attr>>
         /\ row.job = Record(s).job /\ row.value = Item1(s).value

LEMMA IdleType == Idle \in Local /\ Idle.pc = "idle"
BY DEF Idle, Local, PC

LEMMA GotoEffect ==
  ASSUME TypeOK, NEW s \in Slave, NEW label \in PC, Goto(s, label)
  PROVE  /\ Moved(s) /\ slave'[s].pc = label /\ slave'[s].call = slave[s].call
         /\ slave'[s].job = slave[s].job /\ slave'[s].attr = slave[s].attr
BY ZenonT(30) DEF TypeOK, Goto, Moved, Local

LEMMA NextAttrEffect ==
  ASSUME TypeOK, NEW s \in Slave, NextAttr(s)
  PROVE  /\ Moved(s) /\ slave'[s].pc = "attr" /\ slave'[s].call = slave[s].call
         /\ slave'[s].job = slave[s].job /\ slave'[s].attr = slave[s].attr + 1
<1> DEFINE n == slave[s].attr + 1
<1> DEFINE l == [slave[s] EXCEPT !.attr = n, !.pc = "attr"]
<1>1. slave[s] \in Local /\ n \in Nat
  BY DEF TypeOK, Local
<1>2. slave' = [slave EXCEPT ![s] = l]
  BY DEF NextAttr
<1> HIDE DEF n
<1>3. /\ l \in Local /\ l.pc = "attr" /\ l.call = slave[s].call
      /\ l.job = slave[s].job /\ l.attr = n
  BY <1>1 DEF Local, PC
<1> HIDE DEF l
<1> QED
  BY <1>2, <1>3 DEF n, TypeOK, Moved

LEMMA FailEffect ==
  ASSUME TypeOK, NEW s \in Slave, slave[s].pc # "idle", Fail(s)
  PROVE  Ends(s, "failed")
BY IdleType DEF TypeOK, Fail, Moved, Ends

LEMMA UpdateJobsEffect ==
  ASSUME TypeOK, NEW s \in Slave, NEW c \in Call, UpdateJobs(s, c)
  PROVE  /\ Moved(s) /\ slave'[s].pc = "select_job" /\ slave'[s].call = c
         /\ slave'[s].job = 1 /\ slave'[s].attr = 1
<1> DEFINE l == [Idle EXCEPT !.pc = "select_job", !.call = c]
<1>1. l \in Local /\ l.pc = "select_job" /\ l.call = c /\ l.job = 1 /\ l.attr = 1
  BY DEF Idle, Local, PC
<1>2. slave' = [slave EXCEPT ![s] = l]
  BY DEF UpdateJobs
<1> HIDE DEF l
<1> QED
  BY <1>1, <1>2 DEF TypeOK, Moved

\* NextJob: the next record of the call, from its first attribute, or the answer.
NextRecord(s) ==
  /\ Moved(s) /\ fate' = fate /\ slave[s].job < Len(Request[slave[s].call])
  /\ slave'[s].pc = "select_job" /\ slave'[s].call = slave[s].call
  /\ slave'[s].job = slave[s].job + 1 /\ slave'[s].attr = 1

LEMMA NextJobEffect ==
  ASSUME TypeOK, NEW s \in Slave, NextJob(s)
  PROVE  \/ NextRecord(s)
         \/ Ends(s, "answered") /\ slave[s].job = Len(Request[slave[s].call])
<1> DEFINE n == slave[s].job + 1
<1> DEFINE l == [slave[s] EXCEPT !.pc = "select_job", !.job = n, !.attr = 1]
<1>1. slave[s] \in Local /\ n \in Nat
  BY DEF TypeOK, Local
<1> HIDE DEF n
<1>2. /\ l \in Local /\ l.pc = "select_job" /\ l.call = slave[s].call
      /\ l.job = n /\ l.attr = 1
  BY <1>1 DEF Local, PC
<1>3. CASE /\ slave[s].job < Len(Request[slave[s].call]) /\ fate' = fate
           /\ slave' = [slave EXCEPT ![s] = l]
  <2> HIDE DEF l
  <2> QED
    BY <1>2, <1>3 DEF n, TypeOK, Moved, NextRecord
<1>4. CASE /\ slave[s].job = Len(Request[slave[s].call])
           /\ slave' = [slave EXCEPT ![s] = Idle]
           /\ fate' = [fate EXCEPT ![slave[s].call] = "answered"]
  BY <1>4, IdleType DEF NextJob, At, TypeOK, Moved, Ends
<1> QED
  BY <1>3, <1>4 DEF n, NextJob

\* The outcomes of a select.
LEMMA SelectJobEffect ==
  ASSUME TypeOK, NEW s \in Slave, SelectJob(s)
  PROVE  /\ Stays(s) /\ slave'[s].attr = slave[s].attr /\ UNCHANGED <<tables, fate, reader>>
         /\ \/ /\ Record(s).job \in jobs /\ slave'[s].pc = "select_user"
               /\ UNCHANGED <<faults, skipped>>
            \/ slave'[s].pc = "insert_job" /\ UNCHANGED <<faults, skipped>>
            \/ slave'[s].pc = "select_user" /\ Fault /\ skipped' = skipped \cup {slave[s].call}
<1>1. slave[s].pc # "idle"
  BY DEF SelectJob, At
<1>2. \/ Record(s).job \in jobs /\ Goto(s, "select_user") /\ Fine
      \/ Goto(s, "insert_job") /\ Fine
      \/ Goto(s, "select_user") /\ Fault /\ skipped' = skipped \cup {slave[s].call}
  BY DEF SelectJob, Select
<1>3. UNCHANGED <<tables, fate, reader>>
  BY DEF SelectJob, Select
<1>4. Goto(s, "select_user") => Stays(s) /\ slave'[s].attr = slave[s].attr /\ slave'[s].pc = "select_user"
  BY <1>1, <1>3, GotoEffect DEF PC, Stays
<1>5. Goto(s, "insert_job") => Stays(s) /\ slave'[s].attr = slave[s].attr /\ slave'[s].pc = "insert_job"
  BY <1>1, <1>3, GotoEffect DEF PC, Stays
<1> QED
  BY <1>2, <1>3, <1>4, <1>5 DEF Fine

LEMMA SelectUserEffect ==
  ASSUME TypeOK, NEW s \in Slave, SelectUser(s)
  PROVE  /\ Stays(s) /\ slave'[s].attr = slave[s].attr /\ UNCHANGED <<tables, fate, reader>>
         /\ \/ /\ OwnerOf[Record(s).job] \in users /\ slave'[s].pc = "attr"
               /\ UNCHANGED <<faults, skipped>>
            \/ slave'[s].pc = "insert_user" /\ UNCHANGED <<faults, skipped>>
            \/ slave'[s].pc = "attr" /\ Fault /\ skipped' = skipped \cup {slave[s].call}
<1>1. slave[s].pc # "idle"
  BY DEF SelectUser, At
<1>2. \/ OwnerOf[Record(s).job] \in users /\ Goto(s, "attr") /\ Fine
      \/ Goto(s, "insert_user") /\ Fine
      \/ Goto(s, "attr") /\ Fault /\ skipped' = skipped \cup {slave[s].call}
  BY DEF SelectUser, Select
<1>3. UNCHANGED <<tables, fate, reader>>
  BY DEF SelectUser, Select
<1>4. Goto(s, "attr") => Stays(s) /\ slave'[s].attr = slave[s].attr /\ slave'[s].pc = "attr"
  BY <1>1, <1>3, GotoEffect DEF PC, Stays
<1>5. Goto(s, "insert_user") => Stays(s) /\ slave'[s].attr = slave[s].attr /\ slave'[s].pc = "insert_user"
  BY <1>1, <1>3, GotoEffect DEF PC, Stays
<1> QED
  BY <1>2, <1>3, <1>4, <1>5 DEF Fine

\* What every step does to the slaves and the calls.
LEMMA SlaveSteps ==
  ASSUME TypeOK, AtColumns, [Next]_vars
  PROVE  \/ \E s \in Slave, c \in Call : UpdateJobs(s, c)
         \/ \E s \in Slave : Stays(s)
         \/ \E s \in Slave : NextRecord(s) /\ slave[s].pc # "idle"
         \/ \E s \in Slave, how \in {"failed", "answered"} : Ends(s, how)
         \/ UNCHANGED <<slave, fate>>
<1>1. CASE \E s \in Slave : SelectJob(s)
  BY <1>1, SelectJobEffect
<1>2. CASE \E s \in Slave : SelectUser(s)
  BY <1>2, SelectUserEffect
<1>3. CASE \E s \in Slave : InsertJob(s)
  <2> PICK s \in Slave : InsertJob(s)
    BY <1>3
  <2>1. slave[s].pc # "idle"
    BY DEF InsertJob, At
  <2>2. CASE Goto(s, "select_user") /\ UNCHANGED fate
    BY <2>1, <2>2, GotoEffect DEF PC, Stays
  <2> QED
    BY <2>1, <2>2, FailEffect DEF InsertJob
<1>4. CASE \E s \in Slave : InsertUser(s)
  <2> PICK s \in Slave : InsertUser(s)
    BY <1>4
  <2>1. slave[s].pc # "idle"
    BY DEF InsertUser, At
  <2>2. CASE Goto(s, "attr") /\ UNCHANGED fate
    BY <2>1, <2>2, GotoEffect DEF PC, Stays
  <2> QED
    BY <2>1, <2>2, FailEffect DEF InsertUser
<1>5. CASE \E s \in Slave : SkipAttr(s)
  BY <1>5, NextAttrEffect DEF SkipAttr, Stays, At
<1>6. CASE \E s \in Slave : InsertAttrVal(s)
  <2> PICK s \in Slave : InsertAttrVal(s)
    BY <1>6
  <2>1. slave[s].pc # "idle" /\ MoreAttrs(s)
    BY DEF InsertAttrVal, At
  <2>2. CASE Goto(s, "column") /\ UNCHANGED fate
    BY <2>1, <2>2, GotoEffect DEF PC, Stays
  <2>3. CASE NextAttr(s) /\ UNCHANGED fate
    BY <2>1, <2>3, NextAttrEffect DEF Stays
  <2> QED
    BY <2>1, <2>2, <2>3, FailEffect DEF InsertAttrVal
<1>7. CASE \E s \in Slave : UpdateColumn(s)
  <2> PICK s \in Slave : UpdateColumn(s)
    BY <1>7
  <2>1. slave[s].pc # "idle" /\ MoreAttrs(s)
    BY DEF UpdateColumn, At, TypeOK, AtColumns
  <2>2. CASE NextAttr(s) /\ UNCHANGED fate
    BY <2>1, <2>2, NextAttrEffect DEF Stays
  <2> QED
    BY <2>1, <2>2, FailEffect DEF UpdateColumn
<1>8. CASE \E s \in Slave : NextJob(s)
  BY <1>8, NextJobEffect DEF NextJob, At
<1>9. CASE \E s \in Slave : Crash(s)
  BY <1>9, FailEffect DEF Crash, At
<1>10. CASE \/ \E q \in Query : QueryJobs(q)
            \/ \E j \in Job : GetAttrs(j)
            \/ Reply \/ UNCHANGED vars
  BY <1>10 DEF QueryJobs, GetAttrs, Reply, vars
<1> QED
  BY StepCases, <1>1, <1>2, <1>3, <1>4, <1>5, <1>6, <1>7, <1>8, <1>9, <1>10

-----------------------------------------------------------------------------
(* Types, and: the tables only grow.                                        *)

TablesOK ==
  /\ jobs \subseteq Job /\ users \subseteq User
  /\ column \in [Job -> [Single -> Value \cup {None}]]
  /\ rows \in [Configured \ {JobId} -> SUBSET AttrRow]

\* The row InsertAttrVal inserts.
NewRow(s) ==
  [job |-> Record(s).job, value |-> Item1(s).value, origin |-> Item1(s).origin,
   from |-> <<slave[s].call, slave[s].job, slave[s].attr>>]

LEMMA TablesStep ==
  ASSUME TypeOK, AtColumns, [Next]_vars
  PROVE  TablesOK' /\ Grow
<1> USE DEF TypeOK, TablesOK, Grow
<1>1. CASE UNCHANGED tables
  BY <1>1 DEF tables
<1>2. CASE \E s \in Slave : InsertJob(s)
  <2> PICK s \in Slave : InsertJob(s)
    BY <1>2
  <2>1. Record(s).job \in Job
    BY AtRecord DEF InsertJob, At
  <2> QED
    BY <2>1 DEF InsertJob
<1>3. CASE \E s \in Slave : InsertUser(s)
  <2> PICK s \in Slave : InsertUser(s)
    BY <1>3
  <2>1. OwnerOf[Record(s).job] \in User
    BY AtRecord, IndexAssumption DEF InsertUser, At
  <2> QED
    BY <2>1 DEF InsertUser
<1>4. CASE \E s \in Slave : InsertAttrVal(s)
  <2> PICK s \in Slave : InsertAttrVal(s)
    BY <1>4
  <2>1. NewRow(s) \in AttrRow
    BY StoredTypes DEF InsertAttrVal, At, NewRow
  <2>2. \/ rows' = rows
        \/ /\ Item1(s).name \in DOMAIN rows
           /\ rows' = [rows EXCEPT ![Item1(s).name] = @ \cup {NewRow(s)}]
    BY DEF InsertAttrVal, NewRow
  <2>3. UNCHANGED <<jobs, column, users>>
    BY DEF InsertAttrVal
  <2> HIDE DEF NewRow
  <2> QED
    BY <2>1, <2>2, <2>3
<1>5. CASE \E s \in Slave : UpdateColumn(s)
  <2> PICK s \in Slave : UpdateColumn(s)
    BY <1>5
  <2> DEFINE j == Record(s).job
             a == Item1(s).name
             v == Item1(s).value
  <2>1. j \in Job /\ a \in Single /\ v \in Value /\ v # None
    BY AtRecord, StoredTypes DEF UpdateColumn, At, AtColumns
  <2>2. column' = column \/ column' = [column EXCEPT ![j][a] = v]
    BY DEF UpdateColumn
  <2>3. UNCHANGED <<jobs, users, rows>>
    BY DEF UpdateColumn
  <2> HIDE DEF j, a, v
  <2>4. CASE column' = column
    BY <2>3, <2>4
  <2>5. CASE column' = [column EXCEPT ![j][a] = v]
    <3> DEFINE k == [column[j] EXCEPT ![a] = v]
    <3>1. k \in [Single -> Value \cup {None}]
      BY <2>1
    <3>2. \A b \in Single : column[j][b] # None => k[b] # None
      BY <2>1
    <3>3. column' = [column EXCEPT ![j] = k]
      BY <2>5
    <3> HIDE DEF k
    <3>4. column' \in [Job -> [Single -> Value \cup {None}]]
      BY <2>1, <3>1, <3>3
    <3>5. \A i \in Job, b \in Single : column[i][b] # None => column'[i][b] # None
      BY <2>1, <3>2, <3>3
    <3> QED
      BY <2>3, <3>4, <3>5
  <2> QED
    BY <2>2, <2>4, <2>5
<1> QED
  BY StepCases, <1>1, <1>2, <1>3, <1>4, <1>5
  DEF UpdateJobs, SelectJob, SelectUser, Select, SkipAttr, NextJob, Crash, QueryJobs, GetAttrs,
      Reply, vars, tables

\* update of jobs comes after the insert into the table of the attribute.
LEMMA ColumnsStep ==
  ASSUME TypeOK, AtColumns, [Next]_vars
  PROVE  ColumnsFollowRows
<1>1. CASE UNCHANGED column
  BY <1>1 DEF ColumnsFollowRows
<1>2. CASE \E s \in Slave : UpdateColumn(s)
  <2> PICK s \in Slave : UpdateColumn(s)
    BY <1>2
  <2> DEFINE j == Record(s).job
             a == Item1(s).name
             v == Item1(s).value
  <2>1. \E row \in rows[a] : row.job = j /\ row.value = v
    BY DEF UpdateColumn, At, AtColumns
  <2>2. column' = column \/ column' = [column EXCEPT ![j][a] = v]
    BY DEF UpdateColumn
  <2> HIDE DEF j, a, v
  <2>3. \A i \in Job, b \in Single :
          column'[i][b] # column[i][b] => i = j /\ b = a /\ column'[i][b] = v
    BY <2>2 DEF TypeOK
  <2> QED
    BY <2>1, <2>3 DEF ColumnsFollowRows
<1> QED
  BY StepCases, <1>1, <1>2
  DEF UpdateJobs, SelectJob, SelectUser, Select, InsertJob, InsertUser, SkipAttr,
      InsertAttrVal, NextJob, Crash, QueryJobs, GetAttrs, Reply, tables, vars


\* At most one slave serves a call.
OneCall ==
  \A s, t \in Slave :
    ~At(s, "idle") /\ ~At(t, "idle") /\ slave[s].call = slave[t].call => s = t

\* A slave at work is at a job and an attribute of its call.
Working(s) ==
  ~At(s, "idle") =>
    /\ slave[s].call \in Call /\ fate[slave[s].call] = "made"
    /\ slave[s].job \in DOMAIN Request[slave[s].call]
    /\ slave[s].attr \in 1 .. Len(Record(s).attrs) + 1

SlavesOK ==
  /\ slave \in [Slave -> Local]
  /\ fate \in [Call -> {"none", "made", "answered", "failed"}]
  /\ \A s \in Slave : Working(s)

LEMMA SlavesStep ==
  ASSUME TypeOK, OneCall, AtColumns, [Next]_vars
  PROVE  SlavesOK' /\ OneCall'
<1>0. SlavesOK
  BY DEF TypeOK, SlavesOK, Working
<1>1. CASE \E s \in Slave, c \in Call : UpdateJobs(s, c)
  <2> PICK s \in Slave, c \in Call : UpdateJobs(s, c)
    BY <1>1
  <2>1. /\ Moved(s) /\ slave'[s].pc = "select_job" /\ slave'[s].call = c
        /\ slave'[s].job = 1 /\ slave'[s].attr = 1
    BY UpdateJobsEffect
  <2>2. fate[c] = "none" /\ fate' = [fate EXCEPT ![c] = "made"]
    BY DEF UpdateJobs
  <2>3. fate' \in [Call -> {"none", "made", "answered", "failed"}] /\ fate'[c] = "made"
    BY <1>0, <2>2 DEF SlavesOK
  <2>4. \A t \in Slave : t # s /\ ~At(t, "idle") => slave[t].call # c
    BY <1>0, <2>2 DEF SlavesOK, Working
  <2>5. \A t \in Slave : t # s => Working(t)'
    BY <1>0, <2>1, <2>2, <2>4 DEF SlavesOK, Working, Moved, At, Record
  <2>6. Working(s)'
    <3>1. 1 \in DOMAIN Request[c] /\ Len(Request[c][1].attrs) \in Nat
      BY IndexAssumption, RequestTypes, SeqElements
    <3> QED
      BY <2>1, <2>3, <3>1 DEF Working, Record
  <2> QED
    BY <2>1, <2>3, <2>4, <2>5, <2>6 DEF OneCall, SlavesOK, Moved, At
<1>2. CASE \E s \in Slave : Stays(s)
  <2> PICK s \in Slave : Stays(s)
    BY <1>2
  <2>1. \A t \in Slave : t # s => Working(t)'
    BY <1>0 DEF Stays, SlavesOK, Working, Moved, At, Record
  <2>2. Working(s)'
    <3>1. /\ Len(Record(s).attrs) \in Nat /\ Working(s) /\ ~At(s, "idle")
          /\ slave[s].attr \in Nat
      BY AtRecord, <1>0 DEF Stays, At, SlavesOK, Local
    <3>2. Record(s)' = Record(s)
      BY DEF Stays, Record
    <3> QED
      BY <3>1, <3>2 DEF Working, Stays, MoreAttrs, At
  <2> QED
    BY <1>0, <2>1, <2>2 DEF OneCall, SlavesOK, Stays, Moved, At
<1>3. CASE \E s \in Slave : NextRecord(s) /\ slave[s].pc # "idle"
  <2> PICK s \in Slave : NextRecord(s) /\ slave[s].pc # "idle"
    BY <1>3
  <2>1. \A t \in Slave : t # s => Working(t)'
    BY <1>0 DEF NextRecord, SlavesOK, Working, Moved, At, Record
  <2>2. Working(s)'
    <3>1. /\ slave[s].call \in Call /\ slave[s].job \in Nat /\ Working(s)
          /\ slave[s].job \in DOMAIN Request[slave[s].call]
      BY <1>0 DEF SlavesOK, Working, At, Local
    <3>2. slave[s].job + 1 \in DOMAIN Request[slave[s].call]
      BY <3>1, RequestTypes DEF NextRecord
    <3>3. Len(Request[slave[s].call][slave[s].job + 1].attrs) \in Nat
      BY <3>1, <3>2, RequestTypes
    <3>4. Len(Record(s)'.attrs) \in Nat
      BY <3>3 DEF NextRecord, Record
    <3>5. slave'[s].attr \in 1 .. Len(Record(s)'.attrs) + 1
      BY <3>4 DEF NextRecord
    <3> QED
      BY <3>1, <3>2, <3>5 DEF Working, NextRecord, At
  <2> QED
    BY <1>0, <2>1, <2>2 DEF OneCall, SlavesOK, NextRecord, Moved, At
<1>4. CASE \E s \in Slave, how \in {"failed", "answered"} : Ends(s, how)
  <2> PICK s \in Slave, how \in {"failed", "answered"} : Ends(s, how)
    BY <1>4
  <2>1. \A t \in Slave : t # s /\ ~At(t, "idle") => slave[t].call # slave[s].call
    BY DEF OneCall, Ends, At
  <2>2. \A t \in Slave : t # s => Working(t)'
    BY <1>0, <2>1 DEF Ends, SlavesOK, Working, Moved, At, Record
  <2>3. At(s, "idle")'
    BY IdleType DEF Ends, At
  <2> QED
    BY <1>0, <2>2, <2>3 DEF OneCall, SlavesOK, Working, Ends, Moved, At
<1>5. CASE UNCHANGED <<slave, fate>>
  BY <1>0, <1>5 DEF SlavesOK, OneCall, Working, At, Record
<1> QED
  BY SlaveSteps, <1>1, <1>2, <1>3, <1>4, <1>5

-----------------------------------------------------------------------------
(* Lemmas about queries.                                                    *)

LEMMA Conditions ==
  ASSUME NEW q \in Query, NEW c \in Range(q.conditions)
  PROVE  /\ c.attr \in Attr \cup {JobId}
         /\ Range(c.records) # {} /\ \A r \in Range(c.records) : r \in QueryRecord
         /\ Accepted(q) /\ c.attr # JobId => c.attr \in Configured \ {JobId}
<1>1. q.conditions \in Seq(Condition)
  BY IndexAssumption DEF QueryType
<1>2. PICK i \in DOMAIN q.conditions : c = q.conditions[i]
  BY DEF Range
<1>3. c \in Condition
  BY <1>1, <1>2, SeqElements
<1>4. c.attr \in Attr \cup {JobId} /\ c.records \in Seq(QueryRecord)
  BY <1>3 DEF Condition
<1>5. c.records # <<>>
  BY IndexAssumption
<1>6. 1 \in DOMAIN c.records /\ \A k \in DOMAIN c.records : c.records[k] \in QueryRecord
  BY <1>4, <1>5, SeqElements
<1>7. Range(c.records) # {} /\ \A r \in Range(c.records) : r \in QueryRecord
  BY <1>6 DEF Range
<1> QED
  BY <1>2, <1>4, <1>7 DEF Accepted

\* "exists" is satisfied by every value.
LEMMA ExistsHolds ==
  ASSUME NEW r \in QueryRecord, r.op = "exists", NEW x
  PROVE  Satisfied(r, x)
BY DEF Satisfied

\* A record as it gets into the statement.
IndexedAs(r) ==
  /\ Indexing(r).op = r.op
  /\ Indexing(r).value = IndexValue[r.value] /\ Indexing(r).value2 = IndexValue[r.value2]

\* What a record of a condition on an attribute compares with.
LEMMA Operands ==
  ASSUME NEW q \in Query, NEW c \in Range(q.conditions), c.attr # JobId, NEW r \in Range(c.records)
  PROVE  /\ r \in QueryRecord /\ r.value \in Value /\ r.value2 \in Value
         /\ IndexedAs(r)
<1>1. r \in QueryRecord
  BY Conditions
<1>2. \A k \in Range(c.records) : k.value \in Value /\ k.value2 \in Value
  BY IndexAssumption
<1>3. IndexedAs(r)
  BY <1>1 DEF QueryRecord, Indexing, IndexedAs
<1> QED
  BY <1>1, <1>2, <1>3

\* The index does not decrease: values it tells apart are in its order.
LEMMA IndexOrder ==
  ASSUME NEW v \in Value, NEW w \in Value
  PROVE  /\ v \in Nat /\ w \in Nat /\ IndexValue[v] \in Nat /\ IndexValue[w] \in Nat
         /\ v <= w => IndexValue[v] <= IndexValue[w]
         /\ w <= v => IndexValue[w] <= IndexValue[v]
BY IndexAssumption

\* What a record selects through the index satisfies it, unless it asks for a value,
\* or the end of a range, the index does not tell from the stored one.
LEMMA IndexSound ==
  ASSUME NEW r \in QueryRecord, NEW x \in Value, r.value \in Value, r.value2 \in Value,
         IndexedAs(r),
         Satisfied(Indexing(r), IndexValue[x]),
         r.op \in {"equal", "within"} =>
           /\ x # r.value => IndexValue[x] # IndexValue[r.value]
           /\ r.op = "within" /\ x # r.value2 => IndexValue[x] # IndexValue[r.value2]
  PROVE  Satisfied(r, x)
<1> DEFINE k == Indexing(r)
<1>1. r.op \in Op /\ k.op = r.op /\ k.value = IndexValue[r.value] /\ k.value2 = IndexValue[r.value2]
  BY DEF QueryRecord, IndexedAs
<1> HIDE DEF k
<1>2. Satisfied(k, IndexValue[x])
  BY DEF k
<1>3. CASE r.op = "equal"
  BY <1>1, <1>2, <1>3 DEF Satisfied
<1>4. CASE r.op = "unequal"
  BY <1>1, <1>2, <1>4 DEF Satisfied
<1>5. CASE r.op = "greater"
  BY <1>1, <1>2, <1>5, IndexOrder DEF Satisfied
<1>6. CASE r.op = "less"
  BY <1>1, <1>2, <1>6, IndexOrder DEF Satisfied
<1>7. CASE r.op = "within"
  BY <1>1, <1>2, <1>7, IndexOrder DEF Satisfied
<1>8. CASE r.op = "exists"
  BY <1>8 DEF Satisfied
<1> QED
  BY <1>1, <1>3, <1>4, <1>5, <1>6, <1>7, <1>8 DEF Op

\* A record that is satisfied selects through the index, unless it asks for other
\* values than one the index does not tell from the stored one.
LEMMA IndexComplete ==
  ASSUME NEW r \in QueryRecord, NEW x \in Value, r.value \in Value, r.value2 \in Value,
         IndexedAs(r),
         Satisfied(r, x),
         r.op \in {"unequal", "greater", "less"} =>
           (x # r.value => IndexValue[x] # IndexValue[r.value])
  PROVE  Satisfied(Indexing(r), IndexValue[x])
<1> DEFINE k == Indexing(r)
<1>1. r.op \in Op /\ k.op = r.op /\ k.value = IndexValue[r.value] /\ k.value2 = IndexValue[r.value2]
  BY DEF QueryRecord, IndexedAs
<1> SUFFICES Satisfied(k, IndexValue[x])
  OBVIOUS
<1> HIDE DEF k
<1>3. CASE r.op = "equal"
  BY <1>1, <1>3 DEF Satisfied
<1>4. CASE r.op = "unequal"
  BY <1>1, <1>4 DEF Satisfied
<1>5. CASE r.op = "greater"
  BY <1>1, <1>5, IndexOrder DEF Satisfied
<1>6. CASE r.op = "less"
  BY <1>1, <1>6, IndexOrder DEF Satisfied
<1>7. CASE r.op = "within"
  BY <1>1, <1>7, IndexOrder DEF Satisfied
<1>8. CASE r.op = "exists"
  BY <1>1, <1>8 DEF Satisfied
<1> QED
  BY <1>1, <1>3, <1>4, <1>5, <1>6, <1>7, <1>8 DEF Op

\* What the statement of get_jobids selects matches the query.
LEMMA JoinedMatches ==
  ASSUME TypeOK, NEW q \in Query, Accepted(q), ToldApart(q, {"equal", "within"}),
         NEW j \in Job, Joined(q, j)
  PROVE  Matches(q, j)
<1> SUFFICES ASSUME NEW c \in Range(q.conditions)
             PROVE  \E r \in Range(c.records) :
                      IF c.attr = JobId THEN Satisfied(r, j)
                      ELSE \E row \in rows[c.attr] :
                             /\ row.job = j /\ c.origin \in {"any", row.origin}
                             /\ Satisfied(r, row.value)
  BY DEF Matches
<1>1. Texts(c) = {} => \E r \in Range(c.records) : \A x : Satisfied(r, x)
  BY Conditions, ExistsHolds DEF Texts
<1>2. Texts(c) \subseteq Range(c.records)
  BY DEF Texts
<1>3. CASE c.attr = JobId
  <2>1. Texts(c) = {} \/ \E r \in Texts(c) : Satisfied(r, j)
    BY <1>3 DEF Joined
  <2> QED
    BY <1>1, <1>2, <1>3, <2>1
<1>4. CASE c.attr # JobId
  <2>1. PICK row \in rows[c.attr] : row.job = j /\ RowFits(c, row)
    BY <1>4 DEF Joined
  <2>2. c.origin \in {"any", row.origin}
    BY <2>1 DEF RowFits
  <2>3. CASE Texts(c) = {}
    BY <1>1, <1>4, <2>1, <2>2, <2>3
  <2>4. CASE \E r \in Texts(c) : Satisfied(Indexing(r), IndexValue[row.value])
    <3>1. PICK r \in Texts(c) : Satisfied(Indexing(r), IndexValue[row.value])
      BY <2>4
    <3>2. r \in Range(c.records)
      BY <1>2
    <3>3. row.value \in Value
      BY <1>4, Conditions DEF TypeOK, AttrRow
    <3>4. r.op \in {"equal", "within"} =>
            Told(c.attr, r.value) /\ (r.op = "within" => Told(c.attr, r.value2))
      BY <1>4, <3>2 DEF ToldApart
    <3>5. r.op \in {"equal", "within"} =>
            /\ row.value # r.value => IndexValue[row.value] # IndexValue[r.value]
            /\ r.op = "within" /\ row.value # r.value2 => IndexValue[row.value] # IndexValue[r.value2]
      BY <3>4 DEF Told
    <3>6. Satisfied(r, row.value)
      BY <1>4, <3>1, <3>2, <3>3, <3>5, Operands, IndexSound
    <3> QED
      BY <1>4, <2>1, <2>2, <3>2, <3>6
  <2> QED
    BY <2>1, <2>3, <2>4 DEF RowFits
<1> QED
  BY <1>3, <1>4

\* A plain query selects everything that matches it.
LEMMA PlainJoined ==
  ASSUME TypeOK, NEW q \in Query, Accepted(q), Plain(q),
         ToldApart(q, {"unequal", "greater", "less"}), NEW j \in Job, Matches(q, j)
  PROVE  Joined(q, j)
<1>1. ASSUME NEW c \in Range(q.conditions), c.attr = JobId
      PROVE  Texts(c) = {} \/ \E r \in Texts(c) : Satisfied(r, j)
  BY <1>1 DEF Plain, Matches
<1>2. ASSUME NEW a \in {c.attr : c \in Range(q.conditions)} \ {JobId}
      PROVE  \E row \in rows[a] :
               row.job = j /\ \A c \in Range(q.conditions) : c.attr = a => RowFits(c, row)
  <2>1. PICK c \in Range(q.conditions) : c.attr = a
    OBVIOUS
  <2>2. \A d \in Range(q.conditions) : d.attr = a => d = c
    BY <2>1 DEF Plain, Range
  <2>3. PICK r \in Range(c.records), row \in rows[a] :
          /\ row.job = j /\ c.origin \in {"any", row.origin}
          /\ Satisfied(r, row.value)
    BY <2>1 DEF Matches
  <2>4. row.value \in Value
    BY <2>1, Conditions DEF TypeOK, AttrRow
  <2>5. r.op \in {"unequal", "greater", "less"} => Told(c.attr, r.value)
    BY <2>1 DEF ToldApart
  <2>6. r.op \in {"unequal", "greater", "less"} =>
          (row.value # r.value => IndexValue[row.value] # IndexValue[r.value])
    BY <2>1, <2>5 DEF Told
  <2>7. Satisfied(Indexing(r), IndexValue[row.value])
    BY <2>1, <2>3, <2>4, <2>6, Operands, IndexComplete
  <2>8. RowFits(c, row)
    BY <2>3, <2>7 DEF RowFits, Plain
  <2> QED
    BY <2>2, <2>3, <2>8
<1> QED
  BY <1>1, <1>2 DEF Joined

\* Rows, jobs and owners that are added leave what was selected selected.
LEMMA SelectedGrow ==
  ASSUME TypeOK, Grow, NEW q \in Query, Accepted(q)
  PROVE  GetJobids(q) \subseteq GetJobids(q)'
<1>1. ASSUME NEW j, Joined(q, j)
      PROVE  Joined(q, j)'
  <2>1. ASSUME NEW a \in {c.attr : c \in Range(q.conditions)} \ {JobId}
        PROVE  rows[a] \subseteq rows'[a]
    BY Conditions DEF TypeOK, Grow
  <2>2. ASSUME NEW a \in {c.attr : c \in Range(q.conditions)} \ {JobId}
        PROVE  \E row \in rows'[a] :
                 row.job = j /\ \A c \in Range(q.conditions) : c.attr = a => RowFits(c, row)
    BY <1>1, <2>1 DEF Joined
  <2>3. \A c \in Range(q.conditions) : c.attr = JobId =>
          Texts(c) = {} \/ \E r \in Texts(c) : Satisfied(r, j)
    BY <1>1 DEF Joined
  <2> QED
    BY <2>2, <2>3 DEF Joined
<1> QED
  BY <1>1 DEF GetJobids, Grow

LEMMA StoredGrow ==
  ASSUME TypeOK, Grow, NEW q \in Query, Accepted(q), NEW j
  PROVE  /\ Stored(j, q) \subseteq Stored(j, q)' /\ Stored(j, q) \subseteq AttrRow
         /\ \A row \in Stored(j, q) : row.job = j
<1>1. \A a \in q.attributes : a \in DOMAIN rows
  BY DEF Accepted, TypeOK
<1> QED
  BY <1>1 DEF Stored, TypeOK, Grow

-----------------------------------------------------------------------------
(* The answer of QueryJobs.                                                 *)

\* While an answer is put together: of every row that was stored when the jobs were
\* selected, the job is still to be read or the row has been; the selected jobs
\* would be selected still and their owners are known.
AnswerInv ==
  reader.pc = "reading" =>
    /\ reader.q \in Query /\ Accepted(reader.q)
    /\ \A row \in reader.got : row.job \in reader.jobs
    /\ \A row \in reader.before :
         /\ row \in Stored(row.job, reader.q)
         /\ row.job \in reader.todo \/ row \in reader.got
    /\ reader.jobs \subseteq GetJobids(reader.q)
    /\ ~NoAuth => \A j \in reader.jobs : OwnerOf[j] \in users

ReaderOK == reader \in Reading /\ reader.todo \subseteq reader.jobs

LEMMA QuietOK == Quiet \in Reading /\ Quiet.pc = "idle" /\ Quiet.todo \subseteq Quiet.jobs
BY DEF Quiet, Reading

LEMMA ReaderStep ==
  ASSUME TypeOK, Grow, AnswerInv, OwnerFound, [Next]_vars
  PROVE  ReaderOK' /\ AnswerInv' /\ OwnerFound'
<1>0. reader \in Reading /\ reader.todo \subseteq reader.jobs
  BY DEF TypeOK
<1>1. CASE UNCHANGED reader
  <2>1. ReaderOK' /\ OwnerFound'
    BY <1>0, <1>1 DEF ReaderOK, OwnerFound
  <2>2. ASSUME reader.pc = "reading" PROVE AnswerInv'
    <3>1. reader.q \in Query /\ Accepted(reader.q) /\ reader.jobs \subseteq Job
      BY <1>0, <2>2 DEF AnswerInv, Reading
    <3> PICK q \in Query : q = reader.q
      BY <3>1
    <3>2. reader.jobs \subseteq GetJobids(q)'
      BY <2>2, <3>1, SelectedGrow DEF AnswerInv
    <3>3. \A row \in reader.before : row \in Stored(row.job, q)'
      BY <2>2, <3>1, StoredGrow DEF AnswerInv
    <3>4. ~NoAuth => \A j \in reader.jobs : OwnerOf[j] \in users'
      BY <2>2 DEF AnswerInv, Grow
    <3>5. q = reader'.q
      BY <1>1
    <3>6. /\ reader'.jobs \subseteq GetJobids(reader.q)'
          /\ \A row \in reader'.before : row \in Stored(row.job, reader.q)'
      BY <1>1, <3>2, <3>3, <3>5 DEF GetJobids, Joined, Stored
    <3> QED
      BY <1>1, <2>2, <3>1, <3>4, <3>6 DEF AnswerInv
  <2> QED
    BY <1>1, <2>1, <2>2 DEF AnswerInv
<1>2. CASE \E q \in Query : QueryJobs(q)
  <2> PICK q \in Query : QueryJobs(q)
    BY <1>2
  <2> DEFINE found == GetJobids(q)
             before == UNION {Stored(j, q) : j \in found}
  <2>1. Accepted(q) /\ UNCHANGED tables
    BY DEF QueryJobs
  <2>2. reader' = [pc |-> "reading", q |-> q, jobs |-> found, todo |-> found, got |-> {},
                   before |-> before]
    BY DEF QueryJobs
  <2>3. /\ found \subseteq Job /\ found \subseteq GetJobids(q)
        /\ ~NoAuth => \A j \in found : OwnerOf[j] \in users
    BY DEF GetJobids, TypeOK
  <2>4. \A j \in found : /\ Stored(j, q) \subseteq AttrRow
                         /\ \A row \in Stored(j, q) : row.job = j
    BY <2>1, StoredGrow
  <2>5. /\ before \subseteq AttrRow
        /\ \A row \in before : row.job \in found /\ row \in Stored(row.job, q)
    BY <2>4
  <2> HIDE DEF found, before
  <2>6. /\ reader' \in Reading /\ reader'.todo = found /\ reader'.jobs = found
        /\ reader'.got = {} /\ reader'.before = before /\ reader'.q = q
        /\ reader'.pc = "reading"
    BY <2>2, <2>3, <2>5 DEF Reading
  <2>7. rows' = rows /\ users' = users /\ jobs' = jobs
    BY <2>1 DEF tables
  <2>8. found \subseteq GetJobids(reader.q)'
    BY <2>3, <2>6, <2>7 DEF GetJobids, Joined
  <2>9. \A row \in before : row \in Stored(row.job, reader.q)'
    BY <2>5, <2>6, <2>7 DEF Stored
  <2> QED
    BY <2>1, <2>3, <2>5, <2>6, <2>7, <2>8, <2>9 DEF AnswerInv, ReaderOK, OwnerFound
<1>3. CASE \E j \in Job : GetAttrs(j)
  <2> PICK j \in Job : GetAttrs(j)
    BY <1>3
  <2> DEFINE rest == reader.todo \ {j}
             got == reader.got \cup Stored(j, reader.q)
             pc == IF OwnerOf[j] \in users THEN reader.pc ELSE "lost"
  <2>1. reader' = [reader EXCEPT !.todo = rest, !.got = got, !.pc = pc]
    BY DEF GetAttrs
  <2>2. /\ reader.pc = "reading" /\ j \in reader.jobs
        /\ reader.q \in Query /\ Accepted(reader.q) /\ UNCHANGED tables
    BY <1>0 DEF GetAttrs, AnswerInv
  <2>3. /\ Stored(j, reader.q) \subseteq AttrRow
        /\ \A row \in Stored(j, reader.q) : row.job = j
    BY <2>2, StoredGrow
  <2>4. rest \subseteq reader.jobs /\ got \subseteq AttrRow /\ \A row \in got : row.job \in reader.jobs
    BY <1>0, <2>2, <2>3 DEF Reading, AnswerInv
  <2>5. \A row \in reader.before : row.job \in rest \/ row \in got
    BY <2>2 DEF AnswerInv
  <2>6. pc \in {"reading", "lost"} /\ (~NoAuth => pc = "reading")
    BY <2>2 DEF AnswerInv
  <2> HIDE DEF rest, got, pc
  <2>7. /\ reader' \in Reading /\ reader'.todo = rest /\ reader'.jobs = reader.jobs
        /\ reader'.got = got /\ reader'.before = reader.before /\ reader'.q = reader.q
        /\ reader'.pc = pc
    BY <1>0, <2>1, <2>4, <2>6 DEF Reading
  <2>8. rows' = rows /\ users' = users /\ jobs' = jobs
    BY <2>2 DEF tables
  <2>9. reader.jobs \subseteq GetJobids(reader.q)'
    BY <2>2, <2>7, <2>8 DEF GetJobids, Joined, AnswerInv
  <2>10. \A row \in reader.before : row \in Stored(row.job, reader.q)'
    BY <2>2, <2>7, <2>8 DEF Stored, AnswerInv
  <2> QED
    BY <2>2, <2>4, <2>5, <2>6, <2>7, <2>8, <2>9, <2>10 DEF AnswerInv, ReaderOK, OwnerFound
<1>4. CASE Reply
  BY <1>4, QuietOK DEF Reply, ReaderOK, AnswerInv, OwnerFound
<1> QED
  BY StepCases, <1>1, <1>2, <1>3, <1>4
  DEF UpdateJobs, SelectJob, SelectUser, Select, InsertJob, InsertUser, SkipAttr,
      InsertAttrVal, UpdateColumn, NextJob, Crash, vars

-----------------------------------------------------------------------------
(* What a slave has stored so far.                                          *)

\* The counters: faults, and the calls a failed select made incomplete.
CountersOK == skipped \subseteq Call /\ faults \in 0 .. MaxFaults

LEMMA CountersStep ==
  ASSUME TypeOK, [Next]_vars
  PROVE  CountersOK' /\ skipped \subseteq skipped'
<1> USE IndexAssumption DEF TypeOK, CountersOK
<1>1. CASE UNCHANGED <<faults, skipped>>
  BY <1>1
<1>2. CASE Fault /\ UNCHANGED skipped
  BY <1>2 DEF Fault
<1>3. CASE \E s \in Slave : SelectJob(s)
  <2> PICK s \in Slave : SelectJob(s)
    BY <1>3
  <2>1. slave[s].call \in Call
    BY AtRecord DEF SelectJob, At
  <2>2. \/ UNCHANGED <<faults, skipped>>
        \/ Fault /\ skipped' = skipped \cup {slave[s].call}
    BY SelectJobEffect
  <2> QED
    BY <2>1, <2>2 DEF Fault
<1>4. CASE \E s \in Slave : SelectUser(s)
  <2> PICK s \in Slave : SelectUser(s)
    BY <1>4
  <2>1. slave[s].call \in Call
    BY AtRecord DEF SelectUser, At
  <2>2. \/ UNCHANGED <<faults, skipped>>
        \/ Fault /\ skipped' = skipped \cup {slave[s].call}
    BY SelectUserEffect
  <2> QED
    BY <2>1, <2>2 DEF Fault
<1> QED
  BY StepCases, <1>1, <1>2, <1>3, <1>4
  DEF UpdateJobs, InsertJob, InsertUser, SkipAttr, InsertAttrVal, UpdateColumn, NextJob,
      Crash, QueryJobs, GetAttrs, Reply, Fine, vars

\* Call c at record r, attribute i and label p of its slave: the records before r,
\* the job and the owner of r and its attributes before i are stored.
Progress(c, r, i, p) ==
  /\ \A k \in DOMAIN Request[c] : k < r => RecordStored(c, k)
  /\ p \in {"select_user", "insert_user", "attr", "column"} => Request[c][r].job \in jobs
  /\ p \in {"attr", "column"} => OwnerOf[Request[c][r].job] \in users
  /\ \A k \in DOMAIN Request[c][r].attrs : k < i => ItemStored(c, r, k)

SoFar(s) ==
  ~At(s, "idle") /\ slave[s].call \notin skipped =>
    Progress(slave[s].call, slave[s].job, slave[s].attr, slave[s].pc)

\* What is stored stays stored.
LEMMA ItemStoredGrow ==
  ASSUME Grow, NEW c \in Call, NEW r \in DOMAIN Request[c], NEW i, ItemStored(c, r, i)
  PROVE  ItemStored(c, r, i)'
BY RequestTypes DEF Grow, ItemStored

LEMMA RecordStoredGrow ==
  ASSUME Grow, NEW c \in Call, NEW r \in DOMAIN Request[c], RecordStored(c, r)
  PROVE  RecordStored(c, r)'
BY ItemStoredGrow DEF Grow, RecordStored

\* A slave has gone on, possibly with an attribute more.
LEMMA ProgressStep ==
  ASSUME Grow, NEW c \in Call, NEW r \in DOMAIN Request[c], NEW i \in Nat, NEW p, NEW q, NEW n,
         Progress(c, r, i, p),
         q \in {"select_user", "insert_user", "attr", "column"} =>
           \/ p \in {"select_user", "insert_user", "attr", "column"}
           \/ Request[c][r].job \in jobs',
         q \in {"attr", "column"} =>
           p \in {"attr", "column"} \/ OwnerOf[Request[c][r].job] \in users',
         n = i \/ (n = i + 1 /\ ItemStored(c, r, i)')
  PROVE  Progress(c, r, n, q)'
<1>1. \A k \in DOMAIN Request[c] : k < r => RecordStored(c, k)'
  BY RecordStoredGrow DEF Progress
<1>2. \A k \in DOMAIN Request[c][r].attrs : k < i => ItemStored(c, r, k)'
  BY ItemStoredGrow DEF Progress
<1>3. \A k \in DOMAIN Request[c][r].attrs : k \in Nat
  BY RequestTypes
<1>4. \A k \in DOMAIN Request[c][r].attrs : k < n => k < i \/ (k = i /\ n = i + 1)
  BY <1>3
<1>5. \A k \in DOMAIN Request[c][r].attrs : k < n => ItemStored(c, r, k)'
  BY <1>2, <1>4
<1>6. jobs \subseteq jobs' /\ users \subseteq users'
  BY DEF Grow
<1> QED
  BY <1>1, <1>5, <1>6 DEF Progress

\* A slave that does not move.
LEMMA SoFarOther ==
  ASSUME TypeOK, Grow, skipped \subseteq skipped', NEW t \in Slave, slave'[t] = slave[t], SoFar(t)
  PROVE  SoFar(t)'
<1> SUFFICES ASSUME ~At(t, "idle"), slave[t].call \notin skipped
             PROVE  Progress(slave[t].call, slave[t].job, slave[t].attr, slave[t].pc)'
  BY DEF SoFar, At
<1>1. /\ slave[t].call \in Call /\ slave[t].job \in DOMAIN Request[slave[t].call]
      /\ slave[t].attr \in Nat
  BY DEF TypeOK, Local
<1> PICK c, r, i, p :
      /\ c \in Call /\ r \in DOMAIN Request[c] /\ i \in Nat
      /\ c = slave[t].call /\ r = slave[t].job
      /\ i = slave[t].attr /\ p = slave[t].pc
  BY <1>1
<1>2. Progress(c, r, i, p)
  BY DEF SoFar
<1>3. Progress(c, r, i, p)'
  BY <1>2, ProgressStep
<1> QED
  BY <1>3 DEF Progress

\* A slave that goes on with its record.
LEMMA SoFarStays ==
  ASSUME TypeOK, Grow, skipped \subseteq skipped', NEW s \in Slave, Stays(s), SoFar(s),
         slave'[s].pc \in {"select_user", "insert_user", "attr", "column"} =>
           \/ slave[s].pc \in {"select_user", "insert_user", "attr", "column"}
           \/ slave[s].call \in skipped' \/ Record(s).job \in jobs',
         slave'[s].pc \in {"attr", "column"} =>
           \/ slave[s].pc \in {"attr", "column"}
           \/ slave[s].call \in skipped' \/ OwnerOf[Record(s).job] \in users',
         \A c \in Call : \A r \in DOMAIN Request[c], i \in Nat :
           /\ c = slave[s].call /\ r = slave[s].job /\ i = slave[s].attr
           /\ c \notin skipped' /\ slave'[s].attr # i
           => ItemStored(c, r, i)'
  PROVE  SoFar(s)'
<1> SUFFICES ASSUME slave'[s].call \notin skipped'
             PROVE  Progress(slave[s].call, slave[s].job, slave[s].attr, slave[s].pc)'
  BY DEF SoFar
<1>1. /\ slave[s].call \in Call /\ slave[s].job \in DOMAIN Request[slave[s].call]
      /\ slave[s].attr \in Nat /\ ~At(s, "idle") /\ slave[s].call \notin skipped
  BY DEF TypeOK, Local, Stays, At
<1> PICK c, r, i, p, q, n :
      /\ c \in Call /\ r \in DOMAIN Request[c] /\ i \in Nat
      /\ c = slave[s].call /\ r = slave[s].job /\ i = slave[s].attr /\ p = slave[s].pc
      /\ q = slave'[s].pc /\ n = slave'[s].attr
  BY <1>1
<1>2. Progress(c, r, i, p)
  BY <1>1 DEF SoFar
<1>3. Record(s) = Request[c][r]
  BY DEF Record
<1>4. c \notin skipped' /\ (n = i \/ (n = i + 1 /\ ItemStored(c, r, i)'))
  <2>1. n = i \/ n = i + 1
    BY DEF Stays
  <2> QED
    BY <2>1 DEF Stays
<1>5. Progress(c, r, n, q)'
  BY <1>2, <1>3, <1>4, ProgressStep
<1>6. c = slave'[s].call /\ r = slave'[s].job
  BY DEF Stays
<1> QED
  BY <1>5, <1>6 DEF Progress

\* A slave at the end of a record has stored it and those before it.
LEMMA AnsweredRecord ==
  ASSUME TypeOK, skipped \subseteq skipped', NEW s \in Slave, SoFar(s), NextJob(s),
         slave[s].call \notin skipped',
         NEW c \in Call, NEW r \in DOMAIN Request[c], c = slave[s].call, r = slave[s].job
  PROVE  RecordStored(c, r) /\ \A k \in DOMAIN Request[c] : k < r => RecordStored(c, k)
<1>1. slave[s].pc = "attr" /\ ~MoreAttrs(s) /\ slave[s].attr \in Nat
  BY DEF NextJob, At, TypeOK, Local
<1>2. Progress(c, r, slave[s].attr, "attr")
  BY <1>1 DEF SoFar, At
<1>3. \A k \in DOMAIN Request[c][r].attrs : k < slave[s].attr
  BY <1>1, RequestTypes DEF MoreAttrs, Record
<1> QED
  BY <1>2, <1>3 DEF Progress, RecordStored

LEMMA SoFarStep ==
  ASSUME TypeOK, AtColumns, Grow, skipped \subseteq skipped', \A t \in Slave : SoFar(t), [Next]_vars
  PROVE  \A t \in Slave : SoFar(t)'
<1>0. ASSUME NEW s \in Slave, Moved(s), SoFar(s)'
      PROVE  \A t \in Slave : SoFar(t)'
  BY <1>0, SoFarOther DEF Moved
<1>1. CASE \E s \in Slave, c \in Call : UpdateJobs(s, c)
  <2> PICK s \in Slave, c \in Call : UpdateJobs(s, c)
    BY <1>1
  <2>1. /\ Moved(s) /\ slave'[s].pc = "select_job" /\ slave'[s].call = c
        /\ slave'[s].job = 1 /\ slave'[s].attr = 1
    BY UpdateJobsEffect
  <2>2. 1 \in DOMAIN Request[c]
    BY IndexAssumption, SeqElements
  <2>3. /\ \A k \in DOMAIN Request[c] : ~(k < 1)
        /\ \A k \in DOMAIN Request[c][1].attrs : ~(k < 1)
    BY <2>2, RequestTypes
  <2>4. Progress(c, 1, 1, "select_job")'
    BY <2>3 DEF Progress
  <2>5. SoFar(s)'
    BY <2>1, <2>4 DEF SoFar, Progress
  <2> QED
    BY <2>1, <2>5, <1>0
<1>2. CASE \E s \in Slave : SelectJob(s)
  <2> PICK s \in Slave : SelectJob(s)
    BY <1>2
  <2>1. Stays(s) /\ slave'[s].attr = slave[s].attr
    BY SelectJobEffect
  <2>2. \/ slave'[s].pc = "insert_job"
        \/ /\ slave'[s].pc = "select_user"
           /\ Record(s).job \in jobs' \/ slave[s].call \in skipped'
    BY SelectJobEffect DEF tables
  <2>3. SoFar(s)'
    BY <2>1, <2>2, SoFarStays
  <2> QED
    BY <2>1, <2>3, <1>0 DEF Stays
<1>3. CASE \E s \in Slave : SelectUser(s)
  <2> PICK s \in Slave : SelectUser(s)
    BY <1>3
  <2>1. Stays(s) /\ slave'[s].attr = slave[s].attr /\ slave[s].pc = "select_user"
    BY SelectUserEffect DEF SelectUser, At
  <2>2. \/ slave'[s].pc = "insert_user"
        \/ /\ slave'[s].pc = "attr"
           /\ OwnerOf[Record(s).job] \in users' \/ slave[s].call \in skipped'
    BY SelectUserEffect DEF tables
  <2>3. SoFar(s)'
    BY <2>1, <2>2, SoFarStays
  <2> QED
    BY <2>1, <2>3, <1>0 DEF Stays
<1>4. CASE \E s \in Slave : InsertJob(s)
  <2> PICK s \in Slave : InsertJob(s)
    BY <1>4
  <2>1. slave[s].pc = "insert_job"
    BY DEF InsertJob, At
  <2>2. CASE Goto(s, "select_user") /\ UNCHANGED fate /\ jobs' = jobs \cup {Record(s).job}
    <3>1. Stays(s) /\ slave'[s].attr = slave[s].attr /\ slave'[s].pc = "select_user"
      BY <2>1, <2>2, GotoEffect DEF PC, Stays
    <3>2. SoFar(s)'
      BY <2>2, <3>1, SoFarStays
    <3> QED
      BY <3>1, <3>2, <1>0 DEF Stays
  <2>3. CASE Fail(s)
    BY <2>1, <2>3, FailEffect, IdleType, <1>0 DEF Ends, SoFar, At
  <2> QED
    BY <2>2, <2>3 DEF InsertJob
<1>5. CASE \E s \in Slave : InsertUser(s)
  <2> PICK s \in Slave : InsertUser(s)
    BY <1>5
  <2>1. slave[s].pc = "insert_user"
    BY DEF InsertUser, At
  <2>2. CASE /\ Goto(s, "attr") /\ UNCHANGED fate
             /\ users' = users \cup {OwnerOf[Record(s).job]}
    <3>1. Stays(s) /\ slave'[s].attr = slave[s].attr /\ slave'[s].pc = "attr"
      BY <2>1, <2>2, GotoEffect DEF PC, Stays
    <3>2. SoFar(s)'
      BY <2>1, <2>2, <3>1, SoFarStays
    <3> QED
      BY <3>1, <3>2, <1>0 DEF Stays
  <2>3. CASE Fail(s)
    BY <2>1, <2>3, FailEffect, IdleType, <1>0 DEF Ends, SoFar, At
  <2> QED
    BY <2>2, <2>3 DEF InsertUser
<1>6. CASE \E s \in Slave : SkipAttr(s)
  <2> PICK s \in Slave : SkipAttr(s)
    BY <1>6
  <2>1. slave[s].pc = "attr" /\ MoreAttrs(s) /\ Item1(s).name \notin DOMAIN rows
    BY DEF SkipAttr, At
  <2>2. Stays(s) /\ slave'[s].pc = "attr"
    BY <2>1, NextAttrEffect DEF SkipAttr, Stays, At
  <2>3. ASSUME NEW c \in Call, NEW r \in DOMAIN Request[c], NEW i \in Nat,
               c = slave[s].call, r = slave[s].job, i = slave[s].attr
        PROVE  ItemStored(c, r, i)'
    BY <2>1, <2>3 DEF ItemStored, Item1, Record, Grow
  <2>4. SoFar(s)'
    BY <2>1, <2>2, <2>3, SoFarStays
  <2> QED
    BY <2>2, <2>4, <1>0 DEF Stays
<1>7. CASE \E s \in Slave : InsertAttrVal(s)
  <2> PICK s \in Slave : InsertAttrVal(s)
    BY <1>7
  <2>1. slave[s].pc = "attr" /\ MoreAttrs(s) /\ Item1(s).name \in DOMAIN rows
    BY DEF InsertAttrVal, At
  <2>2. CASE Goto(s, "column") /\ UNCHANGED fate
    <3>1. Stays(s) /\ slave'[s].attr = slave[s].attr /\ slave'[s].pc = "column"
      BY <2>1, <2>2, GotoEffect DEF PC, Stays
    <3>2. SoFar(s)'
      BY <2>1, <3>1, SoFarStays
    <3> QED
      BY <3>1, <3>2, <1>0 DEF Stays
  <2>3. CASE /\ NextAttr(s) /\ UNCHANGED fate /\ Item1(s).name \notin Single
             /\ rows' = [rows EXCEPT ![Item1(s).name] = @ \cup {NewRow(s)}]
    <3>1. Stays(s) /\ slave'[s].pc = "attr"
      BY <2>1, <2>3, NextAttrEffect DEF Stays
    <3>2. NewRow(s) \in rows'[Item1(s).name]
      BY <2>1, <2>3
    <3>3. ASSUME NEW c \in Call, NEW r \in DOMAIN Request[c], NEW i \in Nat,
                 c = slave[s].call, r = slave[s].job, i = slave[s].attr
          PROVE  ItemStored(c, r, i)'
      <4>1. /\ NewRow(s).from = <<c, r, i>> /\ NewRow(s).job = Request[c][r].job
            /\ NewRow(s).value = Request[c][r].attrs[i].value
            /\ Item1(s) = Request[c][r].attrs[i]
        BY <3>3 DEF NewRow, Item1, Record
      <4> QED
        BY <2>3, <3>2, <4>1 DEF ItemStored
    <3>4. SoFar(s)'
      BY <2>1, <3>1, <3>3, SoFarStays
    <3> QED
      BY <3>1, <3>4, <1>0 DEF Stays
  <2>4. CASE Fail(s)
    BY <2>1, <2>4, FailEffect, IdleType, <1>0 DEF Ends, SoFar, At
  <2> QED
    BY <2>2, <2>3, <2>4 DEF InsertAttrVal, NewRow
<1>8. CASE \E s \in Slave : UpdateColumn(s)
  <2> PICK s \in Slave : UpdateColumn(s)
    BY <1>8
  <2>1. /\ slave[s].pc = "column" /\ MoreAttrs(s) /\ Item1(s).name \in Single
        /\ \E row \in rows[Item1(s).name] :
             /\ row.from = <<slave[s].call, slave[s].job, slave[s].attr>>
             /\ row.job = Record(s).job /\ row.value = Item1(s).value
    BY DEF UpdateColumn, At, AtColumns
  <2>2. CASE /\ NextAttr(s) /\ UNCHANGED <<fate, rows>>
             /\ column' = [column EXCEPT ![Record(s).job][Item1(s).name] = Item1(s).value]
    <3>1. Stays(s) /\ slave'[s].pc = "attr"
      BY <2>1, <2>2, NextAttrEffect DEF Stays
    <3>2. Record(s).job \in Job /\ Item1(s).value # None
      BY <2>1, AtRecord, StoredTypes DEF At
    <3>3. column'[Record(s).job][Item1(s).name] = Item1(s).value
      BY <2>1, <2>2, <3>2 DEF TypeOK
    <3>4. ASSUME NEW c \in Call, NEW r \in DOMAIN Request[c], NEW i \in Nat,
                 c = slave[s].call, r = slave[s].job, i = slave[s].attr
          PROVE  ItemStored(c, r, i)'
      BY <2>1, <2>2, <3>2, <3>3, <3>4 DEF ItemStored, Record, Item1
    <3>5. SoFar(s)'
      BY <2>1, <3>1, <3>4, SoFarStays
    <3> QED
      BY <3>1, <3>5, <1>0 DEF Stays
  <2>3. CASE Fail(s)
    BY <2>1, <2>3, FailEffect, IdleType, <1>0 DEF Ends, SoFar, At
  <2> QED
    BY <2>2, <2>3 DEF UpdateColumn
<1>9. CASE \E s \in Slave : NextJob(s)
  <2> PICK s \in Slave : NextJob(s)
    BY <1>9
  <2>1. slave[s].pc = "attr"
    BY DEF NextJob, At
  <2>2. CASE NextRecord(s)
    <3>1. ASSUME slave'[s].call \notin skipped' PROVE SoFar(s)'
      <4> PICK c, r, n :
            c \in Call /\ r \in DOMAIN Request[c] /\ c = slave[s].call /\ r = slave[s].job /\ n = r + 1
        BY <2>1 DEF TypeOK, At
      <4>1. RecordStored(c, r) /\ \A k \in DOMAIN Request[c] : k < r => RecordStored(c, k)
        BY <2>1, <2>2, <3>1, AnsweredRecord DEF NextRecord
      <4>2. \A k \in DOMAIN Request[c] : k < n => k = r \/ k < r
        BY RequestTypes
      <4>3. \A k \in DOMAIN Request[c] : k < n => RecordStored(c, k)'
        BY <4>1, <4>2, RecordStoredGrow
      <4>4. n \in DOMAIN Request[c]
        BY <2>2, RequestTypes DEF NextRecord
      <4>5. \A k \in DOMAIN Request[c][n].attrs : ~(k < 1)
        BY <4>4, RequestTypes
      <4>6. Progress(c, n, 1, "select_job")'
        BY <4>3, <4>5 DEF Progress
      <4> QED
        BY <2>2, <4>6 DEF SoFar, Progress, NextRecord
    <3>2. SoFar(s)'
      BY <3>1 DEF SoFar
    <3> QED
      BY <2>2, <3>2, <1>0 DEF NextRecord
  <2>3. CASE Ends(s, "answered")
    BY <2>3, IdleType, <1>0 DEF Ends, SoFar, At
  <2> QED
    BY <2>2, <2>3, NextJobEffect
<1>10. CASE \E s \in Slave : Crash(s)
  <2> PICK s \in Slave : Crash(s)
    BY <1>10
  <2> QED
    BY FailEffect, IdleType, <1>0 DEF Crash, Ends, SoFar, At
<1>11. CASE UNCHANGED slave
  BY <1>11, SoFarOther
<1> QED
  BY StepCases, <1>1, <1>2, <1>3, <1>4, <1>5, <1>6, <1>7, <1>8, <1>9, <1>10, <1>11
  DEF QueryJobs, GetAttrs, Reply, vars

\* The row stays, and its slave does not get to another record behind its back.
LEMMA AtColumnsStep ==
  ASSUME TypeOK, AtColumns, Grow, [Next]_vars
  PROVE  AtColumns'
<1>1. ASSUME NEW t \in Slave, slave'[t] = slave[t], slave'[t].pc = "column"
      PROVE  /\ MoreAttrs(t)' /\ Item1(t)'.name \in Single
             /\ \E row \in rows'[Item1(t)'.name] :
                  /\ row.from = <<slave'[t].call, slave'[t].job, slave'[t].attr>>
                  /\ row.job = Record(t)'.job /\ row.value = Item1(t)'.value
  <2>1. Record(t)' = Record(t) /\ Item1(t)' = Item1(t) /\ MoreAttrs(t)' = MoreAttrs(t)
    BY <1>1 DEF Record, Item1, MoreAttrs
  <2>2. /\ MoreAttrs(t) /\ Item1(t).name \in Single
        /\ \E row \in rows[Item1(t).name] :
             /\ row.from = <<slave[t].call, slave[t].job, slave[t].attr>>
             /\ row.job = Record(t).job /\ row.value = Item1(t).value
    BY <1>1 DEF AtColumns, At
  <2>3. rows[Item1(t).name] \subseteq rows'[Item1(t).name]
    BY <2>2, IndexAssumption DEF Grow, TypeOK
  <2> QED
    BY <1>1, <2>1, <2>2, <2>3
<1>2. ASSUME NEW s \in Slave, Moved(s), slave'[s].pc # "column"
      PROVE  AtColumns'
  BY <1>1, <1>2 DEF AtColumns, Moved, At
<1>3. CASE \E s \in Slave : InsertAttrVal(s)
  <2> PICK s \in Slave : InsertAttrVal(s)
    BY <1>3
  <2>1. slave[s].pc = "attr" /\ MoreAttrs(s) /\ Item1(s).name \in DOMAIN rows
    BY DEF InsertAttrVal, At
  <2>2. CASE /\ Goto(s, "column") /\ Item1(s).name \in Single
             /\ rows' = [rows EXCEPT ![Item1(s).name] = @ \cup {NewRow(s)}]
    <3>1. /\ Moved(s) /\ slave'[s].call = slave[s].call
          /\ slave'[s].job = slave[s].job /\ slave'[s].attr = slave[s].attr
      BY <2>2, GotoEffect DEF PC
    <3>2. NewRow(s) \in rows'[Item1(s).name]
      BY <2>1, <2>2
    <3>3. Record(s)' = Record(s) /\ Item1(s)' = Item1(s) /\ MoreAttrs(s)' = MoreAttrs(s)
      BY <3>1 DEF Record, Item1, MoreAttrs
    <3>4. /\ NewRow(s).from = <<slave'[s].call, slave'[s].job, slave'[s].attr>>
          /\ NewRow(s).job = Record(s)'.job /\ NewRow(s).value = Item1(s)'.value
      BY <3>1, <3>3 DEF NewRow
    <3> QED
      BY <1>1, <2>1, <2>2, <3>1, <3>2, <3>3, <3>4 DEF AtColumns, Moved, At
  <2>3. CASE NextAttr(s)
    BY <2>3, NextAttrEffect, <1>2
  <2>4. CASE Fail(s)
    BY <2>1, <2>4, FailEffect, IdleType, <1>2 DEF Ends
  <2> QED
    BY <2>2, <2>3, <2>4 DEF InsertAttrVal, NewRow
<1>4. CASE \E s \in Slave, c \in Call : UpdateJobs(s, c)
  BY <1>4, UpdateJobsEffect, <1>2
<1>5. CASE \E s \in Slave : SelectJob(s)
  <2> PICK s \in Slave : SelectJob(s)
    BY <1>5
  <2>1. Stays(s) /\ slave'[s].pc \in {"insert_job", "select_user"}
    BY SelectJobEffect
  <2> QED
    BY <2>1, <1>2 DEF Stays
<1>6. CASE \E s \in Slave : SelectUser(s)
  <2> PICK s \in Slave : SelectUser(s)
    BY <1>6
  <2>1. Stays(s) /\ slave'[s].pc \in {"insert_user", "attr"}
    BY SelectUserEffect
  <2> QED
    BY <2>1, <1>2 DEF Stays
<1>7. CASE \E s \in Slave : InsertJob(s)
  <2> PICK s \in Slave : InsertJob(s)
    BY <1>7
  <2>1. slave[s].pc # "idle" /\ (Goto(s, "select_user") \/ Fail(s))
    BY DEF InsertJob, At
  <2> QED
    BY <2>1, GotoEffect, FailEffect, IdleType, <1>2 DEF PC, Ends
<1>8. CASE \E s \in Slave : InsertUser(s)
  <2> PICK s \in Slave : InsertUser(s)
    BY <1>8
  <2>1. slave[s].pc # "idle" /\ (Goto(s, "attr") \/ Fail(s))
    BY DEF InsertUser, At
  <2> QED
    BY <2>1, GotoEffect, FailEffect, IdleType, <1>2 DEF PC, Ends
<1>9. CASE \E s \in Slave : SkipAttr(s)
  BY <1>9, NextAttrEffect, <1>2 DEF SkipAttr
<1>10. CASE \E s \in Slave : UpdateColumn(s)
  <2> PICK s \in Slave : UpdateColumn(s)
    BY <1>10
  <2>1. slave[s].pc # "idle" /\ (NextAttr(s) \/ Fail(s))
    BY DEF UpdateColumn, At
  <2> QED
    BY <2>1, NextAttrEffect, FailEffect, IdleType, <1>2 DEF Ends
<1>11. CASE \E s \in Slave : NextJob(s)
  BY <1>11, NextJobEffect, IdleType, <1>2 DEF NextRecord, Ends
<1>12. CASE \E s \in Slave : Crash(s)
  BY <1>12, FailEffect, IdleType, <1>2 DEF Crash, Ends, At
<1>13. CASE UNCHANGED slave
  BY <1>1, <1>13 DEF AtColumns, At
<1> QED
  BY StepCases, <1>3, <1>4, <1>5, <1>6, <1>7, <1>8, <1>9, <1>10, <1>11, <1>12, <1>13
  DEF QueryJobs, GetAttrs, Reply, vars

LEMMA AnsweredStep ==
  ASSUME TypeOK, Grow, skipped \subseteq skipped', \A t \in Slave : SoFar(t), AnsweredIsStored,
         [Next]_vars
  PROVE  AnsweredIsStored'
<1> SUFFICES ASSUME NEW c \in Call, fate'[c] = "answered", c \notin skipped',
                    NEW k \in DOMAIN Request[c]
             PROVE  RecordStored(c, k)'
  BY DEF AnsweredIsStored
<1>1. CASE fate[c] = "answered"
  BY <1>1, RecordStoredGrow DEF AnsweredIsStored
<1>2. CASE \E s \in Slave : NextJob(s) /\ slave[s].call = c /\ fate[c] # "answered"
  <2> PICK s \in Slave : NextJob(s) /\ slave[s].call = c /\ fate[c] # "answered"
    BY <1>2
  <2>1. ~NextRecord(s)
    BY DEF NextRecord
  <2>2. slave[s].job = Len(Request[c])
    BY <2>1, NextJobEffect
  <2>3. PICK r : r = slave[s].job /\ r \in DOMAIN Request[c]
    BY DEF TypeOK, NextJob, At
  <2>4. k = r \/ k < r
    BY <2>2, <2>3, RequestTypes
  <2>5. RecordStored(c, k)
    BY <2>3, <2>4, AnsweredRecord
  <2> QED
    BY <2>5, RecordStoredGrow
<1>3. CASE fate[c] # "answered"
  <2>1. fate' # fate
    BY <1>3
  <2>2. ASSUME NEW s \in Slave, Fail(s) PROVE FALSE
    BY <1>3, <2>2 DEF Fail, TypeOK
  <2>3. ASSUME NEW s \in Slave, NEW d \in Call, UpdateJobs(s, d) PROVE FALSE
    BY <1>3, <2>3 DEF UpdateJobs, TypeOK
  <2>4. PICK s \in Slave : NextJob(s)
    BY StepCases, <2>1, <2>2, <2>3
    DEF SelectJob, SelectUser, Select, InsertJob, InsertUser, SkipAttr, InsertAttrVal,
        UpdateColumn, Crash, QueryJobs, GetAttrs, Reply, vars
  <2>5. slave[s].call = c
    BY <1>3, <2>4 DEF NextJob, TypeOK
  <2> QED
    BY <1>2, <1>3, <2>4, <2>5
<1> QED
  BY <1>1, <1>3

-----------------------------------------------------------------------------
(* The inductive invariant and the theorems.                                *)

IndexInv ==
  /\ TypeOK /\ OneCall /\ AtColumns /\ \A s \in Slave : SoFar(s)
  /\ AnsweredIsStored /\ AnswerInv /\ OwnerFound

LEMMA IndexInit == Init => IndexInv
<1> SUFFICES ASSUME Init PROVE IndexInv
  OBVIOUS
<1>1. \A s \in Slave : At(s, "idle") /\ ~At(s, "column") /\ slave[s] = Idle
  BY IdleType DEF Init, At
<1>2. TypeOK
  BY <1>1, IdleType, QuietOK, IndexAssumption DEF Init, TypeOK
<1> QED
  BY <1>1, <1>2, QuietOK
  DEF Init, IndexInv, OneCall, AtColumns, SoFar, AnsweredIsStored, AnswerInv, OwnerFound

LEMMA IndexStep == IndexInv /\ [Next]_vars => IndexInv'
<1> SUFFICES ASSUME IndexInv, [Next]_vars PROVE IndexInv'
  OBVIOUS
<1>1. /\ TypeOK /\ OneCall /\ AtColumns /\ \A s \in Slave : SoFar(s)
      /\ AnsweredIsStored /\ AnswerInv /\ OwnerFound
  BY DEF IndexInv
<1>2. TablesOK' /\ Grow
  BY <1>1, TablesStep
<1>3. SlavesOK' /\ OneCall'
  BY <1>1, SlavesStep
<1>4. CountersOK' /\ skipped \subseteq skipped'
  BY <1>1, CountersStep
<1>5. ReaderOK' /\ AnswerInv' /\ OwnerFound'
  BY <1>1, <1>2, ReaderStep
<1>6. TypeOK'
  BY <1>2, <1>3, <1>4, <1>5 DEF TypeOK, TablesOK, SlavesOK, Working, CountersOK, ReaderOK
<1>7. AtColumns'
  BY <1>1, <1>2, AtColumnsStep
<1>8. \A s \in Slave : SoFar(s)'
  BY <1>1, <1>2, <1>4, SoFarStep
<1>9. AnsweredIsStored'
  BY <1>1, <1>2, <1>4, AnsweredStep
<1> QED
  BY <1>3, <1>5, <1>6, <1>7, <1>8, <1>9 DEF IndexInv

LEMMA IndexInvariant == Spec => []IndexInv
BY IndexInit, IndexStep, PTL DEF Spec

\* The tables, the slaves, the calls and the answer being put together are always
\* well typed, and a slave at work is at a job and an attribute of its call.
THEOREM TypeCorrect == Spec => []TypeOK
<1>1. IndexInv => TypeOK
  BY DEF IndexInv
<1> QED
  BY <1>1, IndexInvariant, PTL

\* UpdateJobs never answers before the jobs, their owners and all configured
\* attributes of the call are in the tables, whatever other slaves do and wherever
\* they fail or die.
THEOREM AnsweredUpdatesAreStored == Spec => []AnsweredIsStored
<1>1. IndexInv => AnsweredIsStored
  BY DEF IndexInv
<1> QED
  BY <1>1, IndexInvariant, PTL

\* The owner of a job get_jobids selects is found by get_owner.
THEOREM OwnersAreFound == Spec => []OwnerFound
<1>1. IndexInv => OwnerFound
  BY DEF IndexInv
<1> QED
  BY <1>1, IndexInvariant, PTL

\* For every query of the assumed shape, every index of values that does not decrease
\* and all contents of the tables, the statement of get_jobids selects jobs of the
\* client only, selects too much through "equal" and "within" only and too little
\* through "unequal", "greater" and "less" only, and each only where the index does
\* not tell the value asked for from a stored one.
THEOREM QueriesAreExact == Spec => []QueryExact
<1>1. IndexInv => QueryExact
  <2> SUFFICES ASSUME IndexInv, NEW q \in Query, Accepted(q), Parsable(q)
               PROVE  /\ \A j \in GetJobids(q) :
                           /\ NoAuth \/ OwnerOf[j] = q.by
                           /\ ToldApart(q, {"equal", "within"}) => Matches(q, j)
                      /\ Plain(q) /\ ToldApart(q, {"unequal", "greater", "less"}) =>
                           \A j \in jobs : MaySee(q, j) /\ Matches(q, j) => j \in GetJobids(q)
    BY DEF QueryExact
  <2>1. TypeOK /\ jobs \subseteq Job
    BY DEF IndexInv, TypeOK
  <2>2. ToldApart(q, {"equal", "within"}) => \A j \in GetJobids(q) : Matches(q, j)
    BY <2>1, JoinedMatches DEF GetJobids
  <2>3. Plain(q) /\ ToldApart(q, {"unequal", "greater", "less"}) =>
          \A j \in jobs : Matches(q, j) => Joined(q, j)
    BY <2>1, PlainJoined
  <2> QED
    BY <2>2, <2>3 DEF GetJobids, MaySee
<1> QED
  BY <1>1, IndexInvariant, PTL

\* The answer to a query is right although slaves store while it is put together.
THEOREM AnswersAreRight == Spec => []AnswerRight
<1>1. IndexInv => AnswerRight
  BY DEF IndexInv, AnswerInv, AnswerRight
<1> QED
  BY <1>1, IndexInvariant, PTL

\* Whatever slaves store, fail and die: no step takes a job, an owner or a row of an
\* attribute back or empties a column of jobs; a column that changes, possibly from
\* another value, gets one the table of its attribute has for the job.
THEOREM TablesOnlyGrow == Spec => [][Grow /\ ColumnsFollowRows]_vars
<1>1. IndexInv /\ [Next]_vars => [Grow /\ ColumnsFollowRows]_vars
  BY TablesStep, ColumnsStep DEF IndexInv
<1> QED
  BY <1>1, IndexInvariant, PTL DEF Spec
=============================================================================
