----------------------------- MODULE IndexStore -----------------------------
(***************************************************************************)
(* The data tables of the index server: UpdateJobs stores what a feed      *)
(* sends, statement by statement and without a transaction (updateJob in   *)
(* index/src/soap_ops.c, glite_jpis_lazyInsertJob, glite_jpis_insertAttrVal*)
(* in db_ops.c), and QueryJobs answers users (soap_ops.c).  What UpdateJobs*)
(* does with the row of the feed is in FeedSession.                        *)
(*                                                                         *)
(* A query is a sequence of conditions on attributes, or on the job        *)
(* identifier, each a sequence of records of which one is to be satisfied. *)
(***************************************************************************)
EXTENDS Integers, Sequences, FiniteSets, Functions

CONSTANTS
  Slave,      \* slaves serving UpdateJobs
  Job,        \* job identifiers, ordered as strings are: natural numbers
  User,
  OwnerOf,    \* owner of a job as the Primary Storage sends it: [Job -> User]
  Attr,       \* attributes feeds send
  Configured, \* attributes of the configuration
  Indexed,    \* attributes with an index
  Single,     \* attributes with one value that may be queried
  IndexValue, \* what the index keeps of a value, its first characters
  Call,       \* UpdateJobs calls
  Request,    \* their job records: [Call -> Seq([job: Job, attrs: Seq(Item)])]
  Query,      \* queries: [by: User, conditions: Seq(Cond), attributes: SUBSET Attr]
  NoAuth,     \* is the server configured to show users all jobs?
  MaxFaults,  \* bound: statements that fail and slaves that die
  None

JobId == "jobid"
Value == DOMAIN IndexValue
Origin == {"system", "user", "file"}
Item == [name: Attr, value: Value, origin: Origin]

\* A query record, and the operations of one; a condition; a query.  Values are
\* ordered as strings are.
Op == {"equal", "unequal", "greater", "less", "within", "exists"}
QueryRecord == [op: Op, value: Nat, value2: Nat]
Condition == [attr: Attr \cup {JobId}, origin: Origin \cup {"any"}, records: Seq(QueryRecord)]
QueryType == [by: User, conditions: Seq(Condition), attributes: SUBSET Attr]

\* to_db_index does not decrease (type_plugin.h:51).  The calls a feed makes have a
\* job, the conditions of a query have a record.
ASSUME IndexAssumption ==
  /\ Job \subseteq Nat /\ OwnerOf \in [Job -> User]
  /\ Value \subseteq Nat /\ IndexValue \in [Value -> Nat]
  /\ \A v, w \in Value : v <= w => IndexValue[v] <= IndexValue[w]
  /\ JobId \notin Attr /\ Configured \subseteq Attr \cup {JobId}
  /\ Indexed \cup Single \subseteq Configured \ {JobId}
  /\ Request \in [Call -> Seq([job: Job, attrs: Seq(Item)])]
  /\ \A c \in Call : Request[c] # <<>>
  /\ Query \subseteq QueryType
  /\ \A q \in Query : \A c \in Range(q.conditions) :
       /\ c.records # <<>>
       /\ c.attr # JobId => \A r \in Range(c.records) : r.value \in Value /\ r.value2 \in Value
  /\ NoAuth \in BOOLEAN /\ MaxFaults \in Nat
  /\ None \notin Call \cup Query \cup Nat \cup Value

VARIABLES
  jobs,      \* table jobs: identifiers
  column,    \* table jobs: columns of attributes with one value
  users,     \* table users
  rows,      \* tables attr_*: a set of rows each
  slave,     \* slaves serving UpdateJobs
  fate,      \* calls: made, answered or failed
  skipped,   \* history: calls in which a failed select was taken for "found"
  reader,    \* a slave serving QueryJobs
  faults

tables == <<jobs, column, users, rows>>
vars == <<jobs, column, users, rows, slave, fate, skipped, reader, faults>>

\* A row remembers the call and the place in it, so that equal rows are kept apart.
AttrRow == [job: Job, value: Value, origin: Origin, from: Call \X Nat \X Nat]

Idle == [pc |-> "idle", call |-> None, job |-> 1, attr |-> 1]
Quiet == [pc |-> "idle", q |-> None, jobs |-> {}, todo |-> {}, got |-> {}, before |-> {}]

PC == {"idle", "select_job", "insert_job", "select_user", "insert_user", "attr", "column"}
Local == [pc: PC, call: Call \cup {None}, job: Nat, attr: Nat]
Reading == [pc: {"idle", "reading", "lost"}, q: Query \cup {None}, jobs: SUBSET Job,
            todo: SUBSET Job, got: SUBSET AttrRow, before: SUBSET AttrRow]

Init ==
  /\ jobs = {} /\ users = {}
  /\ column = [j \in Job |-> [a \in Single |-> None]]
  /\ rows = [a \in Configured \ {JobId} |-> {}]
  /\ slave = [s \in Slave |-> Idle]
  /\ fate = [c \in Call |-> "none"]
  /\ skipped = {}
  /\ reader = Quiet
  /\ faults = 0

-----------------------------------------------------------------------------
(* UpdateJobs *)

At(s, label) == slave[s].pc = label
Goto(s, label) == slave' = [slave EXCEPT ![s].pc = label]
Record(s) == Request[slave[s].call][slave[s].job]
Item1(s) == Record(s).attrs[slave[s].attr]
Fine == UNCHANGED <<faults, skipped>>
Fault == faults < MaxFaults /\ faults' = faults + 1

\* The call ends with a fault; what it has stored stays.
Fail(s) ==
  /\ slave' = [slave EXCEPT ![s] = Idle]
  /\ fate' = [fate EXCEPT ![slave[s].call] = "failed"]

UpdateJobs(s, c) ==
  /\ At(s, "idle") /\ fate[c] = "none"
  /\ slave' = [slave EXCEPT ![s] = [Idle EXCEPT !.pc = "select_job", !.call = c]]
  /\ fate' = [fate EXCEPT ![c] = "made"]
  /\ UNCHANGED <<tables, reader>> /\ Fine

\* A select that fails is neither "found" nor "not found": nothing is inserted and
\* the call goes on.
Select(s, found, insert, next) ==
  /\ \/ found /\ Goto(s, next) /\ Fine
     \/ ~found /\ Goto(s, insert) /\ Fine
     \/ Goto(s, next) /\ Fault /\ skipped' = skipped \cup {slave[s].call}
  /\ UNCHANGED <<tables, fate, reader>>

\* Mutant: the owner of a job that is there is taken for granted.
SelectJob_NoUser(s) ==
  /\ At(s, "select_job")
  /\ Select(s, Record(s).job \in jobs, "insert_job", "attr")

SelectJob(s) ==
  /\ At(s, "select_job")
  /\ Select(s, Record(s).job \in jobs, "insert_job", "select_user")

SelectUser(s) ==
  /\ At(s, "select_user")
  /\ Select(s, OwnerOf[Record(s).job] \in users, "insert_user", "attr")

\* The key of the table lets one of two inserts through; the call of the other
\* fails.
InsertJob(s) ==
  /\ At(s, "insert_job")
  /\ \/ /\ Record(s).job \notin jobs
        /\ jobs' = jobs \cup {Record(s).job} /\ Goto(s, "select_user")
        /\ UNCHANGED fate /\ Fine
     \/ Record(s).job \in jobs /\ UNCHANGED jobs /\ Fail(s) /\ Fine
     \/ UNCHANGED <<jobs, skipped>> /\ Fail(s) /\ Fault
  /\ UNCHANGED <<column, users, rows, reader>>

InsertUser(s) ==
  LET u == OwnerOf[Record(s).job] IN
  /\ At(s, "insert_user")
  /\ \/ u \notin users /\ users' = users \cup {u} /\ Goto(s, "attr") /\ UNCHANGED fate /\ Fine
     \/ u \in users /\ UNCHANGED users /\ Fail(s) /\ Fine
     \/ UNCHANGED <<users, skipped>> /\ Fail(s) /\ Fault
  /\ UNCHANGED <<jobs, column, rows, reader>>

\* Attributes that are not configured are passed over.
MoreAttrs(s) == slave[s].attr <= Len(Record(s).attrs)
NextAttr(s) == slave' = [slave EXCEPT ![s].attr = @ + 1, ![s].pc = "attr"]

SkipAttr(s) ==
  /\ At(s, "attr") /\ MoreAttrs(s)
  /\ Item1(s).name \notin DOMAIN rows
  /\ NextAttr(s)
  /\ UNCHANGED <<tables, fate, reader>> /\ Fine

InsertAttrVal(s) ==
  LET i == Item1(s)
      row == [job |-> Record(s).job, value |-> i.value, origin |-> i.origin,
              from |-> <<slave[s].call, slave[s].job, slave[s].attr>>]
  IN /\ At(s, "attr") /\ MoreAttrs(s)
     /\ i.name \in DOMAIN rows
     /\ \/ /\ rows' = [rows EXCEPT ![i.name] = @ \cup {row}]
           /\ IF i.name \in Single THEN Goto(s, "column") ELSE NextAttr(s)
           /\ UNCHANGED fate /\ Fine
        \/ UNCHANGED <<rows, skipped>> /\ Fail(s) /\ Fault
     /\ UNCHANGED <<jobs, column, users, reader>>

\* The update has to find the row of the job.
UpdateColumn(s) ==
  LET i == Item1(s) IN
  /\ At(s, "column")
  /\ \/ /\ Record(s).job \in jobs
        /\ column' = [column EXCEPT ![Record(s).job][i.name] = i.value]
        /\ NextAttr(s) /\ UNCHANGED fate /\ Fine
     \/ Record(s).job \notin jobs /\ UNCHANGED column /\ Fail(s) /\ Fine
     \/ UNCHANGED <<column, skipped>> /\ Fail(s) /\ Fault
  /\ UNCHANGED <<jobs, users, rows, reader>>

\* Mutant: the attributes of the next job are not begun from the first one.
NextJob_NoReset(s) ==
  LET l == slave[s] IN
  /\ At(s, "attr") /\ ~MoreAttrs(s)
  /\ \/ /\ l.job < Len(Request[l.call])
        /\ slave' = [slave EXCEPT ![s] = [l EXCEPT !.pc = "select_job", !.job = @ + 1]]
        /\ UNCHANGED fate
     \/ /\ l.job = Len(Request[l.call])
        /\ slave' = [slave EXCEPT ![s] = Idle]
        /\ fate' = [fate EXCEPT ![l.call] = "answered"]
  /\ UNCHANGED <<tables, reader>> /\ Fine

NextJob(s) ==
  LET l == slave[s] IN
  /\ At(s, "attr") /\ ~MoreAttrs(s)
  /\ \/ /\ l.job < Len(Request[l.call])
        /\ slave' = [slave EXCEPT ![s] =
             [l EXCEPT !.pc = "select_job", !.job = @ + 1, !.attr = 1]]
        /\ UNCHANGED fate
     \/ /\ l.job = Len(Request[l.call])
        /\ slave' = [slave EXCEPT ![s] = Idle]
        /\ fate' = [fate EXCEPT ![l.call] = "answered"]
  /\ UNCHANGED <<tables, reader>> /\ Fine

\* A slave dies; the Primary Storage gets no answer.
Crash(s) ==
  /\ ~At(s, "idle") /\ Fail(s) /\ Fault
  /\ UNCHANGED <<tables, reader, skipped>>

-----------------------------------------------------------------------------
(* QueryJobs *)

Satisfied(r, x) ==
  CASE r.op = "equal" -> x = r.value
    [] r.op = "unequal" -> x # r.value
    [] r.op = "greater" -> x > r.value
    [] r.op = "less" -> x < r.value
    [] r.op = "within" -> r.value <= x /\ x <= r.value2
    [] r.op = "exists" -> TRUE

Indexing(r) == [r EXCEPT !.value = IndexValue[@], !.value2 = IndexValue[@]]

\* Records of a condition that get into the text of the statement.
Texts(c) == {r \in Range(c.records) : r.op # "exists"}

\* checkIndexedConditions: without any indexed attribute even a condition on the
\* job identifier is not good enough.  checkConditions: all attributes are known.
Accepted(q) ==
  /\ \E i \in DOMAIN q.conditions :
       Indexed # {} /\ q.conditions[i].attr \in Indexed \cup {JobId}
  /\ \A i \in DOMAIN q.conditions : q.conditions[i].attr \in Configured
  /\ q.attributes \subseteq Configured \ {JobId}

\* "AND" is put before a condition on an attribute, unless it is the first one, and
\* never before a condition on the job identifier: a text that comes after another
\* needs it, the first text must not have it, and there has to be one.
Parsable(q) ==
  LET text(i) == q.conditions[i].attr # JobId \/ Texts(q.conditions[i]) # {}
      after(i) == \E k \in DOMAIN q.conditions : k < i /\ text(k)
  IN /\ \E i \in DOMAIN q.conditions : text(i)
     /\ \A i \in DOMAIN q.conditions :
          text(i) /\ i > 1 => (after(i) <=> q.conditions[i].attr # JobId)

\* Mutant: the origin asked for is not looked at.
RowFits_AnyOrigin(c, row) ==
  Texts(c) = {} \/ \E r \in Texts(c) : Satisfied(Indexing(r), IndexValue[row.value])

RowFits(c, row) ==
  /\ c.origin \in {"any", row.origin}
  /\ Texts(c) = {} \/ \E r \in Texts(c) : Satisfied(Indexing(r), IndexValue[row.value])

\* Every table is joined once: all conditions on an attribute speak of one row.
Joined(q, j) ==
  LET conds == Range(q.conditions) IN
  /\ \A c \in conds : c.attr = JobId =>
       Texts(c) = {} \/ \E r \in Texts(c) : Satisfied(r, j)
  /\ \A a \in {c.attr : c \in conds} \ {JobId} :
       \E row \in rows[a] : row.job = j /\ \A c \in conds : c.attr = a => RowFits(c, row)

\* Mutant: the owner is compared without the join with users.
GetJobids_NoJoin(q) == {j \in jobs : (NoAuth \/ OwnerOf[j] = q.by) /\ Joined(q, j)}

\* Jobs of the client, through a join with users.
GetJobids(q) ==
  {j \in jobs : /\ NoAuth \/ (OwnerOf[j] = q.by /\ q.by \in users)
                /\ Joined(q, j)}

\* Mutant: the attributes are not selected by the job.
Stored_AllJobs(j, q) == UNION {rows[a] : a \in q.attributes}

\* get_attr: all rows of a job in the tables of the attributes asked for.
Stored(j, q) == UNION {{row \in rows[a] : row.job = j} : a \in q.attributes}

\* A query that is not accepted, or whose statement cannot be parsed, is a fault.
QueryJobs(q) ==
  /\ reader = Quiet
  /\ Accepted(q) /\ Parsable(q)
  /\ LET found == GetJobids(q) IN
     reader' = [pc |-> "reading", q |-> q, jobs |-> found, todo |-> found, got |-> {},
                before |-> UNION {Stored(j, q) : j \in found}]
  /\ UNCHANGED <<tables, slave, fate>> /\ Fine

\* get_attrs of one job: its attributes, then its owner, who has to be found.
GetAttrs(j) ==
  /\ reader.pc = "reading" /\ j \in reader.todo
  /\ reader' = [reader EXCEPT
       !.todo = @ \ {j}, !.got = @ \cup Stored(j, reader.q),
       !.pc = IF OwnerOf[j] \in users THEN @ ELSE "lost"]
  /\ UNCHANGED <<tables, slave, fate>> /\ Fine

Reply ==
  /\ reader.pc # "idle"
  /\ reader.pc = "reading" => reader.todo = {}
  /\ reader' = Quiet
  /\ UNCHANGED <<tables, slave, fate>> /\ Fine

Next ==
  \/ \E s \in Slave :
       \/ \E c \in Call : UpdateJobs(s, c)
       \/ SelectJob(s) \/ InsertJob(s) \/ SelectUser(s) \/ InsertUser(s)
       \/ SkipAttr(s) \/ InsertAttrVal(s) \/ UpdateColumn(s) \/ NextJob(s) \/ Crash(s)
  \/ \E q \in Query : QueryJobs(q)
  \/ \E j \in Job : GetAttrs(j)
  \/ Reply

Spec == Init /\ [][Next]_vars

-----------------------------------------------------------------------------
(* Properties *)

\* Every variable holds a value of its type; a slave at work is at a job and an
\* attribute of its call.
TypeOK ==
  /\ jobs \subseteq Job /\ users \subseteq User
  /\ column \in [Job -> [Single -> Value \cup {None}]]
  /\ rows \in [Configured \ {JobId} -> SUBSET AttrRow]
  /\ slave \in [Slave -> Local]
  /\ \A s \in Slave : ~At(s, "idle") =>
       /\ slave[s].call \in Call /\ fate[slave[s].call] = "made"
       /\ slave[s].job \in DOMAIN Request[slave[s].call]
       /\ slave[s].attr \in 1 .. Len(Record(s).attrs) + 1
  /\ fate \in [Call -> {"none", "made", "answered", "failed"}]
  /\ skipped \subseteq Call /\ faults \in 0 .. MaxFaults
  /\ reader \in Reading /\ reader.todo \subseteq reader.jobs

\* Attribute i of record r of a call is stored, in its table and in its column.
ItemStored(c, r, i) ==
  LET rec == Request[c][r]
      item == rec.attrs[i]
  IN item.name \in DOMAIN rows =>
       /\ \E row \in rows[item.name] :
            row.from = <<c, r, i>> /\ row.job = rec.job /\ row.value = item.value
       /\ item.name \in Single => column[rec.job][item.name] # None

RecordStored(c, r) ==
  /\ Request[c][r].job \in jobs /\ OwnerOf[Request[c][r].job] \in users
  /\ \A i \in DOMAIN Request[c][r].attrs : ItemStored(c, r, i)

\* When a feed is told that its update is stored, it is: the jobs, their owners and
\* all configured attributes, whatever other slaves insert at the same time and
\* wherever calls before it failed or died.  Unless a select of this call failed,
\* which lazyInsertJob takes for "found".
AnsweredIsStored ==
  \A c \in Call : fate[c] = "answered" /\ c \notin skipped =>
    \A r \in DOMAIN Request[c] : RecordStored(c, r)

\* What a query means: each condition is satisfied by some value of its own.
Matches(q, j) ==
  \A c \in Range(q.conditions) :
    \E r \in Range(c.records) :
      IF c.attr = JobId THEN Satisfied(r, j)
      ELSE \E row \in rows[c.attr] :
             row.job = j /\ c.origin \in {"any", row.origin} /\ Satisfied(r, row.value)

\* May the client see a job?  Its owner has to be known.
MaySee(q, j) == NoAuth \/ (OwnerOf[j] = q.by /\ q.by \in users)

\* Queries get_jobids translates exactly but for what the index leaves out of the
\* values: no two conditions on one attribute, and "exists" stands alone in its
\* condition.
Plain(q) ==
  /\ \A i, k \in DOMAIN q.conditions :
       q.conditions[i].attr = q.conditions[k].attr /\ q.conditions[i].attr # JobId => i = k
  /\ \A c \in Range(q.conditions) : Texts(c) = {} \/ Texts(c) = Range(c.records)

\* What is stored of an attribute and a value of a query differ in the index too,
\* whenever they differ.
Told(a, v) == \A row \in rows[a] : row.value # v => IndexValue[row.value] # IndexValue[v]

ToldApart(q, ops) ==
  \A c \in Range(q.conditions) : c.attr # JobId =>
    \A r \in Range(c.records) : r.op \in ops =>
      Told(c.attr, r.value) /\ (r.op = "within" => Told(c.attr, r.value2))

\* The statement get_jobids puts together selects jobs of the client only.  They
\* match the query, unless it asks for a value, or for a range from or to one, that
\* the index does not tell from a stored one: "unequal", "greater" and "less" never
\* select too much, however long the values are.  A plain query selects all jobs
\* that match, unless one of these three misses them for the same reason: "equal"
\* and "within" never miss a job.
QueryExact ==
  \A q \in Query : Accepted(q) /\ Parsable(q) =>
    /\ \A j \in GetJobids(q) :
         /\ NoAuth \/ OwnerOf[j] = q.by
         /\ ToldApart(q, {"equal", "within"}) => Matches(q, j)
    /\ Plain(q) /\ ToldApart(q, {"unequal", "greater", "less"}) =>
         \A j \in jobs : MaySee(q, j) /\ Matches(q, j) => j \in GetJobids(q)

\* An answer put together while slaves go on storing has all that was stored when
\* the jobs were selected, of these jobs only, and they would be selected still.
AnswerRight ==
  reader.pc = "reading" /\ reader.todo = {} =>
    /\ reader.before \subseteq reader.got
    /\ \A row \in reader.got : row.job \in reader.jobs
    /\ reader.jobs \subseteq GetJobids(reader.q)

\* The owner of a selected job is always found (get_owner frees a string twice when
\* it is not): the join of the first statement sees to it, unless the server shows
\* all jobs to everybody.
OwnerFound == ~NoAuth => reader.pc # "lost"
=============================================================================
