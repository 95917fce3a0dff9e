---------------------------- MODULE PSFeedProofs ----------------------------
(***************************************************************************)
(* Proofs about PSFeed for any number of slaves, jobs, feeds and           *)
(* attributes and any queries: its types, that jobs marked as fed were     *)
(* sent, that a history feed is complete in what could be read all the     *)
(* time, and that no job gets to a feed that excludes its owner; and that  *)
(* feeds with queries on metadata are kept up to date when nothing fails,  *)
(* with all tags that no slave looked for while their file was rewritten.  *)
(***************************************************************************)
EXTENDS PSFeed, SequenceTheorems, FiniteSetTheorems, TLAPS

MatchKinds == {"attr", "multi", "file"}
Filing == Recording \ {"open"}
Handling == Reading \cup {"next", "check", "send", "mark", "run"}
MatchAt == {"match", "next", "find", "full", "check", "send", "mark"}

\* A step is one of a slave.
LEMMA StepCases ==
  ASSUME [Next]_vars
  PROVE  \/ UNCHANGED vars
         \/ \E s \in Slave :
              \/ \E j \in Job : RegisterJob(s, j)
              \/ \E j \in Job, A \in SUBSET FileAttr : CommitUpload(s, j, A)
              \/ \E k \in {"attr", "multi"}, J \in SUBSET Job, a \in Tag : RecordTags(s, k, J, a)
              \/ \E f \in Feed : FeedIndex(s, f)
              \/ \E j \in Job : OpenTags(s, j)
              \/ CreateTags(s) \/ CloseTags(s) \/ RewriteTags(s) \/ WriteTags(s) \/ FailTags(s)
              \/ StartMatch(s) \/ MatchFeed(s) \/ NextJob(s) \/ GetAttr(s) \/ FeedMatches(s)
              \/ CheckFed(s) \/ FullFeed(s) \/ Send(s) \/ SetFed(s)
              \/ RunQuery(s) \/ StackJob(s) \/ DrainFeed(s) \/ QueryEnds(s)
              \/ RegisterFeed(s) \/ CallFreed(s)
              \/ \E j \in Job : QueryCallback(s, j)
              \/ Die(s)
              \/ \E expired \in SUBSET feeds : StartSlave(s, expired)
BY DEF Next, Call, Tagging, Deferred

-----------------------------------------------------------------------------
(* The work in the queues and the processes of the slaves.                  *)

\* Work that is queued is about feeds that were asked for; one job is matched unless it is
\* of RecordMultiTags.
WorkOK(w, ask) ==
  /\ w.kind \in {"run", "register"} => w.feed \in ask
  /\ w.kind \in {"attr", "file"} => \E j \in Job : w.jobs = {j}

QueueOK(q, ask) == \A k \in 1 .. Len(q) : WorkOK(q[k], ask)

\* A process with nothing in hand.
Clean(x) ==
  /\ x.call = {} /\ x.feed = {} /\ x.left = {} /\ x.job = {} /\ x.ask = {} /\ x.got = {}
  /\ x.jobs = {} /\ x.batch = {} /\ x.mark = {}

Proc(p, ask) ==
  /\ QueueOK(p.queue, ask)
  /\ p.pc \notin Recording \cup {"idle", "dead"} => p.queue # <<>>
  /\ p.pc \in Handling => \E f \in Feed : p.feed = {f}
  /\ p.pc \in Reading \cup Filing => \E j \in Job : p.job = {j}
  /\ p.pc \in MatchAt => Head(p.queue).kind \in MatchKinds
  /\ p.pc \in {"deferred", "match"} => Clean(p)
  /\ p.pc \in {"next", "find", "check"} => p.batch = {} /\ p.mark = {}
  /\ p.pc \in {"next", "find", "check"} => p.left \cup p.jobs \subseteq Head(p.queue).jobs
  /\ p.pc = "find" => p.job \subseteq Head(p.queue).jobs
  /\ p.pc \in {"past", "run"} => p.feed \subseteq ask
  /\ p.pc \in Recording => \E w \in Work : p.call = {w} /\ w.kind \in MatchKinds /\ WorkOK(w, ask)

Tables ==
  /\ stored \in [Job -> SUBSET Attr] /\ file \in [Job -> {"absent", "ok", "corrupt"}]
  /\ feeds \subseteq asked /\ asked \subseteq Feed /\ fedPast \subseteq asked
  /\ fed \subseteq Feed \X Job /\ lost \subseteq Feed \X Job /\ missed \subseteq Job
  /\ index \in [Feed -> [Job -> SUBSET Attr]]
  /\ before \in [Feed -> [Job -> SUBSET Attr]]
  /\ calls \in 0 .. MaxCalls

TypeInv ==
  /\ Tables
  /\ slave \in [Slave -> Process]
  /\ \A s \in Slave : Proc(slave[s], asked)

LEMMA TypeInvType == TypeInv => TypeOK
BY DEF TypeInv, TypeOK, Tables, Proc, Handling, Filing

LEMMA HeadOK ==
  ASSUME NEW q \in Seq(Work), q # <<>>, NEW ask, QueueOK(q, ask)
  PROVE  Head(q) \in Work /\ WorkOK(Head(q), ask)
<1>1. 1 \in 1 .. Len(q) /\ Head(q) = q[1] /\ q[1] \in Work
  OBVIOUS
<1> QED
  BY <1>1 DEF QueueOK

LEMMA TailOK ==
  ASSUME NEW q \in Seq(Work), q # <<>>, NEW ask, QueueOK(q, ask)
  PROVE  Tail(q) \in Seq(Work) /\ QueueOK(Tail(q), ask)
<1>1. /\ Tail(q) \in Seq(Work) /\ Len(Tail(q)) = Len(q) - 1 /\ Len(q) \in Nat
      /\ \A k \in 1 .. Len(Tail(q)) : Tail(q)[k] = q[k + 1]
  OBVIOUS
<1>2. \A k \in 1 .. Len(Tail(q)) : k + 1 \in 1 .. Len(q)
  BY <1>1
<1> QED
  BY <1>1, <1>2 DEF QueueOK

LEMMA ConcatOK ==
  ASSUME NEW q \in Seq(Work), NEW r \in Seq(Work), NEW ask, QueueOK(q, ask), QueueOK(r, ask)
  PROVE  q \o r \in Seq(Work) /\ QueueOK(q \o r, ask)
<1>1. /\ q \o r \in Seq(Work) /\ Len(q \o r) = Len(q) + Len(r) /\ Len(q) \in Nat /\ Len(r) \in Nat
      /\ \A k \in 1 .. Len(q \o r) : (q \o r)[k] = IF k <= Len(q) THEN q[k] ELSE r[k - Len(q)]
  OBVIOUS
<1>2. \A k \in 1 .. Len(q \o r) :
        IF k <= Len(q) THEN k \in 1 .. Len(q) ELSE k - Len(q) \in 1 .. Len(r)
  BY <1>1
<1> QED
  BY <1>1, <1>2 DEF QueueOK

\* Later more feeds are asked for.
LEMMA QueueLater ==
  ASSUME NEW q, NEW ask, NEW ask2, QueueOK(q, ask), ask \subseteq ask2
  PROVE  QueueOK(q, ask2)
BY DEF QueueOK, WorkOK

LEMMA ProcLater ==
  ASSUME NEW p, NEW ask, NEW ask2, Proc(p, ask), ask \subseteq ask2
  PROVE  Proc(p, ask2)
<1>1. QueueOK(p.queue, ask2)
  BY QueueLater DEF Proc
<1>2. p.pc \in Recording => \E w \in Work : p.call = {w} /\ w.kind \in MatchKinds /\ WorkOK(w, ask2)
  BY DEF Proc, WorkOK
<1>3. p.pc \in {"past", "run"} => p.feed \subseteq ask2
  BY DEF Proc
<1> QED
  BY <1>1, <1>2, <1>3 DEF Proc

\* A step of slave s, to x.
Moves(s, x) ==
  /\ slave' \in [Slave -> Process] /\ slave'[s] = x
  /\ \A t \in Slave \ {s} : slave'[t] = slave[t]

LEMMA Moving ==
  ASSUME TypeInv, NEW s \in Slave, NEW x \in Process, Becomes(s, x)
  PROVE  Moves(s, x)
BY DEF TypeInv, Becomes, Moves

LEMMA TypeMove ==
  ASSUME TypeInv, NEW s \in Slave, NEW x \in Process, Moves(s, x), asked \subseteq asked', Tables',
         Proc(x, asked')
  PROVE  TypeInv'
<1>1. \A t \in Slave : slave'[t] \in Process /\ Proc(slave'[t], asked')
  BY ProcLater DEF TypeInv, Moves
<1> QED
  BY <1>1 DEF TypeInv, Moves

\* A step of a slave that changes nothing else.
Still == UNCHANGED <<stored, file, feeds, fed, calls, index, asked, before, fedPast, lost, missed>>

LEMMA StillTables ==
  ASSUME TypeInv, Still
  PROVE  Tables' /\ asked' = asked
BY DEF TypeInv, Still, Tables

-----------------------------------------------------------------------------
(* What each step of a slave does.                                          *)

LEMMA IdleType ==
  ASSUME NEW c \in SUBSET Feed
  PROVE  /\ Idle(c) \in Process /\ Idle(c).pc = "idle" /\ Idle(c).queue = <<>> /\ Idle(c).cache = c
         /\ Idle(c).todo = {} /\ Clean(Idle(c))
<1>1. <<>> \in Seq(Work)
  OBVIOUS
<1> QED
  BY <1>1 DEF Idle, Process, Clean

\* It gets a queue, and feeds to match.
Resting(c, l, q) == [Idle(c) EXCEPT !.pc = l, !.queue = q]
Ready(c, l, q, t) == [Idle(c) EXCEPT !.pc = l, !.queue = q, !.todo = t]

LEMMA CleanType ==
  ASSUME NEW c \in SUBSET Feed, NEW q \in Seq(Work), NEW l, l \in {"match"}, NEW t \in SUBSET Feed,
         NEW x, x = Ready(c, l, q, t)
  PROVE  /\ x \in Process /\ x.pc = l /\ x.queue = q /\ x.cache = c /\ x.todo = t /\ Clean(x)
<1> PICK i \in Process : i = Idle(c) /\ i.cache = c /\ Clean(i)
  BY IdleType
<1>1. x = [i EXCEPT !.pc = l, !.queue = q, !.todo = t]
  BY DEF Ready
<1> QED
  BY <1>1 DEF Process, Clean

\* x is a process with nothing in hand.
AtRest(x, c, l, q) ==
  x \in Process /\ x.pc = l /\ x.queue = q /\ x.cache = c /\ x.todo = {} /\ Clean(x)

LEMMA RestType ==
  ASSUME NEW c, NEW l, NEW q, c \in SUBSET Feed, q \in Seq(Work), l \in {"idle", "deferred"}
  PROVE  AtRest(Resting(c, l, q), c, l, q)
<1> PICK i \in Process : i = Idle(c) /\ i.cache = c /\ i.todo = {} /\ Clean(i)
  BY IdleType
<1>1. Resting(c, l, q) = [i EXCEPT !.pc = l, !.queue = q]
  BY DEF Resting
<1> QED
  BY <1>1 DEF Process, Clean, AtRest

LEMMA RestProc ==
  ASSUME NEW x, NEW ask, QueueOK(x.queue, ask),
         x.pc \in {"idle", "dead"} \/ (x.pc = "deferred" /\ x.queue # <<>> /\ Clean(x))
  PROVE  Proc(x, ask)
BY DEF Proc, MatchAt, Handling, Filing, Recording, Reading

\* The fields of a process have their types.
LEMMA ProcessType ==
  ASSUME TypeInv, NEW s \in Slave
  PROVE  /\ slave[s] \in Process /\ Proc(slave[s], asked)
         /\ slave[s].cache \in SUBSET Feed /\ slave[s].queue \in Seq(Work)
         /\ slave[s].call \in SUBSET Work
         /\ slave[s].todo \in SUBSET Feed /\ slave[s].feed \in SUBSET Feed
         /\ slave[s].left \in SUBSET Job /\ slave[s].job \in SUBSET Job
         /\ slave[s].ask \in SUBSET Attr /\ slave[s].got \in SUBSET Attr
         /\ slave[s].jobs \in SUBSET Job /\ slave[s].batch \in SUBSET (Job \X SUBSET Attr)
         /\ slave[s].mark \in SUBSET Job /\ QueueOK(slave[s].queue, asked)
BY DEF TypeInv, Process, Proc

\* A process with another label.
LEMMA SetType ==
  ASSUME TypeInv, NEW s \in Slave, NEW x, NEW l, x = Set(s, l),
         l \in Recording \cup Reading
                 \cup {"idle", "deferred", "match", "next", "check", "send", "mark", "run", "dead"}
  PROVE  /\ x \in Process /\ x.pc = l /\ x.cache = slave[s].cache /\ x.queue = slave[s].queue
         /\ x.call = slave[s].call /\ x.todo = slave[s].todo /\ x.feed = slave[s].feed
         /\ x.left = slave[s].left /\ x.job = slave[s].job /\ x.ask = slave[s].ask
         /\ x.got = slave[s].got /\ x.jobs = slave[s].jobs
         /\ x.batch = slave[s].batch /\ x.mark = slave[s].mark
<1> PICK p \in Process : p = slave[s]
  BY DEF TypeInv
<1>1. x = [p EXCEPT !.pc = l]
  BY DEF Set
<1> QED
  BY <1>1 DEF Process

LEMMA DeferEffect ==
  ASSUME TypeInv, NEW s \in Slave, NEW q \in Seq(Work), q # <<>>, Defer(s, q), asked \subseteq asked',
         QueueOK(q, asked')
  PROVE  \E x \in Process :
           /\ Moves(s, x) /\ x.pc = "deferred" /\ x.queue = slave[s].queue \o q
           /\ x.cache = slave[s].cache /\ x.todo = {} /\ Clean(x) /\ Proc(x, asked')
<1>0. slave[s].queue \in Seq(Work) /\ QueueOK(slave[s].queue, asked') /\ slave[s].cache \in SUBSET Feed
  BY ProcessType, QueueLater
<1> PICK r \in Seq(Work) : r = slave[s].queue \o q /\ QueueOK(r, asked')
  BY <1>0, ConcatOK
<1>1. r # <<>>
  BY <1>0
<1> PICK l : l = "deferred"
  OBVIOUS
<1> PICK c \in SUBSET Feed : c = slave[s].cache
  BY <1>0
<1> PICK x : x = Resting(c, l, r)
  OBVIOUS
<1>10. l \in {"idle", "deferred"}
  OBVIOUS
<1>11. AtRest(Resting(c, l, r), c, l, r)
  BY <1>10, RestType
<1>2. x \in Process /\ x.pc = l /\ x.queue = r /\ x.cache = c /\ x.todo = {} /\ Clean(x)
  BY <1>11 DEF AtRest
<1>20. Becomes(s, x)
  BY DEF Defer, Resting
<1>3. Moves(s, x)
  BY <1>2, <1>20, Moving
<1>4. Proc(x, asked')
  BY <1>1, <1>2, RestProc
<1> QED
  BY <1>2, <1>3, <1>4

LEMMA FinishedEffect ==
  ASSUME TypeInv, NEW s \in Slave, slave[s].queue # <<>>, Finished(s)
  PROVE  \E x \in Process :
           /\ Moves(s, x) /\ x.pc \in {"idle", "deferred"} /\ x.queue = Tail(slave[s].queue)
           /\ x.cache = slave[s].cache /\ x.todo = {} /\ Clean(x) /\ Proc(x, asked)
           /\ x.pc = "idle" => x.queue = <<>>
<1>0. slave[s].queue \in Seq(Work) /\ QueueOK(slave[s].queue, asked) /\ slave[s].cache \in SUBSET Feed
  BY ProcessType
<1> PICK q \in Seq(Work) : q = Tail(slave[s].queue) /\ QueueOK(q, asked)
  BY <1>0, TailOK
<1> PICK l : l = IF q = <<>> THEN "idle" ELSE "deferred"
  OBVIOUS
<1> PICK c \in SUBSET Feed : c = slave[s].cache
  BY <1>0
<1> PICK x : x = Resting(c, l, q)
  OBVIOUS
<1>10. l \in {"idle", "deferred"}
  OBVIOUS
<1>11. AtRest(Resting(c, l, q), c, l, q)
  BY <1>10, RestType
<1>2. x \in Process /\ x.pc = l /\ x.queue = q /\ x.cache = c /\ x.todo = {} /\ Clean(x)
  BY <1>11 DEF AtRest
<1>3. Becomes(s, x)
  BY DEF Finished, Resting
<1>4. Moves(s, x)
  BY <1>2, <1>3, Moving
<1>50. QueueOK(x.queue, asked) /\ (x.pc = "idle" \/ (x.pc = "deferred" /\ x.queue # <<>> /\ Clean(x)))
  BY <1>2
<1>5. Proc(x, asked)
  BY <1>50, RestProc
<1> QED
  BY <1>2, <1>4, <1>5

\* The slave is done with a feed.
LEMMA NextFeedEffect ==
  ASSUME TypeInv, NEW s \in Slave, slave[s].queue # <<>>, Head(slave[s].queue).kind \in MatchKinds,
         NextFeed(s)
  PROVE  \E x \in Process :
           /\ Moves(s, x) /\ x.pc = "match" /\ x.queue = slave[s].queue
           /\ x.cache = slave[s].cache /\ x.todo = slave[s].todo /\ Clean(x) /\ Proc(x, asked)
<1>0. /\ slave[s].queue \in Seq(Work) /\ QueueOK(slave[s].queue, asked)
      /\ slave[s].cache \in SUBSET Feed /\ slave[s].todo \in SUBSET Feed
  BY ProcessType
<1> PICK l : l = "match"
  OBVIOUS
<1> PICK c \in SUBSET Feed, q \in Seq(Work), t \in SUBSET Feed :
         c = slave[s].cache /\ q = slave[s].queue /\ t = slave[s].todo
  BY <1>0
<1> PICK x : x = Ready(c, l, q, t)
  OBVIOUS
<1>2. x \in Process /\ x.pc = l /\ x.queue = q /\ x.cache = c /\ x.todo = t /\ Clean(x)
  BY CleanType
<1>20. Becomes(s, x)
  BY DEF NextFeed, Ready
<1>3. Moves(s, x)
  BY <1>2, <1>20, Moving
<1>4. Proc(x, asked)
  BY <1>0, <1>2 DEF Proc, MatchAt, Handling, Filing, Recording, Reading
<1> QED
  BY <1>2, <1>3, <1>4

LEMMA DeadEffect ==
  ASSUME TypeInv, NEW s \in Slave, Dead(s)
  PROVE  \E x \in Process : Moves(s, x) /\ x.pc = "dead" /\ Proc(x, asked)
<1> PICK i \in Process : i = Idle({}) /\ i.queue = <<>>
  BY IdleType
<1> PICK x : x = [i EXCEPT !.pc = "dead"]
  OBVIOUS
<1>1. x \in Process /\ x.pc = "dead" /\ x.queue = <<>>
  BY DEF Process
<1>2. Moves(s, x)
  BY <1>1, Moving DEF Dead
<1>3. QueueOK(x.queue, asked)
  BY <1>1 DEF QueueOK
<1> QED
  BY <1>1, <1>2, <1>3, RestProc

\* One deferred function.
LEMMA OneWork ==
  ASSUME NEW w \in Work, NEW ask, WorkOK(w, ask)
  PROVE  <<w>> \in Seq(Work) /\ <<w>> # <<>> /\ QueueOK(<<w>>, ask)
BY DEF QueueOK

LEMMA MatchWork ==
  ASSUME NEW k \in MatchKinds, NEW J \in SUBSET Job, NEW A \in SUBSET Attr, NEW ask,
         k = "multi" \/ \E j \in Job : J = {j},
         NEW w, w = [kind |-> k, jobs |-> J, attrs |-> A]
  PROVE  w \in Work /\ WorkOK(w, ask) /\ w.kind = k /\ w.jobs = J /\ w.attrs = A
BY DEF Work, WorkOK, MatchKinds

LEMMA FeedWork ==
  ASSUME NEW k \in {"run", "register"}, NEW ask, NEW f \in ask, f \in Feed,
         NEW w, w = [kind |-> k, feed |-> f]
  PROVE  w \in Work /\ WorkOK(w, ask)
BY DEF Work, WorkOK, MatchKinds

\* What the parts of queued work are.
LEMMA WorkParts ==
  ASSUME NEW w \in Work
  PROVE  /\ w.kind \in MatchKinds \cup {"run", "register", "freed"}
         /\ w.kind \in MatchKinds => w.jobs \in SUBSET Job /\ w.attrs \in SUBSET Attr
         /\ w.kind \in {"run", "register"} => w.feed \in Feed
BY DEF Work, MatchKinds

\* Slave s defers w, and that is all that happens to it.
Defers(s, x, w) ==
  /\ Moves(s, x) /\ x.pc = "deferred" /\ x.queue = slave[s].queue \o <<w>>
  /\ x.cache = slave[s].cache /\ x.todo = {} /\ Clean(x) /\ Proc(x, asked')

LEMMA DeferWork ==
  ASSUME TypeInv, NEW s \in Slave, NEW w \in Work, WorkOK(w, asked), Defer(s, <<w>>), asked' = asked
  PROVE  \E x \in Process : Defers(s, x, w)
<1>1. <<w>> \in Seq(Work) /\ <<w>> # <<>> /\ QueueOK(<<w>>, asked')
  BY OneWork
<1> QED
  BY <1>1, DeferEffect DEF Defers

LEMMA RegisterJobEffect ==
  ASSUME TypeInv, NEW s \in Slave, NEW j \in Job, RegisterJob(s, j)
  PROVE  /\ Tables' /\ \A i \in Job : stored'[i] = IF i = j THEN {Owner} ELSE stored[i]
         /\ stored[j] = {}
         /\ \E x \in Process, w \in Work :
              /\ Defers(s, x, w)
              /\ w.kind = "attr" /\ w.jobs = {j} /\ w.attrs = {Owner}
<1>1. /\ stored' \in [Job -> SUBSET Attr] /\ stored[j] = {}
      /\ \A i \in Job : stored'[i] = IF i = j THEN {Owner} ELSE stored[i]
  BY FeedingAssumption DEF RegisterJob, TypeInv, Tables
<1>2. Tables' /\ asked' = asked
  BY <1>1 DEF RegisterJob, TypeInv, Tables
<1> PICK w : w = [kind |-> "attr", jobs |-> {j}, attrs |-> {Owner}]
  OBVIOUS
<1> PICK k \in MatchKinds, J \in SUBSET Job, A \in SUBSET Attr : k = "attr" /\ J = {j} /\ A = {Owner}
  BY FeedingAssumption DEF MatchKinds
<1>3. w = [kind |-> k, jobs |-> J, attrs |-> A] /\ \E i \in Job : J = {i}
  OBVIOUS
<1>4. w \in Work /\ WorkOK(w, asked) /\ w.kind = "attr" /\ w.jobs = {j} /\ w.attrs = {Owner}
  BY <1>3, MatchWork
<1>5. Defer(s, <<w>>)
  BY DEF RegisterJob
<1> QED
  BY <1>1, <1>2, <1>4, <1>5, DeferWork

\* Attributes A of job j are stored.
Adds(j, A) == \A i \in Job : stored'[i] = IF i = j THEN stored[i] \cup A ELSE stored[i]

LEMMA CommitUploadEffect ==
  ASSUME TypeInv, NEW s \in Slave, NEW j \in Job, NEW A, A \in SUBSET FileAttr, CommitUpload(s, j, A)
  PROVE  /\ Tables' /\ Adds(j, A)
         /\ \E x \in Process, w \in Work :
              /\ Defers(s, x, w)
              /\ w.kind = "file" /\ w.jobs = {j} /\ w.attrs = A
<1>0. A \in SUBSET Attr
  BY FeedingAssumption
<1>1. /\ stored' \in [Job -> SUBSET Attr]
      /\ \A i \in Job : stored'[i] = IF i = j THEN stored[i] \cup A ELSE stored[i]
  BY <1>0 DEF CommitUpload, TypeInv, Tables
<1>10. calls' \in 0 .. MaxCalls
  BY FeedingAssumption DEF CommitUpload, TypeInv, Tables
<1>2. Tables' /\ asked' = asked
  BY <1>1, <1>10 DEF CommitUpload, TypeInv, Tables
<1> PICK w : w = [kind |-> "file", jobs |-> {j}, attrs |-> A]
  OBVIOUS
<1> PICK k \in MatchKinds, J \in SUBSET Job : k = "file" /\ J = {j}
  BY DEF MatchKinds
<1>3. w = [kind |-> k, jobs |-> J, attrs |-> A] /\ \E i \in Job : J = {i}
  OBVIOUS
<1>4. w \in Work /\ WorkOK(w, asked) /\ w.kind = "file" /\ w.jobs = {j} /\ w.attrs = A
  BY <1>0, <1>3, MatchWork
<1>5. Defer(s, <<w>>)
  BY DEF CommitUpload
<1> QED
  BY <1>1, <1>2, <1>4, <1>5, DeferWork DEF Adds

\* A call that records tags has begun; nothing is stored yet.
LEMMA RecordTagsEffect ==
  ASSUME TypeInv, NEW s \in Slave, NEW k \in {"attr", "multi"}, NEW J \in SUBSET Job, NEW a \in Tag,
         RecordTags(s, k, J, a)
  PROVE  /\ Tables'
         /\ \E x \in Process :
              /\ Moves(s, x) /\ x.pc = "open" /\ x.cache = slave[s].cache
              /\ x.queue = slave[s].queue /\ Proc(x, asked)
              /\ \A w \in x.call : x.left \subseteq w.jobs
<1>0. a \in Attr
  BY FeedingAssumption
<1>1. calls' \in 0 .. MaxCalls
  BY FeedingAssumption DEF RecordTags, TypeInv, Tables
<1>2. Tables'
  BY <1>1 DEF RecordTags, TypeInv, Tables
<1> PICK A \in SUBSET Attr : A = {a}
  BY <1>0
<1> PICK w : w = [kind |-> k, jobs |-> J, attrs |-> A]
  OBVIOUS
<1>3. k \in MatchKinds /\ (k = "multi" \/ \E j \in Job : J = {j})
  BY DEF MatchKinds, RecordTags
<1>4. w \in Work /\ WorkOK(w, asked) /\ w.kind \in MatchKinds /\ w.jobs = J
  BY <1>3, MatchWork
<1> PICK p \in Process : p = slave[s] /\ QueueOK(p.queue, asked)
  BY ProcessType
<1> PICK c \in SUBSET Work : c = {w}
  BY <1>4
<1> PICK x : x = [p EXCEPT !.pc = "open", !.left = J, !.call = c]
  OBVIOUS
<1>5. /\ x \in Process /\ x.pc = "open" /\ x.call = c /\ x.queue = p.queue /\ x.cache = p.cache
      /\ x.left = J
  BY DEF Process, Recording
<1>6. Becomes(s, x)
  BY DEF RecordTags
<1>7. Moves(s, x)
  BY <1>5, <1>6, Moving
<1>8. Proc(x, asked)
  <2>1. \E v \in Work : x.call = {v} /\ v.kind \in MatchKinds /\ WorkOK(v, asked)
    BY <1>4, <1>5
  <2> QED
    BY <1>5, <2>1 DEF Proc, MatchAt, Handling, Filing, Recording, Reading
<1>9. \A v \in x.call : x.left \subseteq v.jobs
  BY <1>4, <1>5
<1> QED
  BY <1>2, <1>5, <1>7, <1>8, <1>9

LEMMA FeedIndexEffect ==
  ASSUME TypeInv, NEW s \in Slave, NEW f \in Feed, FeedIndex(s, f)
  PROVE  /\ Tables' /\ before'[f] = stored /\ \A g \in Feed \ {f} : before'[g] = before[g]
         /\ asked \subseteq asked'
         /\ \E x \in Process :
              /\ Moves(s, x) /\ x.pc = "deferred" /\ x.cache = slave[s].cache
              /\ x.todo = {} /\ Clean(x) /\ Proc(x, asked')
              /\ x.queue = slave[s].queue \o (Run(f) \o Register(f))
<1>1. /\ before' \in [Feed -> [Job -> SUBSET Attr]] /\ before'[f] = stored
      /\ \A g \in Feed \ {f} : before'[g] = before[g]
  BY DEF FeedIndex, TypeInv, Tables
<1>2. Tables' /\ asked \subseteq asked'
  BY <1>1 DEF FeedIndex, TypeInv, Tables
<1>3. f \in asked' /\ f \in History \cup Continuous
  BY DEF FeedIndex
<1>4. <<>> \in Seq(Work) /\ QueueOK(<<>>, asked')
  BY DEF QueueOK
<1> PICK w : w = [kind |-> "run", feed |-> f]
  OBVIOUS
<1> PICK v : v = [kind |-> "register", feed |-> f]
  OBVIOUS
<1>5. <<w>> \in Seq(Work) /\ <<w>> # <<>> /\ QueueOK(<<w>>, asked')
  BY <1>3, FeedWork, OneWork
<1>6. <<v>> \in Seq(Work) /\ <<v>> # <<>> /\ QueueOK(<<v>>, asked')
  BY <1>3, FeedWork, OneWork
<1> PICK q \in Seq(Work) : q = Run(f) /\ QueueOK(q, asked') /\ (f \in History => q = <<w>>)
  BY <1>4, <1>5 DEF Run
<1> PICK r \in Seq(Work) : r = Register(f) /\ QueueOK(r, asked') /\ (f \in Continuous => r = <<v>>)
  BY <1>4, <1>6 DEF Register
<1>7. q \o r \in Seq(Work) /\ QueueOK(q \o r, asked')
  BY ConcatOK
<1>8. q # <<>> \/ r # <<>>
  BY <1>3, <1>5, <1>6
<1>9. q \o r # <<>>
  BY <1>8
<1> PICK z \in Seq(Work) : z = Run(f) \o Register(f) /\ z # <<>> /\ QueueOK(z, asked')
  BY <1>7, <1>9
<1>10. Defer(s, z)
  BY DEF FeedIndex
<1>11. \E x \in Process :
           /\ Moves(s, x) /\ x.pc = "deferred" /\ x.queue = slave[s].queue \o z
           /\ x.cache = slave[s].cache /\ x.todo = {} /\ Clean(x) /\ Proc(x, asked')
  BY <1>2, <1>10, DeferEffect
<1> QED
  BY <1>1, <1>2, <1>11

-----------------------------------------------------------------------------
(* The files of tags.                                                       *)

\* The call of a slave that records tags, and the job it is at.
LEMMA InCall ==
  ASSUME TypeInv, NEW s \in Slave, slave[s].pc \in Recording
  PROVE  /\ CallOf(s) \in Work /\ slave[s].call = {CallOf(s)} /\ WorkOK(CallOf(s), asked)
         /\ CallOf(s).kind \in MatchKinds /\ CallOf(s).jobs \in SUBSET Job
         /\ CallOf(s).attrs \in SUBSET Attr
         /\ slave[s].pc \in Filing => JobOf(s) \in Job /\ slave[s].job = {JobOf(s)}
<1> PICK w \in Work : slave[s].call = {w} /\ w.kind \in MatchKinds /\ WorkOK(w, asked)
  BY ProcessType DEF Proc
<1>1. CallOf(s) = w
  BY DEF CallOf
<1>2. ASSUME slave[s].pc \in Filing PROVE JobOf(s) \in Job /\ slave[s].job = {JobOf(s)}
  <2> PICK j \in Job : slave[s].job = {j}
    BY <1>2, ProcessType DEF Proc
  <2> QED
    BY DEF JobOf
<1> QED
  BY <1>1, <1>2, WorkParts

LEMMA SetFileEffect ==
  ASSUME TypeInv, NEW j \in Job, NEW kind \in {"absent", "ok", "corrupt"}, NEW T \in SUBSET Attr,
         SetFile(j, kind, T)
  PROVE  /\ file' \in [Job -> {"absent", "ok", "corrupt"}] /\ stored' \in [Job -> SUBSET Attr]
         /\ before' \in [Feed -> [Job -> SUBSET Attr]]
         /\ \A i \in Job : stored'[i] \subseteq stored[i] \cup (IF i = j THEN T ELSE {})
         /\ \A f \in Feed, i \in Job : before'[f][i] \subseteq before[f][i] /\ before'[f][i] \subseteq stored'[i]
<1>1. /\ file' \in [Job -> {"absent", "ok", "corrupt"}] /\ stored' \in [Job -> SUBSET Attr]
      /\ \A i \in Job : stored'[i] \subseteq stored[i] \cup (IF i = j THEN T ELSE {})
  BY DEF SetFile, TypeInv, Tables
<1>2. /\ before' = [f \in Feed |-> [i \in Job |-> before[f][i] \cap stored'[i]]]
      /\ before \in [Feed -> [Job -> SUBSET Attr]]
  BY DEF SetFile, TypeInv, Tables
<1> QED
  BY <1>1, <1>2

\* The call fails: what it recorded is not matched.
Fails(s, x) ==
  /\ Moves(s, x) /\ x.pc = "idle" /\ x.queue = slave[s].queue /\ x.cache = slave[s].cache
  /\ x.todo = {} /\ Clean(x) /\ Proc(x, asked)

LEMMA FaultEffect ==
  ASSUME TypeInv, NEW s \in Slave, slave[s].pc \in Recording, Fault(s)
  PROVE  /\ \E x \in Process : Fails(s, x)
         /\ missed' = missed \cup CallOf(s).jobs /\ missed' \subseteq Job
<1>0. slave[s].queue \in Seq(Work) /\ QueueOK(slave[s].queue, asked) /\ slave[s].cache \in SUBSET Feed
  BY ProcessType
<1> PICK i \in Process : i = Idle(slave[s].cache) /\ i.cache = slave[s].cache /\ i.pc = "idle"
                         /\ i.todo = {} /\ Clean(i)
  BY <1>0, IdleType
<1> PICK q \in Seq(Work) : q = slave[s].queue
  BY <1>0
<1> PICK x : x = [i EXCEPT !.queue = q]
  OBVIOUS
<1>1. x \in Process /\ x.pc = "idle" /\ x.queue = q /\ x.cache = i.cache /\ x.todo = {} /\ Clean(x)
  BY DEF Process, Clean
<1>2. Becomes(s, x)
  BY DEF Fault
<1>3. Moves(s, x)
  BY <1>1, <1>2, Moving
<1>4. Proc(x, asked)
  BY <1>0, <1>1, RestProc
<1>5. missed' = missed \cup CallOf(s).jobs /\ missed' \subseteq Job
  BY InCall DEF Fault, TypeInv, Tables
<1> QED
  BY <1>1, <1>3, <1>4, <1>5 DEF Fails

\* The slave goes on with the call.
Records(s, x) ==
  /\ Moves(s, x) /\ x.pc \in Recording /\ x.queue = slave[s].queue /\ x.cache = slave[s].cache
  /\ x.call = slave[s].call /\ x.left \subseteq slave[s].left /\ Proc(x, asked)

LEMMA RecordsType ==
  ASSUME TypeInv, NEW s \in Slave, slave[s].pc \in Recording, NEW x \in Process, Becomes(s, x),
         x.pc \in Recording, x.queue = slave[s].queue, x.cache = slave[s].cache,
         x.call = slave[s].call, x.left \subseteq slave[s].left,
         x.pc \in Filing => \E j \in Job : x.job = {j}
  PROVE  Records(s, x)
<1>1. Moves(s, x)
  BY Moving
<1>2. /\ QueueOK(x.queue, asked)
      /\ \E w \in Work : x.call = {w} /\ w.kind \in MatchKinds /\ WorkOK(w, asked)
  BY ProcessType DEF Proc
<1>3. Proc(x, asked)
  BY <1>2 DEF Proc, MatchAt, Handling, Filing, Recording, Reading
<1> QED
  BY <1>1, <1>3 DEF Records

\* The file is read, or is corrupt.
LEMMA OpenTagsEffect ==
  ASSUME TypeInv, NEW s \in Slave, NEW j \in Job, OpenTags(s, j)
  PROVE  /\ Tables' /\ slave[s].pc = "open"
         /\ \/ /\ \E x \in Process : Fails(s, x)
               /\ missed' = missed \cup CallOf(s).jobs
            \/ /\ \E x \in Process : /\ Records(s, x) /\ x.pc \in Filing
                                     /\ x.job = {j} /\ j \in slave[s].left
                                     /\ x.got \subseteq stored[j]
               /\ missed' = missed
<1>0. slave[s].pc = "open" /\ slave[s].pc \in Recording
  BY DEF OpenTags, At, Recording
<1>1. CASE file[j] = "corrupt" /\ Fault(s)
  <2>1. missed' \subseteq Job /\ missed' = missed \cup CallOf(s).jobs /\ \E x \in Process : Fails(s, x)
    BY <1>0, <1>1, FaultEffect
  <2>2. Tables'
    BY <2>1 DEF OpenTags, TypeInv, Tables
  <2> QED
    BY <1>0, <2>1, <2>2
<1>2. CASE /\ Becomes(s, [slave[s] EXCEPT !.pc = IF file[j] = "absent" THEN "create" ELSE "rewrite",
                                        !.left = @ \ {j}, !.job = {j}, !.got = TagsOf(j)])
           /\ UNCHANGED missed
  <2>1. Tables'
    BY <1>2 DEF OpenTags, TypeInv, Tables
  <2> PICK p \in Process : p = slave[s]
    BY ProcessType
  <2> PICK l \in {"create", "rewrite"} : l = IF file[j] = "absent" THEN "create" ELSE "rewrite"
    OBVIOUS
  <2> PICK L \in SUBSET Job, J \in SUBSET Job : L = p.left \ {j} /\ J = {j}
    BY DEF Process
  <2> PICK G \in SUBSET Attr : G = TagsOf(j) /\ G \subseteq stored[j]
    BY DEF TagsOf, TypeInv, Tables
  <2> PICK x : x = [p EXCEPT !.pc = l, !.left = L, !.job = J, !.got = G]
    OBVIOUS
  <2>2. /\ x \in Process /\ x.pc = l /\ x.job = J /\ x.got = G /\ x.queue = p.queue
        /\ x.cache = p.cache /\ x.call = p.call /\ x.left \subseteq p.left
    BY DEF Process, Recording
  <2>3. Becomes(s, x)
    BY <1>2
  <2>4. x.pc \in Recording /\ x.pc \in Filing /\ \E i \in Job : x.job = {i}
    BY <2>2 DEF Recording, Filing
  <2>5. Records(s, x)
    BY <1>0, <2>2, <2>3, <2>4, RecordsType
  <2>6. j \in slave[s].left
    BY DEF OpenTags
  <2> QED
    BY <1>0, <1>2, <2>1, <2>2, <2>4, <2>5, <2>6
<1> QED
  BY <1>1, <1>2 DEF OpenTags

\* The file is created, closed or emptied.
LEMMA EmptyTagsEffect ==
  ASSUME TypeInv, NEW s \in Slave, CreateTags(s) \/ CloseTags(s) \/ RewriteTags(s)
  PROVE  /\ Tables' /\ slave[s].pc \in Filing /\ UNCHANGED <<missed, feeds, fed, index, asked, fedPast, lost>>
         /\ \A i \in Job : stored'[i] \subseteq stored[i]
         /\ \A f \in Feed, i \in Job :
              before'[f][i] \subseteq before[f][i] /\ before'[f][i] \subseteq stored'[i]
         /\ \E x \in Process : /\ Records(s, x) /\ x.pc \in Filing
                               /\ x.job = slave[s].job /\ x.got = slave[s].got
<1>0. slave[s].pc \in Filing /\ slave[s].pc \in Recording
  BY DEF CreateTags, CloseTags, RewriteTags, At, Recording, Filing
<1> PICK j \in Job : j = JobOf(s) /\ slave[s].job = {j}
  BY <1>0, InCall
<1> PICK k \in {"absent", "ok", "corrupt"}, T \in SUBSET Attr : SetFile(j, k, T) /\ T = {}
  BY DEF CreateTags, CloseTags, RewriteTags, TypeInv, Tables
<1>1. /\ file' \in [Job -> {"absent", "ok", "corrupt"}] /\ stored' \in [Job -> SUBSET Attr]
      /\ before' \in [Feed -> [Job -> SUBSET Attr]]
      /\ \A i \in Job : stored'[i] \subseteq stored[i]
      /\ \A f \in Feed, i \in Job : before'[f][i] \subseteq before[f][i] /\ before'[f][i] \subseteq stored'[i]
  BY SetFileEffect
<1>2. UNCHANGED <<missed, feeds, fed, index, asked, fedPast, lost, calls>>
  BY DEF CreateTags, CloseTags, RewriteTags
<1>3. Tables'
  BY <1>1, <1>2 DEF TypeInv, Tables
<1> PICK l : l \in {"close", "rewrite", "write"} /\ Becomes(s, Set(s, l))
  BY DEF CreateTags, CloseTags, RewriteTags
<1> PICK x : x = Set(s, l)
  OBVIOUS
<1>4. l \in Recording /\ l \in Filing
  BY DEF Recording, Filing
<1>5. /\ x \in Process /\ x.pc = l /\ x.cache = slave[s].cache /\ x.queue = slave[s].queue
      /\ x.call = slave[s].call /\ x.job = slave[s].job /\ x.got = slave[s].got
      /\ x.left = slave[s].left
  BY <1>4, SetType
<1>6. Records(s, x)
  BY <1>0, <1>4, <1>5, RecordsType
<1> QED
  BY <1>0, <1>1, <1>2, <1>3, <1>4, <1>5, <1>6

\* It is written; then comes the next job, or the reply.
LEMMA WriteTagsEffect ==
  ASSUME TypeInv, NEW s \in Slave, WriteTags(s)
  PROVE  /\ Tables' /\ slave[s].pc \in Filing /\ UNCHANGED <<missed, feeds, fed, index, asked, fedPast, lost>>
         /\ \A i \in Job : stored'[i] \subseteq stored[i] \cup
                              (IF slave[s].job = {i} THEN slave[s].got \cup CallOf(s).attrs ELSE {})
         /\ \A f \in Feed, i \in Job :
              before'[f][i] \subseteq before[f][i] /\ before'[f][i] \subseteq stored'[i]
         /\ \E x \in Process : \/ Records(s, x) /\ x.pc = "open"
                               \/ Defers(s, x, CallOf(s))
<1>0. slave[s].pc \in Filing /\ slave[s].pc \in Recording
  BY DEF WriteTags, At, Recording, Filing
<1> PICK j \in Job : j = JobOf(s) /\ slave[s].job = {j}
  BY <1>0, InCall
<1> PICK w \in Work : w = CallOf(s) /\ WorkOK(w, asked) /\ w.attrs \in SUBSET Attr
  BY <1>0, InCall
<1>00. slave[s].got \in SUBSET Attr
  BY ProcessType
<1> PICK k \in {"absent", "ok", "corrupt"}, T \in SUBSET Attr :
      SetFile(j, k, T) /\ T \subseteq slave[s].got \cup w.attrs
  BY <1>00 DEF WriteTags
<1>1. /\ file' \in [Job -> {"absent", "ok", "corrupt"}] /\ stored' \in [Job -> SUBSET Attr]
      /\ before' \in [Feed -> [Job -> SUBSET Attr]]
      /\ \A i \in Job : stored'[i] \subseteq stored[i] \cup (IF i = j THEN T ELSE {})
      /\ \A f \in Feed, i \in Job : before'[f][i] \subseteq before[f][i] /\ before'[f][i] \subseteq stored'[i]
  BY SetFileEffect
<1>10. \A i \in Job : stored'[i] \subseteq stored[i] \cup
                              (IF slave[s].job = {i} THEN slave[s].got \cup w.attrs ELSE {})
  BY <1>1
<1>2. UNCHANGED <<missed, feeds, fed, index, asked, fedPast, lost, calls>>
  BY DEF WriteTags
<1>3. Tables'
  BY <1>1, <1>2 DEF TypeInv, Tables
<1>4. CASE Defer(s, <<w>>)
  BY <1>0, <1>1, <1>10, <1>2, <1>3, <1>4, DeferWork
<1>5. CASE Becomes(s, [slave[s] EXCEPT !.pc = "open", !.job = {}, !.got = {}])
  <2> PICK p \in Process : p = slave[s]
    BY ProcessType
  <2> PICK x : x = [p EXCEPT !.pc = "open", !.job = {}, !.got = {}]
    OBVIOUS
  <2>1. x \in Process /\ x.pc = "open" /\ x.cache = p.cache /\ x.queue = p.queue /\ x.call = p.call
        /\ x.left = p.left
    BY DEF Process, Recording
  <2>2. Becomes(s, x)
    BY <1>5
  <2>3. x.pc \in Recording /\ x.pc \notin Filing
    BY <2>1 DEF Recording, Filing
  <2>4. Records(s, x)
    BY <1>0, <2>1, <2>2, <2>3, RecordsType
  <2> QED
    BY <1>0, <1>1, <1>10, <1>2, <1>3, <2>1, <2>4
<1> QED
  BY <1>4, <1>5 DEF WriteTags

-----------------------------------------------------------------------------
(* Matching.                                                                *)

\* The work a slave is doing.
LEMMA InWork ==
  ASSUME TypeInv, NEW s \in Slave, slave[s].queue # <<>>
  PROVE  Head(slave[s].queue) \in Work /\ WorkOK(Head(slave[s].queue), asked)
BY ProcessType, HeadOK

LEMMA InMatch ==
  ASSUME TypeInv, NEW s \in Slave, slave[s].pc \in MatchAt
  PROVE  /\ slave[s].queue # <<>> /\ Head(slave[s].queue).kind \in MatchKinds
         /\ Head(slave[s].queue) \in Work /\ WorkOK(Head(slave[s].queue), asked)
         /\ Head(slave[s].queue).jobs \in SUBSET Job /\ Head(slave[s].queue).attrs \in SUBSET Attr
<1>1. slave[s].queue # <<>> /\ Head(slave[s].queue).kind \in MatchKinds
  BY ProcessType DEF Proc, MatchAt, Handling, Reading, Recording
<1> QED
  BY <1>1, InWork, WorkParts

\* The feed and the job in hand.
LEMMA InHand ==
  ASSUME TypeInv, NEW s \in Slave, slave[s].pc \in Handling
  PROVE  FeedOf(s) \in Feed /\ slave[s].feed = {FeedOf(s)} /\ slave[s].queue # <<>>
<1>1. slave[s].queue # <<>> /\ \E f \in Feed : slave[s].feed = {f}
  BY ProcessType DEF Proc, MatchAt, Handling, Reading, Recording
<1> QED
  BY <1>1 DEF FeedOf

LEMMA InRead ==
  ASSUME TypeInv, NEW s \in Slave, slave[s].pc \in Reading
  PROVE  JobOf(s) \in Job /\ slave[s].job = {JobOf(s)} /\ slave[s].pc \in Handling
<1>1. \E j \in Job : slave[s].job = {j}
  BY ProcessType DEF Proc
<1> QED
  BY <1>1 DEF JobOf, Handling

\* The attributes a matching function looks at are some of those it got.
LEMMA NewAttrsType ==
  ASSUME TypeInv, NEW s \in Slave, slave[s].pc \in MatchAt
  PROVE  NewAttrs(slave[s]) \in SUBSET Attr
BY InMatch DEF NewAttrs

LEMMA AskedType ==
  ASSUME NEW f \in Feed, NEW j, NEW A
  PROVE  Asked(f, j, A) \in SUBSET Attr
<1>1. Query[f] \in Seq(Attr)
  BY FeedingAssumption
<1>2. \A i \in DOMAIN Query[f] : Query[f][i] \in Attr
  BY <1>1
<1> QED
  BY <1>2 DEF Asked

\* The slave goes on in the same function.
GoesOn(s, x) ==
  Moves(s, x) /\ x.queue = slave[s].queue /\ x.cache = slave[s].cache /\ Proc(x, asked)

\* It is done with the feed in hand.
Leaves(s, x) == GoesOn(s, x) /\ x.pc = "match" /\ x.todo = slave[s].todo

\* It is done with the function.
Ends(s, x) ==
  /\ Moves(s, x) /\ x.pc \in {"idle", "deferred"} /\ x.queue = Tail(slave[s].queue)
  /\ x.cache = slave[s].cache /\ Proc(x, asked)
  /\ x.pc = "idle" => x.queue = <<>>

LEMMA Leaving ==
  ASSUME TypeInv, NEW s \in Slave, slave[s].pc \in MatchAt, NextFeed(s)
  PROVE  \E x \in Process : Leaves(s, x)
BY InMatch, NextFeedEffect DEF Leaves, GoesOn

LEMMA Ending ==
  ASSUME TypeInv, NEW s \in Slave, slave[s].queue # <<>>, Finished(s)
  PROVE  \E x \in Process : Ends(s, x)
BY FinishedEffect DEF Ends

\* Steps to a label of the matching functions.
Matches(s, x) ==
  /\ x.queue = slave[s].queue /\ x.cache = slave[s].cache
  /\ x.pc \in MatchAt \ {"match"} /\ \E f \in Feed : x.feed = {f}
  /\ x.pc \in {"find", "full"} => \E j \in Job : x.job = {j}
  /\ x.pc \in {"next", "find", "check"} =>
       /\ x.batch = {} /\ x.mark = {}
       /\ x.left \cup x.jobs \subseteq Head(slave[s].queue).jobs
  /\ x.pc = "find" => x.job \subseteq Head(slave[s].queue).jobs

LEMMA GoingOn ==
  ASSUME TypeInv, NEW s \in Slave, slave[s].pc \in MatchAt,
         NEW x \in Process, Becomes(s, x), Matches(s, x)
  PROVE  GoesOn(s, x)
<1>1. Moves(s, x)
  BY Moving
<1>2. QueueOK(x.queue, asked) /\ x.queue # <<>> /\ Head(x.queue).kind \in MatchKinds
  BY ProcessType, InMatch DEF Matches
<1>3. Proc(x, asked)
  BY <1>2 DEF Matches, Proc, MatchAt, Handling, Filing, Recording, Reading
<1> QED
  BY <1>1, <1>3 DEF GoesOn, Matches

LEMMA StartMatchEffect ==
  ASSUME TypeInv, NEW s \in Slave, StartMatch(s)
  PROVE  /\ Still /\ Head(slave[s].queue).kind \in MatchKinds /\ slave[s].pc = "deferred"
         /\ \E x \in Process :
              /\ GoesOn(s, x)
              /\ \/ /\ x.pc = "match"
                    /\ x.todo = {f \in slave[s].cache : Head(slave[s].queue).kind = "file"
                                             \/ Wants[f] \cap Head(slave[s].queue).attrs # {}}
                 \/ x.pc = "idle" /\ Crashes
<1>0. /\ slave[s].pc = "deferred" /\ Head(slave[s].queue).kind \in MatchKinds /\ slave[s].queue # <<>>
      /\ Clean(slave[s]) /\ QueueOK(slave[s].queue, asked)
  BY ProcessType DEF StartMatch, At, MatchKinds, Proc, Recording
<1>00. Still
  BY DEF StartMatch, Still
<1> PICK w : w = Head(slave[s].queue)
  OBVIOUS
<1> PICK t \in SUBSET Feed : t = {f \in slave[s].cache : w.kind = "file" \/ Wants[f] \cap w.attrs # {}}
  BY ProcessType
<1>1. CASE Becomes(s, [Set(s, "match") EXCEPT !.todo = t])
  <2> PICK l : l = "match"
    OBVIOUS
  <2> PICK y \in Process : /\ y = Set(s, l) /\ y.pc = "match" /\ y.queue = slave[s].queue
                           /\ y.cache = slave[s].cache /\ Clean(y)
    BY <1>0, SetType DEF Clean
  <2> PICK x : x = [y EXCEPT !.todo = t]
    OBVIOUS
  <2>2. x \in Process /\ x.pc = "match" /\ x.queue = y.queue /\ x.cache = y.cache /\ x.todo = t /\ Clean(x)
    BY DEF Process, Clean
  <2>3. Becomes(s, x)
    BY <1>1
  <2>4. Moves(s, x)
    BY <2>2, <2>3, Moving
  <2>5. Proc(x, asked)
    BY <1>0, <2>2 DEF Proc, MatchAt, Handling, Filing, Recording, Reading
  <2>6. GoesOn(s, x)
    BY <2>2, <2>4, <2>5 DEF GoesOn
  <2> QED
    BY <1>0, <1>00, <2>2, <2>6
<1>2. CASE Crashes /\ Becomes(s, Set(s, "idle"))
  <2> PICK l : l = "idle"
    OBVIOUS
  <2> PICK x : x = Set(s, l)
    OBVIOUS
  <2>1. x \in Process /\ x.pc = "idle" /\ x.queue = slave[s].queue /\ x.cache = slave[s].cache
    BY SetType
  <2>2. Moves(s, x)
    BY <1>2, <2>1, Moving
  <2>3. Proc(x, asked)
    BY <1>0, <2>1, RestProc
  <2> QED
    BY <1>0, <1>00, <1>2, <2>1, <2>2, <2>3 DEF GoesOn
<1> QED
  BY <1>1, <1>2 DEF StartMatch

\* The slave takes feed f in hand.
Takes(s, x, f) ==
  /\ GoesOn(s, x) /\ x.pc = "next" /\ x.feed = {f} /\ x.todo = slave[s].todo \ {f}
  /\ x.left = Head(slave[s].queue).jobs /\ x.jobs = {}

Take(y, t, g, L) == [y EXCEPT !.todo = t, !.feed = g, !.left = L]

TakeOf(x, y, t, g, L) ==
  /\ x \in Process /\ x.pc = y.pc /\ x.queue = y.queue /\ x.cache = y.cache /\ x.todo = t
  /\ x.feed = g /\ x.left = L /\ x.jobs = y.jobs /\ x.batch = y.batch /\ x.mark = y.mark

LEMMA TakeFields ==
  ASSUME NEW y \in Process, NEW t \in SUBSET Feed, NEW g \in SUBSET Feed, NEW L \in SUBSET Job
  PROVE  TakeOf(Take(y, t, g, L), y, t, g, L)
BY DEF Process, Take, TakeOf

LEMMA MatchFeedEffect ==
  ASSUME TypeInv, NEW s \in Slave, MatchFeed(s)
  PROVE  /\ Still /\ slave[s].pc = "match"
         /\ \E x \in Process :
              \/ slave[s].todo = {} /\ Ends(s, x)
              \/ \E f \in slave[s].todo : Takes(s, x, f)
<1>0. /\ slave[s].pc = "match" /\ slave[s].pc \in MatchAt
      /\ slave[s].todo \in SUBSET Feed /\ Clean(slave[s])
  BY ProcessType DEF MatchFeed, At, Proc, MatchAt
<1>00. Still
  BY DEF MatchFeed, Still
<1>01. slave[s].queue # <<>> /\ Head(slave[s].queue).jobs \in SUBSET Job
  BY <1>0, InMatch
<1>2. CASE slave[s].todo = {} /\ Finished(s)
  BY <1>0, <1>00, <1>01, <1>2, Ending
<1>3. ASSUME NEW f \in slave[s].todo,
             Becomes(s, [Set(s, "next") EXCEPT !.todo = @ \ {f}, !.feed = {f},
                                            !.left = Head(slave[s].queue).jobs])
      PROVE  \E x \in Process : Takes(s, x, f)
  <2> PICK l : l = "next"
    OBVIOUS
  <2> PICK y \in Process : /\ y = Set(s, l) /\ y.pc = "next" /\ y.queue = slave[s].queue
                           /\ y.cache = slave[s].cache /\ y.todo = slave[s].todo
                           /\ y.jobs = {} /\ y.batch = {} /\ y.mark = {}
    BY <1>0, SetType DEF Clean
  <2> PICK t \in SUBSET Feed, g \in SUBSET Feed, L \in SUBSET Job :
         t = slave[s].todo \ {f} /\ g = {f} /\ L = Head(slave[s].queue).jobs
    BY <1>0, <1>01
  <2> PICK x : x = Take(y, t, g, L) /\ TakeOf(x, y, t, g, L)
    BY TakeFields
  <2>2. /\ x \in Process /\ x.pc = y.pc /\ x.queue = y.queue /\ x.cache = y.cache /\ x.todo = t
        /\ x.feed = g /\ x.left = L /\ x.jobs = y.jobs /\ x.batch = y.batch /\ x.mark = y.mark
    BY DEF TakeOf
  <2>3. Becomes(s, x)
    BY <1>3 DEF Take
  <2>4. Matches(s, x)
    BY <1>0, <2>2 DEF Matches, MatchAt, Handling
  <2>5. GoesOn(s, x)
    BY <1>0, <2>2, <2>3, <2>4, GoingOn
  <2> QED
    BY <2>2, <2>5 DEF Takes
<1> QED
  BY <1>0, <1>00, <1>2, <1>3 DEF MatchFeed

\* It takes job j of the call in hand.
Looks(s, x, f, j) ==
  /\ GoesOn(s, x) /\ x.pc = "find" /\ x.feed = slave[s].feed /\ x.todo = slave[s].todo
  /\ x.left = slave[s].left \ {j} /\ x.job = {j} /\ x.jobs = slave[s].jobs
  /\ x.got = Asked(f, j, NewAttrs(slave[s])) \cap {Owner}

Look(y, L, J, K, G) == [y EXCEPT !.left = L, !.job = J, !.ask = K, !.got = G]

LookOf(x, y, L, J, K, G) ==
  /\ x \in Process /\ x.pc = y.pc /\ x.queue = y.queue /\ x.cache = y.cache /\ x.todo = y.todo
  /\ x.feed = y.feed /\ x.left = L /\ x.job = J /\ x.ask = K /\ x.got = G /\ x.jobs = y.jobs
  /\ x.batch = y.batch /\ x.mark = y.mark

LEMMA LookFields ==
  ASSUME NEW y \in Process, NEW L \in SUBSET Job, NEW J \in SUBSET Job, NEW K \in SUBSET Attr,
         NEW G \in SUBSET Attr
  PROVE  LookOf(Look(y, L, J, K, G), y, L, J, K, G)
BY DEF Process, Look, LookOf

LEMMA NextJobEffect ==
  ASSUME TypeInv, NEW s \in Slave, NextJob(s)
  PROVE  /\ Still /\ slave[s].pc = "next"
         /\ \E x \in Process :
              \/ \E j \in slave[s].left : Looks(s, x, FeedOf(s), j)
              \/ slave[s].left = {} /\ slave[s].jobs = {} /\ Leaves(s, x)
              \/ /\ slave[s].left = {} /\ GoesOn(s, x) /\ x.pc = "check"
                 /\ x.feed = slave[s].feed /\ x.todo = slave[s].todo /\ x.jobs = slave[s].jobs
<1>0. /\ slave[s].pc = "next" /\ slave[s].pc \in Handling
      /\ slave[s].pc \in MatchAt
      /\ slave[s].left \in SUBSET Job
      /\ slave[s].left \cup slave[s].jobs \subseteq Head(slave[s].queue).jobs
      /\ slave[s].batch = {} /\ slave[s].mark = {}
  BY ProcessType DEF NextJob, At, Proc, MatchAt, Handling
<1>00. Still
  BY DEF NextJob, Still
<1>01. FeedOf(s) \in Feed /\ slave[s].feed = {FeedOf(s)}
  BY <1>0, InHand
<1> PICK f \in Feed : f = FeedOf(s)
  BY <1>01
<1> PICK A : A = NewAttrs(slave[s])
  OBVIOUS
<1>1. ASSUME NEW j \in slave[s].left,
             Becomes(s, [Set(s, "find") EXCEPT !.left = @ \ {j}, !.job = {j},
                       !.ask = Asked(f, j, A) \ {Owner}, !.got = Asked(f, j, A) \cap {Owner}])
      PROVE  \E x \in Process : Looks(s, x, f, j)
  <2>1. PICK y \in Process :
          /\ y = Set(s, "find") /\ y.pc = "find" /\ y.queue = slave[s].queue
          /\ y.cache = slave[s].cache /\ y.todo = slave[s].todo
          /\ y.feed = slave[s].feed /\ y.left = slave[s].left
          /\ y.jobs = slave[s].jobs /\ y.batch = slave[s].batch /\ y.mark = slave[s].mark
    BY SetType DEF Reading
  <2>2. PICK L \in SUBSET Job, J \in SUBSET Job : L = slave[s].left \ {j} /\ J = {j}
    BY <1>0
  <2>3. PICK K \in SUBSET Attr, G \in SUBSET Attr :
         K = Asked(f, j, A) \ {Owner} /\ G = Asked(f, j, A) \cap {Owner}
    BY AskedType
  <2>4. PICK x : x = Look(y, L, J, K, G) /\ LookOf(x, y, L, J, K, G)
    BY LookFields
  <2>5. /\ x \in Process /\ x.pc = "find" /\ x.queue = slave[s].queue /\ x.cache = slave[s].cache
        /\ x.todo = slave[s].todo /\ x.feed = slave[s].feed /\ x.left = slave[s].left \ {j}
        /\ x.job = {j} /\ x.jobs = slave[s].jobs /\ x.batch = {} /\ x.mark = {} /\ x.got = G
    BY <1>0, <2>1, <2>2, <2>4 DEF LookOf
  <2>6. Becomes(s, x)
    BY <1>1, <2>1, <2>2, <2>3, <2>4 DEF Look
  <2>7. /\ x.job \subseteq Head(slave[s].queue).jobs
        /\ x.left \cup x.jobs \subseteq Head(slave[s].queue).jobs
    BY <1>0, <2>5
  <2>8. (\E h \in Feed : x.feed = {h}) /\ \E i \in Job : x.job = {i}
    BY <1>0, <1>01, <2>5
  <2>9. Matches(s, x)
    BY <2>5, <2>7, <2>8 DEF Matches, MatchAt
  <2>10. GoesOn(s, x)
    BY <1>0, <2>5, <2>6, <2>9, GoingOn
  <2> QED
    BY <2>3, <2>5, <2>10 DEF Looks
<1>2. ASSUME Becomes(s, Set(s, "check"))
      PROVE  \E x \in Process :
               /\ GoesOn(s, x) /\ x.pc = "check"
               /\ x.feed = slave[s].feed /\ x.todo = slave[s].todo /\ x.jobs = slave[s].jobs
  <2> PICK l : l = "check"
    OBVIOUS
  <2> PICK x : x = Set(s, l)
    OBVIOUS
  <2>1. /\ x \in Process /\ x.pc = "check" /\ x.queue = slave[s].queue /\ x.cache = slave[s].cache
        /\ x.todo = slave[s].todo /\ x.feed = slave[s].feed /\ x.left = slave[s].left
        /\ x.jobs = slave[s].jobs /\ x.batch = {} /\ x.mark = {}
    BY <1>0, SetType
  <2>2. Matches(s, x)
    BY <1>0, <1>01, <2>1 DEF Matches, MatchAt, Handling
  <2>3. GoesOn(s, x)
    BY <1>0, <1>2, <2>1, <2>2, GoingOn
  <2> QED
    BY <2>1, <2>3
<1> QED
  BY <1>0, <1>00, <1>1, <1>2, Leaving DEF NextJob

\* Processes with some of their fields changed.
SetOf(x, y, l) ==
  /\ x \in Process /\ x.pc = l /\ x.cache = y.cache /\ x.queue = y.queue /\ x.call = y.call
  /\ x.todo = y.todo /\ x.feed = y.feed /\ x.left = y.left /\ x.job = y.job /\ x.ask = y.ask
  /\ x.got = y.got /\ x.jobs = y.jobs /\ x.batch = y.batch /\ x.mark = y.mark

LEMMA Setting ==
  ASSUME TypeInv, NEW s \in Slave, NEW l, l \in Handling
  PROVE  SetOf(Set(s, l), slave[s], l)
BY SetType DEF SetOf, Handling

\* An attribute is read.
Read(y, K, G) == [y EXCEPT !.ask = K, !.got = G]
ReadOf(x, y, K, G) ==
  /\ x \in Process /\ x.pc = y.pc /\ x.queue = y.queue /\ x.cache = y.cache /\ x.call = y.call
  /\ x.todo = y.todo /\ x.feed = y.feed /\ x.left = y.left /\ x.job = y.job /\ x.ask = K /\ x.got = G
  /\ x.jobs = y.jobs /\ x.batch = y.batch /\ x.mark = y.mark

LEMMA ReadFields ==
  ASSUME NEW y \in Process, NEW K \in SUBSET Attr, NEW G \in SUBSET Attr
  PROVE  ReadOf(Read(y, K, G), y, K, G)
BY DEF Process, Read, ReadOf

LEMMA GetAttrEffect ==
  ASSUME TypeInv, NEW s \in Slave, GetAttr(s)
  PROVE  /\ Tables' /\ slave[s].pc \in Reading
         /\ UNCHANGED <<stored, file, feeds, fed, calls, index, asked, before, fedPast, lost>>
         /\ \E a \in slave[s].ask :
              /\ missed' = IF a \in Held(JobOf(s)) \ stored[JobOf(s)] THEN missed \cup {JobOf(s)} ELSE missed
              /\ \E x \in Process :
                   /\ GoesOn(s, x)
                   /\ ReadOf(x, slave[s], slave[s].ask \ {a},
                             slave[s].got \cup ({a} \cap stored[JobOf(s)]))
<1>0. slave[s].pc \in Reading
  BY DEF GetAttr
<1>1. PICK j \in Job : j = JobOf(s)
  BY <1>0, InRead
<1>2. PICK a \in slave[s].ask :
        /\ Becomes(s, [slave[s] EXCEPT !.ask = @ \ {a}, !.got = @ \cup ({a} \cap stored[JobOf(s)])])
        /\ missed' = IF a \in Held(JobOf(s)) \ stored[JobOf(s)] THEN missed \cup {JobOf(s)} ELSE missed
  BY DEF GetAttr
<1>3. UNCHANGED <<stored, file, feeds, fed, calls, index, asked, before, fedPast, lost>>
  BY DEF GetAttr
<1>4. missed' \subseteq Job
  BY <1>1, <1>2 DEF TypeInv, Tables
<1>5. Tables'
  BY <1>3, <1>4 DEF TypeInv, Tables
<1>6. PICK p \in Process : p = slave[s] /\ Proc(p, asked)
  BY ProcessType
<1>7. slave[s].ask \in SUBSET Attr /\ slave[s].got \in SUBSET Attr /\ stored[j] \in SUBSET Attr
  BY ProcessType DEF TypeInv, Tables
<1>8. PICK K \in SUBSET Attr, G \in SUBSET Attr :
        K = slave[s].ask \ {a} /\ G = slave[s].got \cup ({a} \cap stored[JobOf(s)])
  BY <1>1, <1>7
<1>9. PICK x : x = Read(p, K, G) /\ ReadOf(x, p, K, G)
  BY ReadFields
<1>10. Becomes(s, x)
  BY <1>2, <1>6, <1>8, <1>9 DEF Read
<1>11. x \in Process /\ x.pc = slave[s].pc /\ x.queue = slave[s].queue /\ x.cache = slave[s].cache
  BY <1>6, <1>9 DEF ReadOf
<1>12. Moves(s, x)
  BY <1>10, <1>11, Moving
<1>13. x.pc \notin {"deferred", "match"}
  BY <1>0, <1>11 DEF Reading
<1>14. Proc(x, asked)
  BY <1>6, <1>9, <1>13 DEF Proc, ReadOf
<1>15. GoesOn(s, x)
  BY <1>11, <1>12, <1>14 DEF GoesOn
<1>16. ReadOf(x, slave[s], slave[s].ask \ {a}, slave[s].got \cup ({a} \cap stored[JobOf(s)]))
  BY <1>6, <1>8, <1>9
<1> QED
  BY <1>0, <1>2, <1>3, <1>5, <1>11, <1>15, <1>16

\* is_feed_matching has returned.
Found(y, J, G, S) == [y EXCEPT !.job = J, !.got = G, !.jobs = S]
FoundOf(x, y, J, G, S) ==
  /\ x \in Process /\ x.pc = y.pc /\ x.queue = y.queue /\ x.cache = y.cache
  /\ x.todo = y.todo /\ x.feed = y.feed /\ x.left = y.left /\ x.job = J /\ x.got = G
  /\ x.jobs = S /\ x.batch = y.batch /\ x.mark = y.mark

LEMMA FoundFields ==
  ASSUME NEW y \in Process, NEW J \in SUBSET Job, NEW G \in SUBSET Attr, NEW S \in SUBSET Job
  PROVE  FoundOf(Found(y, J, G, S), y, J, G, S)
BY DEF Process, Found, FoundOf

\* The verdict is v; afterwards the process is x.
Judges(s, x, v) ==
  /\ GoesOn(s, x) /\ x.pc = "next" /\ x.feed = slave[s].feed /\ x.todo = slave[s].todo
  /\ x.left = slave[s].left
  /\ x.jobs = IF v = "match" THEN slave[s].jobs \cup {JobOf(s)} ELSE slave[s].jobs

LEMMA FeedMatchesEffect ==
  ASSUME TypeInv, NEW s \in Slave, FeedMatches(s)
  PROVE  /\ Still /\ slave[s].pc = "find" /\ slave[s].ask = {}
         /\ \E v \in Matching(FeedOf(s), JobOf(s), NewAttrs(slave[s]), slave[s].got) :
            \E x \in Process :
              \/ v # "crash" /\ Judges(s, x, v)
              \/ v = "crash" /\ Moves(s, x) /\ x.pc = "dead" /\ Proc(x, asked)
<1>0. /\ slave[s].pc = "find" /\ slave[s].pc \in Reading /\ slave[s].pc \in MatchAt
      /\ slave[s].ask = {}
  BY DEF FeedMatches, At, Reading, MatchAt
<1>00. Still
  BY DEF FeedMatches, Still
<1>1. PICK j \in Job : j = JobOf(s) /\ slave[s].job = {j}
  BY <1>0, InRead
<1>2. \E f \in Feed : slave[s].feed = {f}
  BY <1>0, InRead, InHand
<1>3. /\ slave[s].jobs \in SUBSET Job /\ slave[s].batch = {} /\ slave[s].mark = {}
      /\ slave[s].left \cup slave[s].jobs \subseteq Head(slave[s].queue).jobs
      /\ slave[s].job \subseteq Head(slave[s].queue).jobs
  BY <1>0, ProcessType DEF Proc
<1>4. ASSUME NEW v \in Matching(FeedOf(s), JobOf(s), NewAttrs(slave[s]), slave[s].got) \ {"crash"},
             Becomes(s, [Set(s, "next") EXCEPT !.job = {}, !.got = {},
                            !.jobs = IF v = "match" THEN @ \cup {JobOf(s)} ELSE @])
      PROVE  \E x \in Process : Judges(s, x, v)
  <2>1. PICK y \in Process : y = Set(s, "next") /\ SetOf(y, slave[s], "next")
    BY Setting DEF SetOf, Handling
  <2>2. PICK J \in SUBSET Job, G \in SUBSET Attr, S \in SUBSET Job :
          J = {} /\ G = {} /\ S = IF v = "match" THEN slave[s].jobs \cup {JobOf(s)} ELSE slave[s].jobs
    BY <1>1, <1>3
  <2>3. PICK x : x = Found(y, J, G, S) /\ FoundOf(x, y, J, G, S)
    BY FoundFields
  <2>4. Becomes(s, x)
    BY <1>4, <2>1, <2>2, <2>3 DEF Found, SetOf
  <2>5. /\ x \in Process /\ x.pc = "next" /\ x.queue = slave[s].queue /\ x.cache = slave[s].cache
        /\ x.todo = slave[s].todo /\ x.feed = slave[s].feed /\ x.left = slave[s].left
        /\ x.jobs = S /\ x.batch = {} /\ x.mark = {}
    BY <1>3, <2>1, <2>3 DEF FoundOf, SetOf
  <2>6. S \subseteq Head(slave[s].queue).jobs
    BY <1>1, <1>3, <2>2
  <2>7. x.left \cup x.jobs \subseteq Head(slave[s].queue).jobs
    BY <1>3, <2>5, <2>6
  <2>8. Matches(s, x)
    BY <1>2, <2>5, <2>7 DEF Matches, MatchAt
  <2>9. GoesOn(s, x)
    BY <1>0, <2>4, <2>5, <2>8, GoingOn
  <2> QED
    BY <2>2, <2>5, <2>9 DEF Judges
<1>5. ASSUME Dead(s) PROVE \E x \in Process : Moves(s, x) /\ x.pc = "dead" /\ Proc(x, asked)
  BY <1>5, DeadEffect
<1> QED
  BY <1>0, <1>00, <1>4, <1>5 DEF FeedMatches

\* Records are to be sent, or have been.
Sends(y, b) == [y EXCEPT !.batch = b]
SendsOf(x, y, b) ==
  /\ x \in Process /\ x.pc = y.pc /\ x.queue = y.queue /\ x.cache = y.cache /\ x.todo = y.todo
  /\ x.feed = y.feed /\ x.left = y.left /\ x.job = y.job /\ x.jobs = y.jobs /\ x.batch = b
  /\ x.mark = y.mark

LEMMA SendsFields ==
  ASSUME NEW y \in Process, NEW b \in SUBSET (Job \X SUBSET Attr)
  PROVE  SendsOf(Sends(y, b), y, b)
BY DEF Process, Sends, SendsOf

\* full_feed begins.
Fill(y, J, M, K, G) == [y EXCEPT !.job = J, !.mark = M, !.ask = K, !.got = G]
FillOf(x, y, J, M, K, G) ==
  /\ x \in Process /\ x.pc = y.pc /\ x.queue = y.queue /\ x.cache = y.cache /\ x.todo = y.todo
  /\ x.feed = y.feed /\ x.job = J /\ x.mark = M /\ x.ask = K /\ x.got = G

LEMMA FillFields ==
  ASSUME NEW y \in Process, NEW J \in SUBSET Job, NEW M \in SUBSET Job, NEW K \in SUBSET Attr,
         NEW G \in SUBSET Attr
  PROVE  FillOf(Fill(y, J, M, K, G), y, J, M, K, G)
BY DEF Process, Fill, FillOf

\* What the slave does next with the jobs that match.
SendsNew(s, x) ==
  /\ GoesOn(s, x) /\ x.pc = "send" /\ x.feed = slave[s].feed /\ x.todo = slave[s].todo
  /\ x.batch = {<<j, NewAttrs(slave[s])>> : j \in slave[s].jobs} /\ x.mark = {}

FillsIn(s, x, j) ==
  /\ GoesOn(s, x) /\ x.pc = "full" /\ x.feed = slave[s].feed /\ x.todo = slave[s].todo
  /\ slave[s].jobs = {j} /\ x.job = {j} /\ x.mark = {j}
  /\ x.ask = Wants[FeedOf(s)] \ {Owner} /\ x.got = {Owner}

LEMMA CheckFedEffect ==
  ASSUME TypeInv, NEW s \in Slave, CheckFed(s)
  PROVE  /\ Still /\ slave[s].pc = "check"
         /\ \E x \in Process :
              \/ /\ SendsNew(s, x)
                 /\ \A j \in slave[s].jobs : Head(slave[s].queue).kind = "multi" \/ <<FeedOf(s), j>> \in fed
              \/ \E j \in Job : FillsIn(s, x, j)
<1>0. /\ slave[s].pc = "check" /\ slave[s].pc \in Handling /\ slave[s].pc \in MatchAt
  BY DEF CheckFed, At, MatchAt, Handling
<1>00. Still
  BY DEF CheckFed, Still
<1>1. PICK f \in Feed : f = FeedOf(s) /\ slave[s].feed = {f}
  BY <1>0, InHand
<1>2. /\ slave[s].jobs \in SUBSET Job /\ slave[s].mark = {}
      /\ slave[s].jobs \subseteq Head(slave[s].queue).jobs
  BY <1>0, ProcessType DEF Proc
<1>3. /\ Head(slave[s].queue).kind \in MatchKinds
      /\ Head(slave[s].queue).kind # "multi" => \E j \in Job : Head(slave[s].queue).jobs = {j}
  BY <1>0, InMatch DEF WorkOK, MatchKinds
<1>4. PICK A \in SUBSET Attr : A = NewAttrs(slave[s])
  BY <1>0, NewAttrsType
<1>5. PICK new \in SUBSET Job :
        new = {j \in slave[s].jobs : Head(slave[s].queue).kind # "multi" /\ <<f, j>> \notin fed}
  BY <1>2
<1>6. CASE new = {}
  <2>1. PICK y \in Process : y = Set(s, "send") /\ SetOf(y, slave[s], "send")
    BY Setting DEF SetOf, Handling
  <2>20. {<<j, A>> : j \in slave[s].jobs} \subseteq Job \X SUBSET Attr
    BY <1>2
  <2>2. PICK b \in SUBSET (Job \X SUBSET Attr) : b = {<<j, A>> : j \in slave[s].jobs}
    BY <2>20
  <2>3. PICK x : x = Sends(y, b) /\ SendsOf(x, y, b)
    BY SendsFields
  <2>4. Becomes(s, x)
    BY <1>1, <1>4, <1>5, <1>6, <2>1, <2>2, <2>3 DEF Sends, CheckFed
  <2>5. /\ x \in Process /\ x.pc = "send" /\ x.queue = slave[s].queue /\ x.cache = slave[s].cache
        /\ x.todo = slave[s].todo /\ x.feed = slave[s].feed /\ x.batch = b /\ x.mark = {}
    BY <1>2, <2>1, <2>3 DEF SendsOf, SetOf
  <2>6. Matches(s, x)
    BY <1>1, <2>5 DEF Matches, MatchAt
  <2>7. GoesOn(s, x)
    BY <1>0, <2>4, <2>5, <2>6, GoingOn
  <2>8. SendsNew(s, x)
    BY <1>4, <2>2, <2>5, <2>7 DEF SendsNew
  <2>9. \A j \in slave[s].jobs : Head(slave[s].queue).kind = "multi" \/ <<FeedOf(s), j>> \in fed
    BY <1>1, <1>5, <1>6
  <2> QED
    BY <1>0, <1>00, <2>5, <2>8, <2>9
<1>7. CASE new # {}
  <2>1. PICK j \in Job : new = {j} /\ slave[s].jobs = {j}
    BY <1>2, <1>3, <1>5, <1>7
  <2>2. PICK y \in Process : y = Set(s, "full") /\ SetOf(y, slave[s], "full")
    BY Setting DEF SetOf, Handling, Reading
  <2>3. PICK K \in SUBSET Attr, G \in SUBSET Attr : K = Wants[f] \ {Owner} /\ G = {Owner}
    BY FeedingAssumption
  <2>4. PICK x : x = Fill(y, new, new, K, G) /\ FillOf(x, y, new, new, K, G)
    BY FillFields
  <2>5. Becomes(s, x)
    BY <1>1, <1>5, <1>7, <2>2, <2>3, <2>4 DEF Fill, CheckFed
  <2>6. /\ x \in Process /\ x.pc = "full" /\ x.queue = slave[s].queue /\ x.cache = slave[s].cache
        /\ x.todo = slave[s].todo /\ x.feed = slave[s].feed /\ x.job = {j} /\ x.mark = {j}
        /\ x.ask = K /\ x.got = G
    BY <2>1, <2>2, <2>4 DEF FillOf, SetOf
  <2>7. Matches(s, x)
    BY <1>1, <2>6 DEF Matches, MatchAt
  <2>8. GoesOn(s, x)
    BY <1>0, <2>5, <2>6, <2>7, GoingOn
  <2>9. FillsIn(s, x, j)
    BY <1>1, <2>1, <2>3, <2>6, <2>8 DEF FillsIn
  <2> QED
    BY <1>0, <1>00, <2>6, <2>9
<1> QED
  BY <1>6, <1>7

\* The job in hand is done with, and perhaps in the batch.
Stack(y, J, G, b) == [y EXCEPT !.job = J, !.got = G, !.batch = b]
StackOf(x, y, J, G, b) ==
  /\ x \in Process /\ x.pc = y.pc /\ x.queue = y.queue /\ x.cache = y.cache /\ x.todo = y.todo
  /\ x.feed = y.feed /\ x.left = y.left /\ x.job = J /\ x.got = G /\ x.batch = b /\ x.mark = y.mark

LEMMA StackFields ==
  ASSUME NEW y \in Process, NEW J \in SUBSET Job, NEW G \in SUBSET Attr,
         NEW b \in SUBSET (Job \X SUBSET Attr)
  PROVE  StackOf(Stack(y, J, G, b), y, J, G, b)
BY DEF Process, Stack, StackOf

Filled(s, x) ==
  /\ GoesOn(s, x) /\ x.pc = "send" /\ x.feed = slave[s].feed /\ x.todo = slave[s].todo
  /\ x.batch = {<<JobOf(s), slave[s].got>>} /\ x.mark = slave[s].mark

LEMMA FullFeedEffect ==
  ASSUME TypeInv, NEW s \in Slave, FullFeed(s)
  PROVE  /\ Still /\ slave[s].pc = "full" /\ slave[s].ask = {}
         /\ \E x \in Process : Filled(s, x)
<1>0. /\ slave[s].pc = "full" /\ slave[s].pc \in Reading /\ slave[s].pc \in MatchAt
      /\ slave[s].ask = {}
  BY DEF FullFeed, At, MatchAt, Reading
<1>00. Still
  BY DEF FullFeed, Still
<1>1. \E f \in Feed : slave[s].feed = {f}
  BY <1>0, InRead, InHand
<1>2. JobOf(s) \in Job /\ slave[s].got \in SUBSET Attr
  BY <1>0, InRead, ProcessType
<1>3. PICK y \in Process : y = Set(s, "send") /\ SetOf(y, slave[s], "send")
  BY Setting DEF SetOf, Handling
<1>40. {<<JobOf(s), slave[s].got>>} \subseteq Job \X SUBSET Attr
  BY <1>2
<1>4. PICK J \in SUBSET Job, G \in SUBSET Attr, b \in SUBSET (Job \X SUBSET Attr) :
        J = {} /\ G = {} /\ b = {<<JobOf(s), slave[s].got>>}
  BY <1>40
<1>5. PICK x : x = Stack(y, J, G, b) /\ StackOf(x, y, J, G, b)
  BY StackFields
<1>6. Becomes(s, x)
  BY <1>3, <1>4, <1>5 DEF Stack, FullFeed
<1>7. /\ x \in Process /\ x.pc = "send" /\ x.queue = slave[s].queue /\ x.cache = slave[s].cache
      /\ x.todo = slave[s].todo /\ x.feed = slave[s].feed /\ x.batch = b /\ x.mark = slave[s].mark
  BY <1>3, <1>5 DEF StackOf, SetOf
<1>8. Matches(s, x)
  BY <1>1, <1>7 DEF Matches, MatchAt
<1>9. GoesOn(s, x)
  BY <1>0, <1>6, <1>7, <1>8, GoingOn
<1> QED
  BY <1>0, <1>00, <1>4, <1>7, <1>9 DEF Filled

\* UpdateJobs of the index server.
LEMMA DeliveredEffect ==
  ASSUME TypeInv, NEW f \in Feed, NEW b \in SUBSET (Job \X SUBSET Attr), Delivered(f, b)
  PROVE  /\ index' \in [Feed -> [Job -> SUBSET Attr]] /\ lost' = lost
         /\ \A g \in Feed, j \in Job : index[g][j] \subseteq index'[g][j]
         /\ \A g \in Feed \ {f} : index'[g] = index[g]
         /\ \A r \in b : Owner \in index'[f][r[1]] /\ r[2] \subseteq index'[f][r[1]]
         /\ \A j \in Job : index'[f][j] # index[f][j] => \E r \in b : r[1] = j
<1> DEFINE New(j) == UNION {{Owner} \cup r[2] : r \in {x \in b : x[1] = j}}
<1>1. index \in [Feed -> [Job -> SUBSET Attr]]
  BY DEF TypeInv, Tables
<1>2. \A j \in Job : New(j) \in SUBSET Attr
  BY FeedingAssumption
<1> PICK h : h = [j \in Job |-> index[f][j] \cup New(j)]
  OBVIOUS
<1>3. index' = [index EXCEPT ![f] = h] /\ lost' = lost
  BY DEF Delivered
<1>5. \A j \in Job : h[j] = index[f][j] \cup New(j)
  OBVIOUS
<1>6. \A r \in b : r[1] \in Job /\ Owner \in New(r[1]) /\ r[2] \subseteq New(r[1])
  OBVIOUS
<1>7. \A j \in Job : New(j) # {} => \E r \in b : r[1] = j
  OBVIOUS
<1> HIDE DEF New
<1>70. h \in [Job -> SUBSET Attr]
  BY <1>1, <1>2
<1>4. /\ index' \in [Feed -> [Job -> SUBSET Attr]] /\ index'[f] = h
      /\ \A g \in Feed \ {f} : index'[g] = index[g]
  BY <1>1, <1>3, <1>70
<1>8. \A g \in Feed, j \in Job : index[g][j] \subseteq index'[g][j]
  BY <1>4, <1>5
<1>9. \A r \in b : Owner \in index'[f][r[1]] /\ r[2] \subseteq index'[f][r[1]]
  BY <1>4, <1>5, <1>6
<1>10. \A j \in Job : index'[f][j] # index[f][j] => \E r \in b : r[1] = j
  BY <1>4, <1>5, <1>7
<1> QED
  BY <1>3, <1>4, <1>8, <1>9, <1>10

LEMMA FaultedEffect ==
  ASSUME TypeInv, NEW f \in Feed, NEW b \in SUBSET (Job \X SUBSET Attr), Faulted(f, b)
  PROVE  /\ index' = index /\ lost \subseteq lost' /\ lost' \subseteq Feed \X Job /\ Faults
         /\ \A r \in b : <<f, r[1]>> \in lost'
BY DEF Faulted, TypeInv, Tables

\* The jobs are to be marked now.
ToMark(s, x) ==
  /\ GoesOn(s, x) /\ x.pc = "mark" /\ x.feed = slave[s].feed /\ x.todo = slave[s].todo
  /\ x.batch = {} /\ x.mark = slave[s].mark

LEMMA SendEffect ==
  ASSUME TypeInv, NEW s \in Slave, Send(s)
  PROVE  /\ Tables' /\ slave[s].pc = "send"
         /\ UNCHANGED <<stored, file, feeds, fed, calls, asked, before, fedPast, missed>>
         /\ \E x \in Process :
              \/ Delivered(FeedOf(s), slave[s].batch) /\ slave[s].mark = {} /\ Leaves(s, x)
              \/ Delivered(FeedOf(s), slave[s].batch) /\ ToMark(s, x)
              \/ Faulted(FeedOf(s), slave[s].batch) /\ Leaves(s, x)
<1>0. slave[s].pc = "send" /\ slave[s].pc \in Handling /\ slave[s].pc \in MatchAt
  BY DEF Send, At, MatchAt, Handling
<1>00. UNCHANGED <<stored, file, feeds, fed, calls, asked, before, fedPast, missed>>
  BY DEF Send
<1>1. PICK f \in Feed : f = FeedOf(s) /\ slave[s].feed = {f}
  BY <1>0, InHand
<1>2. slave[s].batch \in SUBSET (Job \X SUBSET Attr)
  BY ProcessType
<1>3. Delivered(FeedOf(s), slave[s].batch) \/ Faulted(FeedOf(s), slave[s].batch)
  BY DEF Send
<1>4. index' \in [Feed -> [Job -> SUBSET Attr]] /\ lost' \subseteq Feed \X Job
  <2>1. CASE Delivered(FeedOf(s), slave[s].batch)
    BY <1>1, <1>2, <2>1, DeliveredEffect DEF TypeInv, Tables
  <2>2. CASE Faulted(FeedOf(s), slave[s].batch)
    BY <1>1, <1>2, <2>2, FaultedEffect DEF TypeInv, Tables
  <2> QED
    BY <1>3, <2>1, <2>2
<1>5. Tables'
  BY <1>00, <1>4 DEF TypeInv, Tables
<1>6. ASSUME Becomes(s, [Set(s, "mark") EXCEPT !.batch = {}]) PROVE \E x \in Process : ToMark(s, x)
  <2>1. PICK y \in Process : y = Set(s, "mark") /\ SetOf(y, slave[s], "mark")
    BY Setting DEF SetOf, Handling
  <2>2. PICK b \in SUBSET (Job \X SUBSET Attr) : b = {}
    OBVIOUS
  <2>3. PICK x : x = Sends(y, b) /\ SendsOf(x, y, b)
    BY SendsFields
  <2>4. Becomes(s, x)
    BY <1>6, <2>1, <2>2, <2>3 DEF Sends
  <2>5. /\ x \in Process /\ x.pc = "mark" /\ x.queue = slave[s].queue /\ x.cache = slave[s].cache
        /\ x.todo = slave[s].todo /\ x.feed = slave[s].feed /\ x.batch = {} /\ x.mark = slave[s].mark
    BY <2>1, <2>2, <2>3 DEF SendsOf, SetOf
  <2>6. Matches(s, x)
    BY <1>1, <2>5 DEF Matches, MatchAt
  <2>7. GoesOn(s, x)
    BY <1>0, <2>4, <2>5, <2>6, GoingOn
  <2> QED
    BY <2>5, <2>7 DEF ToMark
<1>7. ASSUME NextFeed(s) PROVE \E x \in Process : Leaves(s, x)
  BY <1>0, <1>7, Leaving
<1> QED
  BY <1>0, <1>00, <1>5, <1>6, <1>7 DEF Send

LEMMA SetFedEffect ==
  ASSUME TypeInv, NEW s \in Slave, SetFed(s)
  PROVE  /\ Tables' /\ slave[s].pc = "mark" /\ fed' = fed \cup ({FeedOf(s)} \X slave[s].mark)
         /\ UNCHANGED <<stored, file, feeds, calls, index, asked, before, fedPast, lost, missed>>
         /\ \E x \in Process : Leaves(s, x)
<1>0. slave[s].pc = "mark" /\ slave[s].pc \in Handling /\ slave[s].pc \in MatchAt
  BY DEF SetFed, At, MatchAt, Handling
<1>00. /\ UNCHANGED <<stored, file, feeds, calls, index, asked, before, fedPast, lost, missed>>
       /\ fed' = fed \cup ({FeedOf(s)} \X slave[s].mark) /\ NextFeed(s)
  BY DEF SetFed
<1>1. FeedOf(s) \in Feed /\ slave[s].mark \in SUBSET Job
  BY <1>0, InHand, ProcessType
<1>2. Tables'
  BY <1>00, <1>1 DEF TypeInv, Tables
<1> QED
  BY <1>0, <1>00, <1>2, Leaving

-----------------------------------------------------------------------------
(* Past jobs and registration.                                              *)

\* Steps to a label of the feed of past jobs.
Queries(s, x) ==
  /\ x.queue = slave[s].queue /\ x.cache = slave[s].cache /\ x.pc \in {"run", "past"}
  /\ \E f \in Feed : x.feed = {f} /\ f \in asked
  /\ x.pc = "past" => \E j \in Job : x.job = {j}

LEMMA Querying ==
  ASSUME TypeInv, NEW s \in Slave, slave[s].queue # <<>>, NEW x \in Process, Becomes(s, x), Queries(s, x)
  PROVE  GoesOn(s, x)
<1>1. Moves(s, x)
  BY Moving
<1>2. QueueOK(x.queue, asked) /\ x.queue # <<>>
  BY ProcessType DEF Queries
<1>3. Proc(x, asked)
  BY <1>2 DEF Queries, Proc, MatchAt, Handling, Filing, Recording, Reading
<1> QED
  BY <1>1, <1>3 DEF GoesOn, Queries

\* The query begins.
Begin(y, g, L) == [y EXCEPT !.feed = g, !.left = L]
BeginOf(x, y, g, L) ==
  /\ x \in Process /\ x.pc = y.pc /\ x.queue = y.queue /\ x.cache = y.cache
  /\ x.feed = g /\ x.left = L /\ x.batch = y.batch

LEMMA BeginFields ==
  ASSUME NEW y \in Process, NEW g \in SUBSET Feed, NEW L \in SUBSET Job
  PROVE  BeginOf(Begin(y, g, L), y, g, L)
BY DEF Process, Begin, BeginOf

Starts(s, x) ==
  /\ GoesOn(s, x) /\ x.pc = "run" /\ x.feed = {Head(slave[s].queue).feed} /\ x.batch = {}
  /\ x.left = {j \in Job : Selected(Head(slave[s].queue).feed, j)}

\* It fails.
Breaks(s, x) ==
  /\ Moves(s, x) /\ x.pc = "idle" /\ x.cache = slave[s].cache /\ Proc(x, asked)
  /\ Crashes \/ \A i \in DOMAIN Query[Head(slave[s].queue).feed] :
                  Query[Head(slave[s].queue).feed][i] # Owner

LEMMA RunQueryEffect ==
  ASSUME TypeInv, NEW s \in Slave, RunQuery(s)
  PROVE  /\ Still /\ slave[s].pc = "deferred" /\ slave[s].queue # <<>>
         /\ Head(slave[s].queue).kind = "run" /\ Head(slave[s].queue).feed \in asked
         /\ \E x \in Process : Starts(s, x) \/ Breaks(s, x)
<1>0. /\ slave[s].pc = "deferred" /\ slave[s].queue # <<>> /\ Clean(slave[s])
      /\ Head(slave[s].queue).kind = "run"
  BY ProcessType DEF RunQuery, At, Proc, Recording
<1>00. Still
  BY DEF RunQuery, Still
<1>1. PICK w \in Work : w = Head(slave[s].queue) /\ WorkOK(w, asked)
  BY <1>0, InWork
<1>2. w.kind = "run" /\ w.feed \in Feed /\ w.feed \in asked
  BY <1>0, <1>1, WorkParts DEF WorkOK
<1>3. ASSUME Becomes(s, [Set(s, "run") EXCEPT
                        !.feed = {w.feed}, !.left = {j \in Job : Selected(w.feed, j)}])
      PROVE  \E x \in Process : Starts(s, x)
  <2>1. PICK y \in Process : y = Set(s, "run") /\ SetOf(y, slave[s], "run")
    BY Setting DEF SetOf, Handling
  <2>2. PICK g \in SUBSET Feed, L \in SUBSET Job : g = {w.feed} /\ L = {j \in Job : Selected(w.feed, j)}
    BY <1>2
  <2>3. PICK x : x = Begin(y, g, L) /\ BeginOf(x, y, g, L)
    BY BeginFields
  <2>4. Becomes(s, x)
    BY <1>3, <2>1, <2>2, <2>3 DEF Begin
  <2>5. /\ x \in Process /\ x.pc = "run" /\ x.queue = slave[s].queue /\ x.cache = slave[s].cache
        /\ x.feed = g /\ x.left = L /\ x.batch = {}
    BY <1>0, <2>1, <2>3 DEF BeginOf, SetOf, Clean
  <2>6. Queries(s, x)
    BY <1>2, <2>2, <2>5 DEF Queries
  <2>7. GoesOn(s, x)
    BY <1>0, <2>4, <2>5, <2>6, Querying
  <2> QED
    BY <1>1, <2>2, <2>5, <2>7 DEF Starts
<1>4. ASSUME Crashes \/ \A i \in DOMAIN Query[w.feed] : Query[w.feed][i] # Owner,
             Becomes(s, [Idle(slave[s].cache) EXCEPT
                        !.queue = <<[kind |-> "freed"]>> \o Tail(slave[s].queue)])
      PROVE  \E x \in Process : Breaks(s, x)
  <2>1. PICK v \in Work : v = [kind |-> "freed"] /\ WorkOK(v, asked)
    <3>1. PICK v : v = [kind |-> "freed"]
      OBVIOUS
    <3>2. v \in [kind: {"freed"}] /\ v.kind = "freed"
      BY <3>1
    <3>3. v \in Work
      BY <3>2 DEF Work
    <3>4. WorkOK(v, asked)
      BY <3>2 DEF WorkOK
    <3> QED
      BY <3>1, <3>3, <3>4
  <2>2. PICK r \in Seq(Work) : r = <<v>> /\ QueueOK(r, asked)
    BY <2>1, OneWork
  <2>3. PICK t \in Seq(Work) : t = Tail(slave[s].queue) /\ QueueOK(t, asked)
    BY <1>0, ProcessType, TailOK
  <2>4. PICK q \in Seq(Work) : q = r \o t /\ QueueOK(q, asked)
    BY <2>2, <2>3, ConcatOK
  <2>5. PICK c \in SUBSET Feed : c = slave[s].cache
    BY ProcessType
  <2>6. PICK x : x = Resting(c, "idle", q) /\ AtRest(x, c, "idle", q)
    BY RestType
  <2>7. x = [Idle(c) EXCEPT !.queue = q]
    <3>1. PICK i \in Process : i = Idle(c) /\ i.pc = "idle"
      BY IdleType
    <3>2. x = [i EXCEPT !.pc = "idle", !.queue = q]
      BY <2>6, <3>1 DEF Resting
    <3>3. [i EXCEPT !.pc = "idle", !.queue = q] = [i EXCEPT !.queue = q]
      BY <3>1 DEF Process
    <3> QED
      BY <3>1, <3>2, <3>3
  <2>8. Becomes(s, x)
    BY <1>4, <2>1, <2>2, <2>3, <2>4, <2>5, <2>7
  <2>9. x \in Process /\ x.pc = "idle" /\ x.queue = q /\ x.cache = slave[s].cache
    BY <2>5, <2>6 DEF AtRest
  <2>10. Moves(s, x)
    BY <2>8, <2>9, Moving
  <2>11. Proc(x, asked)
    BY <2>4, <2>9, RestProc
  <2> QED
    BY <1>1, <1>4, <2>9, <2>10, <2>11 DEF Breaks
<1> QED
  BY <1>0, <1>00, <1>1, <1>2, <1>3, <1>4 DEF RunQuery

\* A slave that feeds past jobs.
LEMMA InPast ==
  ASSUME TypeInv, NEW s \in Slave, slave[s].pc \in {"run", "past"}
  PROVE  /\ FeedOf(s) \in Feed /\ slave[s].feed = {FeedOf(s)} /\ FeedOf(s) \in asked
         /\ slave[s].queue # <<>> /\ slave[s].left \in SUBSET Job
         /\ slave[s].batch \in SUBSET (Job \X SUBSET Attr)
<1>1. slave[s].pc \in Handling
  BY DEF Handling, Reading
<1>2. slave[s].feed \subseteq asked
  BY ProcessType DEF Proc
<1> QED
  BY <1>1, <1>2, InHand, ProcessType

Pick(y, L, J, K) == [y EXCEPT !.left = L, !.job = J, !.ask = K]
PickOf(x, y, L, J, K) ==
  /\ x \in Process /\ x.pc = y.pc /\ x.queue = y.queue /\ x.cache = y.cache /\ x.feed = y.feed
  /\ x.left = L /\ x.job = J /\ x.ask = K /\ x.batch = y.batch

LEMMA PickFields ==
  ASSUME NEW y \in Process, NEW L \in SUBSET Job, NEW J \in SUBSET Job, NEW K \in SUBSET Attr
  PROVE  PickOf(Pick(y, L, J, K), y, L, J, K)
BY DEF Process, Pick, PickOf

\* What a feed and its query ask for.
Items(f) == Wants[f] \cup {Query[f][i] : i \in DOMAIN Query[f]}

LEMMA ItemsType ==
  ASSUME NEW f \in Feed
  PROVE  Items(f) \in SUBSET Attr
<1>1. Query[f] \in Seq(Attr) /\ Wants[f] \in SUBSET Attr
  BY FeedingAssumption
<1>2. \A i \in DOMAIN Query[f] : Query[f][i] \in Attr
  BY <1>1
<1> QED
  BY <1>1, <1>2 DEF Items

\* The slave takes past job j in hand.
Picks(s, x, j) ==
  /\ GoesOn(s, x) /\ x.pc = "past" /\ x.feed = slave[s].feed /\ x.left = slave[s].left \ {j}
  /\ x.job = {j} /\ x.ask = Items(FeedOf(s)) \ {Owner} /\ x.batch = slave[s].batch

LEMMA QueryCallbackEffect ==
  ASSUME TypeInv, NEW s \in Slave, NEW j \in Job, QueryCallback(s, j)
  PROVE  /\ Still /\ slave[s].pc = "run" /\ j \in slave[s].left
         /\ \E x \in Process : Picks(s, x, j)
<1>0. slave[s].pc = "run" /\ j \in slave[s].left
  BY DEF QueryCallback, At
<1>00. Still
  BY DEF QueryCallback, Still
<1>1. /\ FeedOf(s) \in Feed /\ slave[s].feed = {FeedOf(s)} /\ FeedOf(s) \in asked
      /\ slave[s].queue # <<>> /\ slave[s].left \in SUBSET Job
  BY <1>0, InPast
<1>2. PICK y \in Process : y = Set(s, "past") /\ SetOf(y, slave[s], "past")
  BY Setting DEF SetOf, Handling, Reading
<1>3. PICK L \in SUBSET Job, J \in SUBSET Job, K \in SUBSET Attr :
        L = slave[s].left \ {j} /\ J = {j} /\ K = Items(FeedOf(s)) \ {Owner}
  BY <1>1, ItemsType
<1>4. PICK x : x = Pick(y, L, J, K) /\ PickOf(x, y, L, J, K)
  BY PickFields
<1>5. Becomes(s, x)
  BY <1>2, <1>3, <1>4 DEF Pick, QueryCallback, SetOf, Items
<1>6. /\ x \in Process /\ x.pc = "past" /\ x.queue = slave[s].queue /\ x.cache = slave[s].cache
      /\ x.feed = slave[s].feed /\ x.left = L /\ x.job = {j} /\ x.ask = K /\ x.batch = slave[s].batch
  BY <1>2, <1>3, <1>4 DEF PickOf, SetOf
<1>7. Queries(s, x)
  BY <1>1, <1>6 DEF Queries
<1>8. GoesOn(s, x)
  BY <1>1, <1>5, <1>6, <1>7, Querying
<1> QED
  BY <1>0, <1>00, <1>3, <1>6, <1>8 DEF Picks

\* The job in hand fits as far as the slave can see.
Fine(s) ==
  \A i \in DOMAIN Query[FeedOf(s)] : Query[FeedOf(s)][i] # Owner =>
    Query[FeedOf(s)][i] \in slave[s].got /\ Fitting(FeedOf(s), JobOf(s), Query[FeedOf(s)][i])

Stacks(s, x) ==
  /\ GoesOn(s, x) /\ x.pc = "run" /\ x.feed = slave[s].feed /\ x.left = slave[s].left
  /\ x.batch = IF Fine(s) /\ slave[s].got \cap Wants[FeedOf(s)] # {}
               THEN slave[s].batch \cup {<<JobOf(s), slave[s].got \cap Wants[FeedOf(s)]>>}
               ELSE slave[s].batch

LEMMA StackJobEffect ==
  ASSUME TypeInv, NEW s \in Slave, StackJob(s)
  PROVE  /\ Still /\ slave[s].pc = "past" /\ slave[s].ask = {}
         /\ \E x \in Process : Stacks(s, x)
<1>0. slave[s].pc = "past" /\ slave[s].pc \in Reading /\ slave[s].ask = {}
  BY DEF StackJob, At, Reading
<1>00. Still
  BY DEF StackJob, Still
<1>1. /\ FeedOf(s) \in Feed /\ slave[s].feed = {FeedOf(s)} /\ FeedOf(s) \in asked
      /\ slave[s].queue # <<>> /\ slave[s].batch \in SUBSET (Job \X SUBSET Attr)
  BY <1>0, InPast
<1>2. JobOf(s) \in Job /\ slave[s].got \in SUBSET Attr
  BY <1>0, InRead, ProcessType
<1>3. PICK y \in Process : y = Set(s, "run") /\ SetOf(y, slave[s], "run")
  BY Setting DEF SetOf, Handling
<1>40. <<JobOf(s), slave[s].got \cap Wants[FeedOf(s)]>> \in Job \X SUBSET Attr
  BY <1>2
<1>41. PICK B : B = IF Fine(s) /\ slave[s].got \cap Wants[FeedOf(s)] # {}
               THEN slave[s].batch \cup {<<JobOf(s), slave[s].got \cap Wants[FeedOf(s)]>>}
               ELSE slave[s].batch
  OBVIOUS
<1>42. B \in SUBSET (Job \X SUBSET Attr)
  BY <1>1, <1>40, <1>41
<1>4. PICK J \in SUBSET Job, G \in SUBSET Attr, b \in SUBSET (Job \X SUBSET Attr) :
        J = {} /\ G = {} /\ b = B
  BY <1>42
<1>5. PICK x : x = Stack(y, J, G, b) /\ StackOf(x, y, J, G, b)
  BY StackFields
<1>6. Becomes(s, x)
  BY <1>3, <1>4, <1>41, <1>5 DEF Stack, StackJob, SetOf, Fine
<1>7. /\ x \in Process /\ x.pc = "run" /\ x.queue = slave[s].queue /\ x.cache = slave[s].cache
      /\ x.feed = slave[s].feed /\ x.left = slave[s].left /\ x.batch = b
  BY <1>3, <1>5 DEF StackOf, SetOf
<1>8. Queries(s, x)
  BY <1>1, <1>7 DEF Queries
<1>9. GoesOn(s, x)
  BY <1>1, <1>6, <1>7, <1>8, Querying
<1> QED
  BY <1>0, <1>00, <1>4, <1>41, <1>7, <1>9 DEF Stacks

\* A batch has been drained.
Drains(s, x) ==
  GoesOn(s, x) /\ x.pc = "run" /\ x.feed = slave[s].feed /\ x.left = slave[s].left /\ x.batch = {}

LEMMA DrainFeedEffect ==
  ASSUME TypeInv, NEW s \in Slave, DrainFeed(s)
  PROVE  /\ Tables' /\ slave[s].pc = "run"
         /\ UNCHANGED <<stored, file, feeds, calls, asked, before, fedPast, missed>>
         /\ Delivered(FeedOf(s), slave[s].batch) \/ Faulted(FeedOf(s), slave[s].batch)
         /\ fed' = fed \/ (/\ FeedOf(s) \in Continuous
                           /\ fed' = fed \cup {<<FeedOf(s), r[1]>> : r \in slave[s].batch})
         /\ \E x \in Process : Drains(s, x)
<1>0. slave[s].pc = "run"
  BY DEF DrainFeed, At
<1>00. /\ UNCHANGED <<stored, file, feeds, calls, asked, before, fedPast, missed>>
       /\ Delivered(FeedOf(s), slave[s].batch) \/ Faulted(FeedOf(s), slave[s].batch)
       /\ fed' = fed \/ (/\ FeedOf(s) \in Continuous
                         /\ fed' = fed \cup {<<FeedOf(s), r[1]>> : r \in slave[s].batch})
  BY DEF DrainFeed
<1>1. /\ FeedOf(s) \in Feed /\ slave[s].feed = {FeedOf(s)} /\ FeedOf(s) \in asked
      /\ slave[s].queue # <<>> /\ slave[s].batch \in SUBSET (Job \X SUBSET Attr)
  BY <1>0, InPast
<1>2. index' \in [Feed -> [Job -> SUBSET Attr]] /\ lost' \subseteq Feed \X Job
  <2>1. CASE Delivered(FeedOf(s), slave[s].batch)
    BY <1>1, <2>1, DeliveredEffect DEF TypeInv, Tables
  <2>2. CASE Faulted(FeedOf(s), slave[s].batch)
    BY <1>1, <2>2, FaultedEffect DEF TypeInv, Tables
  <2> QED
    BY <1>00, <2>1, <2>2
<1>3. fed' \subseteq Feed \X Job
  BY <1>00, <1>1 DEF TypeInv, Tables
<1>4. Tables'
  BY <1>00, <1>2, <1>3 DEF TypeInv, Tables
<1>5. PICK p \in Process : p = slave[s]
  BY ProcessType
<1>6. PICK b \in SUBSET (Job \X SUBSET Attr) : b = {}
  OBVIOUS
<1>7. PICK x : x = Sends(p, b) /\ SendsOf(x, p, b)
  BY SendsFields
<1>8. Becomes(s, x)
  BY <1>5, <1>6, <1>7 DEF Sends, DrainFeed
<1>9. /\ x \in Process /\ x.pc = "run" /\ x.queue = slave[s].queue /\ x.cache = slave[s].cache
      /\ x.feed = slave[s].feed /\ x.left = slave[s].left /\ x.batch = {}
  BY <1>0, <1>5, <1>6, <1>7 DEF SendsOf
<1>10. Queries(s, x)
  BY <1>1, <1>9 DEF Queries
<1>11. GoesOn(s, x)
  BY <1>1, <1>8, <1>9, <1>10, Querying
<1> QED
  BY <1>0, <1>00, <1>4, <1>9, <1>11 DEF Drains

LEMMA QueryEndsEffect ==
  ASSUME TypeInv, NEW s \in Slave, QueryEnds(s)
  PROVE  /\ Tables' /\ slave[s].pc = "run" /\ slave[s].left = {} /\ slave[s].batch = {}
         /\ fedPast' = fedPast \cup slave[s].feed
         /\ UNCHANGED <<stored, file, feeds, fed, calls, index, asked, before, lost, missed>>
         /\ \E x \in Process : Ends(s, x)
<1>0. /\ slave[s].pc = "run" /\ slave[s].left = {} /\ slave[s].batch = {} /\ Finished(s)
      /\ fedPast' = fedPast \cup slave[s].feed
      /\ UNCHANGED <<stored, file, feeds, fed, calls, index, asked, before, lost, missed>>
  BY DEF QueryEnds, At
<1>1. slave[s].feed \subseteq asked /\ slave[s].queue # <<>>
  BY <1>0, InPast
<1>2. Tables'
  BY <1>0, <1>1 DEF TypeInv, Tables
<1> QED
  BY <1>0, <1>1, <1>2, Ending

LEMMA RegisterFeedEffect ==
  ASSUME TypeInv, NEW s \in Slave, RegisterFeed(s)
  PROVE  /\ Tables' /\ slave[s].pc = "deferred" /\ slave[s].queue # <<>>
         /\ Head(slave[s].queue).kind = "register" /\ feeds \subseteq feeds'
         /\ UNCHANGED <<stored, file, fed, calls, index, asked, before, fedPast, lost, missed>>
         /\ \E x \in Process : Ends(s, x)
<1>0. /\ slave[s].pc = "deferred" /\ Head(slave[s].queue).kind = "register" /\ Finished(s)
      /\ feeds' = feeds \cup {Head(slave[s].queue).feed} \/ feeds' = feeds
      /\ UNCHANGED <<stored, file, fed, calls, index, asked, before, fedPast, lost, missed>>
  BY DEF RegisterFeed, At
<1>1. slave[s].queue # <<>>
  BY <1>0, ProcessType DEF Proc, Recording
<1>2. Head(slave[s].queue).feed \in asked
  BY <1>0, <1>1, InWork DEF WorkOK
<1>3. Tables' /\ feeds \subseteq feeds'
  BY <1>0, <1>2 DEF TypeInv, Tables
<1> QED
  BY <1>0, <1>1, <1>3, Ending

-----------------------------------------------------------------------------
(* The lives of slaves.                                                     *)

LEMMA FailTagsEffect ==
  ASSUME TypeInv, NEW s \in Slave, FailTags(s)
  PROVE  /\ Tables' /\ Crashes
         /\ UNCHANGED <<stored, file, feeds, fed, calls, index, asked, before, fedPast, lost>>
         /\ \E x \in Process : Fails(s, x)
<1>1. slave[s].pc \in Recording /\ Fault(s) /\ Crashes
  BY DEF FailTags
<1>2. UNCHANGED <<stored, file, feeds, fed, calls, index, asked, before, fedPast, lost>>
  BY DEF FailTags
<1>3. missed' \subseteq Job /\ \E x \in Process : Fails(s, x)
  BY <1>1, FaultEffect
<1>4. Tables'
  BY <1>2, <1>3 DEF TypeInv, Tables
<1> QED
  BY <1>1, <1>2, <1>3, <1>4

LEMMA DieEffect ==
  ASSUME TypeInv, NEW s \in Slave, Die(s) \/ CallFreed(s)
  PROVE  /\ Still
         /\ Crashes \/ (slave[s].pc = "deferred" /\ Head(slave[s].queue).kind = "freed")
         /\ \E x \in Process : Moves(s, x) /\ x.pc = "dead" /\ Proc(x, asked)
<1>1. Dead(s) /\ Still
  BY DEF Die, CallFreed, Still
<1>2. Crashes \/ (slave[s].pc = "deferred" /\ Head(slave[s].queue).kind = "freed")
  BY DEF Die, CallFreed, At
<1> QED
  BY <1>1, <1>2, DeadEffect

LEMMA StartSlaveEffect ==
  ASSUME TypeInv, NEW s \in Slave, NEW expired \in SUBSET feeds, StartSlave(s, expired)
  PROVE  /\ Tables' /\ slave[s].pc \in {"dead", "idle"}
         /\ UNCHANGED <<stored, file, calls, index, asked, before, fedPast, lost, missed>>
         /\ feeds' = feeds \ expired /\ expired \subseteq feeds \ Subscribed
         /\ fed' = {x \in fed : x[1] \notin expired}
         /\ \E x \in Process : /\ Moves(s, x) /\ x.pc = "idle" /\ x.queue = <<>> /\ x.cache = feeds'
                               /\ x.todo = {} /\ Clean(x) /\ Proc(x, asked)
<1>0. /\ slave[s].pc \in {"dead", "idle"}
      /\ feeds' = feeds \ expired /\ expired \subseteq feeds \ Subscribed
      /\ fed' = {x \in fed : x[1] \notin expired}
      /\ UNCHANGED <<stored, file, calls, index, asked, before, fedPast, lost, missed>>
      /\ Becomes(s, Idle(feeds \ expired))
  BY DEF StartSlave, At
<1>1. Tables'
  BY <1>0 DEF TypeInv, Tables
<1>2. PICK c \in SUBSET Feed : c = feeds \ expired
  BY DEF TypeInv, Tables
<1>3. PICK x \in Process : /\ x = Idle(c) /\ x.pc = "idle" /\ x.queue = <<>> /\ x.cache = c
                           /\ x.todo = {} /\ Clean(x)
  BY IdleType
<1>4. Moves(s, x)
  BY <1>0, <1>2, <1>3, Moving
<1>5. QueueOK(x.queue, asked)
  BY <1>3 DEF QueueOK
<1>6. Proc(x, asked)
  BY <1>3, <1>5, RestProc
<1> QED
  BY <1>0, <1>1, <1>2, <1>3, <1>4, <1>6

-----------------------------------------------------------------------------
(* The types.                                                               *)

\* A step of a slave to a process that is well typed.
LEMMA TypeKept ==
  ASSUME TypeInv, NEW s \in Slave, Tables', asked' = asked,
         \E x \in Process : Moves(s, x) /\ Proc(x, asked)
  PROVE  TypeInv'
<1>1. PICK x \in Process : Moves(s, x) /\ Proc(x, asked)
  OBVIOUS
<1>2. asked \subseteq asked' /\ Proc(x, asked')
  BY <1>1
<1> QED
  BY <1>1, <1>2, TypeMove

LEMMA TypeStill ==
  ASSUME TypeInv, NEW s \in Slave, Still, \E x \in Process : Moves(s, x) /\ Proc(x, asked)
  PROVE  TypeInv'
BY StillTables, TypeKept

LEMMA TypeCall ==
  ASSUME TypeInv, NEW s \in Slave,
         \/ \E j \in Job : RegisterJob(s, j)
         \/ \E j \in Job, A \in SUBSET FileAttr : CommitUpload(s, j, A)
         \/ \E k \in {"attr", "multi"}, J \in SUBSET Job, a \in Tag : RecordTags(s, k, J, a)
         \/ \E f \in Feed : FeedIndex(s, f)
  PROVE  TypeInv'
<1>1. ASSUME NEW j \in Job, RegisterJob(s, j) PROVE TypeInv'
  <2>1. asked' = asked
    BY <1>1 DEF RegisterJob
  <2>2. Tables' /\ \E x \in Process : Moves(s, x) /\ Proc(x, asked)
    BY <1>1, <2>1, RegisterJobEffect DEF Defers
  <2> QED
    BY <2>1, <2>2, TypeKept
<1>2. ASSUME NEW j \in Job, NEW A \in SUBSET FileAttr, CommitUpload(s, j, A) PROVE TypeInv'
  <2>1. asked' = asked
    BY <1>2 DEF CommitUpload
  <2>2. Tables' /\ \E x \in Process : Moves(s, x) /\ Proc(x, asked)
    BY <1>2, <2>1, CommitUploadEffect DEF Defers
  <2> QED
    BY <2>1, <2>2, TypeKept
<1>3. ASSUME NEW k \in {"attr", "multi"}, NEW J \in SUBSET Job, NEW a \in Tag, RecordTags(s, k, J, a)
      PROVE  TypeInv'
  <2>1. asked' = asked
    BY <1>3 DEF RecordTags
  <2>2. Tables' /\ \E x \in Process : Moves(s, x) /\ Proc(x, asked)
    BY <1>3, RecordTagsEffect
  <2> QED
    BY <2>1, <2>2, TypeKept
<1>4. ASSUME NEW f \in Feed, FeedIndex(s, f) PROVE TypeInv'
  <2>1. /\ Tables' /\ asked \subseteq asked'
        /\ \E x \in Process : Moves(s, x) /\ Proc(x, asked')
    BY <1>4, FeedIndexEffect
  <2> QED
    BY <2>1, TypeMove
<1> QED
  BY <1>1, <1>2, <1>3, <1>4

LEMMA TypeTagging ==
  ASSUME TypeInv, NEW s \in Slave,
         \/ \E j \in Job : OpenTags(s, j)
         \/ CreateTags(s) \/ CloseTags(s) \/ RewriteTags(s) \/ WriteTags(s) \/ FailTags(s)
  PROVE  TypeInv'
<1>1. ASSUME NEW j \in Job, OpenTags(s, j) PROVE TypeInv'
  <2>1. asked' = asked
    BY <1>1 DEF OpenTags
  <2>2. Tables' /\ \E x \in Process : Moves(s, x) /\ Proc(x, asked)
    BY <1>1, OpenTagsEffect DEF Fails, Records
  <2> QED
    BY <2>1, <2>2, TypeKept
<1>2. ASSUME CreateTags(s) \/ CloseTags(s) \/ RewriteTags(s) PROVE TypeInv'
  <2>1. Tables' /\ asked' = asked /\ \E x \in Process : Moves(s, x) /\ Proc(x, asked)
    BY <1>2, EmptyTagsEffect DEF Records
  <2> QED
    BY <2>1, TypeKept
<1>3. ASSUME WriteTags(s) PROVE TypeInv'
  <2>1. asked' = asked
    BY <1>3 DEF WriteTags
  <2>2. Tables' /\ \E x \in Process : Moves(s, x) /\ Proc(x, asked)
    BY <1>3, <2>1, WriteTagsEffect DEF Records, Defers
  <2> QED
    BY <2>1, <2>2, TypeKept
<1>4. ASSUME FailTags(s) PROVE TypeInv'
  <2>1. Tables' /\ asked' = asked /\ \E x \in Process : Moves(s, x) /\ Proc(x, asked)
    BY <1>4, FailTagsEffect DEF Fails
  <2> QED
    BY <2>1, TypeKept
<1> QED
  BY <1>1, <1>2, <1>3, <1>4

LEMMA TypeMatching ==
  ASSUME TypeInv, NEW s \in Slave,
         \/ StartMatch(s) \/ MatchFeed(s) \/ NextJob(s) \/ GetAttr(s) \/ FeedMatches(s)
         \/ CheckFed(s) \/ FullFeed(s) \/ Send(s) \/ SetFed(s)
  PROVE  TypeInv'
<1>1. ASSUME StartMatch(s) PROVE TypeInv'
  BY <1>1, StartMatchEffect, TypeStill DEF GoesOn
<1>2. ASSUME MatchFeed(s) PROVE TypeInv'
  <2>1. Still /\ \E x \in Process : Moves(s, x) /\ Proc(x, asked)
    BY <1>2, MatchFeedEffect DEF Ends, Takes, GoesOn
  <2> QED
    BY <2>1, TypeStill
<1>3. ASSUME NextJob(s) PROVE TypeInv'
  <2>1. Still /\ \E x \in Process : Moves(s, x) /\ Proc(x, asked)
    BY <1>3, NextJobEffect DEF Looks, Leaves, GoesOn
  <2> QED
    BY <2>1, TypeStill
<1>4. ASSUME GetAttr(s) PROVE TypeInv'
  <2>1. Tables' /\ asked' = asked /\ \E x \in Process : Moves(s, x) /\ Proc(x, asked)
    BY <1>4, GetAttrEffect DEF GoesOn
  <2> QED
    BY <2>1, TypeKept
<1>5. ASSUME FeedMatches(s) PROVE TypeInv'
  <2>1. Still /\ \E x \in Process : Moves(s, x) /\ Proc(x, asked)
    BY <1>5, FeedMatchesEffect DEF Judges, GoesOn
  <2> QED
    BY <2>1, TypeStill
<1>6. ASSUME CheckFed(s) PROVE TypeInv'
  <2>1. Still /\ \E x \in Process : Moves(s, x) /\ Proc(x, asked)
    BY <1>6, CheckFedEffect DEF SendsNew, FillsIn, GoesOn
  <2> QED
    BY <2>1, TypeStill
<1>7. ASSUME FullFeed(s) PROVE TypeInv'
  <2>1. Still /\ \E x \in Process : Moves(s, x) /\ Proc(x, asked)
    BY <1>7, FullFeedEffect DEF Filled, GoesOn
  <2> QED
    BY <2>1, TypeStill
<1>8. ASSUME Send(s) PROVE TypeInv'
  <2>1. Tables' /\ asked' = asked /\ \E x \in Process : Moves(s, x) /\ Proc(x, asked)
    BY <1>8, SendEffect DEF Leaves, ToMark, GoesOn
  <2> QED
    BY <2>1, TypeKept
<1>9. ASSUME SetFed(s) PROVE TypeInv'
  <2>1. Tables' /\ asked' = asked /\ \E x \in Process : Moves(s, x) /\ Proc(x, asked)
    BY <1>9, SetFedEffect DEF Leaves, GoesOn
  <2> QED
    BY <2>1, TypeKept
<1> QED
  BY <1>1, <1>2, <1>3, <1>4, <1>5, <1>6, <1>7, <1>8, <1>9

LEMMA TypePast ==
  ASSUME TypeInv, NEW s \in Slave,
         \/ RunQuery(s) \/ StackJob(s) \/ DrainFeed(s) \/ QueryEnds(s) \/ RegisterFeed(s)
         \/ \E j \in Job : QueryCallback(s, j)
         \/ CallFreed(s) \/ Die(s)
         \/ \E expired \in SUBSET feeds : StartSlave(s, expired)
  PROVE  TypeInv'
<1>1. ASSUME RunQuery(s) PROVE TypeInv'
  <2>1. Still /\ \E x \in Process : Moves(s, x) /\ Proc(x, asked)
    BY <1>1, RunQueryEffect DEF Starts, Breaks, GoesOn
  <2> QED
    BY <2>1, TypeStill
<1>2. ASSUME StackJob(s) PROVE TypeInv'
  <2>1. Still /\ \E x \in Process : Moves(s, x) /\ Proc(x, asked)
    BY <1>2, StackJobEffect DEF Stacks, GoesOn
  <2> QED
    BY <2>1, TypeStill
<1>3. ASSUME DrainFeed(s) PROVE TypeInv'
  <2>1. Tables' /\ asked' = asked /\ \E x \in Process : Moves(s, x) /\ Proc(x, asked)
    BY <1>3, DrainFeedEffect DEF Drains, GoesOn
  <2> QED
    BY <2>1, TypeKept
<1>4. ASSUME QueryEnds(s) PROVE TypeInv'
  <2>1. Tables' /\ asked' = asked /\ \E x \in Process : Moves(s, x) /\ Proc(x, asked)
    BY <1>4, QueryEndsEffect DEF Ends
  <2> QED
    BY <2>1, TypeKept
<1>5. ASSUME RegisterFeed(s) PROVE TypeInv'
  <2>1. Tables' /\ asked' = asked /\ \E x \in Process : Moves(s, x) /\ Proc(x, asked)
    BY <1>5, RegisterFeedEffect DEF Ends
  <2> QED
    BY <2>1, TypeKept
<1>6. ASSUME NEW j \in Job, QueryCallback(s, j) PROVE TypeInv'
  <2>1. Still /\ \E x \in Process : Moves(s, x) /\ Proc(x, asked)
    BY <1>6, QueryCallbackEffect DEF Picks, GoesOn
  <2> QED
    BY <2>1, TypeStill
<1>7. ASSUME CallFreed(s) \/ Die(s) PROVE TypeInv'
  <2>1. Still /\ \E x \in Process : Moves(s, x) /\ Proc(x, asked)
    BY <1>7, DieEffect
  <2> QED
    BY <2>1, TypeStill
<1>8. ASSUME NEW expired \in SUBSET feeds, StartSlave(s, expired) PROVE TypeInv'
  <2>1. Tables' /\ asked' = asked /\ \E x \in Process : Moves(s, x) /\ Proc(x, asked)
    BY <1>8, StartSlaveEffect
  <2> QED
    BY <2>1, TypeKept
<1> QED
  BY <1>1, <1>2, <1>3, <1>4, <1>5, <1>6, <1>7, <1>8

LEMMA TypeStep == TypeInv /\ [Next]_vars => TypeInv'
<1> SUFFICES ASSUME TypeInv, [Next]_vars PROVE TypeInv'
  OBVIOUS
<1>1. CASE UNCHANGED vars
  BY <1>1 DEF vars, TypeInv, Tables
<1> QED
  BY <1>1, StepCases, TypeCall, TypeTagging, TypeMatching, TypePast

LEMMA TypeInit == Init => TypeInv
<1> SUFFICES ASSUME Init PROVE TypeInv
  OBVIOUS
<1>1. \A s \in Slave : slave[s] = Idle(Subscribed)
  BY DEF Init
<1>2. \A s \in Slave : slave[s] \in Process /\ slave[s].pc = "idle" /\ slave[s].queue = <<>>
  BY <1>1, IdleType, FeedingAssumption
<1>3. \A s \in Slave : QueueOK(slave[s].queue, asked)
  BY <1>2 DEF QueueOK
<1>4. \A s \in Slave : Proc(slave[s], asked)
  BY <1>2, <1>3, RestProc
<1>5. slave \in [Slave -> Process]
  BY <1>2 DEF Init
<1>6. Tables
  BY FeedingAssumption DEF Init, Tables
<1> QED
  BY <1>4, <1>5, <1>6 DEF TypeInv

\* The tables of the Primary Storage, what the index servers have received and the
\* queues of deferred work of the slaves (context.c, feed.c) are always well typed: a
\* slave that records tags is in a call, one that works on a feed or a job has one, and
\* a deferred function to come back to.
THEOREM TypeCorrect == Spec => []TypeOK
<1>1. Spec => []TypeInv
  BY TypeInit, TypeStep, PTL DEF Spec
<1> QED
  BY <1>1, TypeInvType, PTL

-----------------------------------------------------------------------------
(* Who gets what.                                                           *)

\* The conditions on the metadata do not exclude job j from feed f.
OwnerOK(f, j) ==
  MetadataFirst(f) => \A i \in DOMAIN Query[f] : Query[f][i] = Owner => Fitting(f, j, Owner)

\* A job whose metadata exclude it cannot come out of is_feed_matching as matching: the
\* metadata are in the first places of the array of names, which is read.
LEMMA MatchOwner ==
  ASSUME NEW f \in Feed, NEW j \in Job, NEW A \in SUBSET Attr, NEW got,
         Asked(f, j, A) \cap {Owner} \subseteq got, "match" \in Matching(f, j, A, got)
  PROVE  OwnerOK(f, j)
<1> SUFFICES ASSUME MetadataFirst(f), NEW i \in DOMAIN Query[f], Query[f][i] = Owner,
                    ~Fitting(f, j, Owner)
             PROVE  FALSE
  BY DEF OwnerOK
<1> DEFINE q == Query[f]
           known == {k \in DOMAIN q : q[k] \in A}
           missing == DOMAIN q \ known
           found == {k \in missing : q[k] \in got}
           unfit == {k \in found : ~Fitting(f, j, q[k])}
<1>1. Matching(f, j, A, got) =
        IF \E k \in known : ~Fitting(f, j, q[k]) THEN {"no"}
        ELSE IF missing = {} THEN {"match"}
        ELSE IF \E k \in missing, h \in known : h < k
             THEN {"no", "crash"} \cup
                    (IF \E k \in unfit : k <= Cardinality(missing) THEN {} ELSE {"match"})
        ELSE IF found = {} THEN {"match", "crash"}
        ELSE IF found # missing \/ unfit # {} THEN {"no"}
        ELSE {"match"}
  BY DEF Matching
<1>2. q \in Seq(Attr) /\ DOMAIN q = 1 .. Len(q) /\ Len(q) \in Nat /\ i \in 1 .. Len(q)
  BY FeedingAssumption
<1>3. ~ \E k \in known : ~Fitting(f, j, q[k])
  <2> SUFFICES ASSUME \E k \in known : ~Fitting(f, j, q[k]) PROVE FALSE
    OBVIOUS
  <2>1. Matching(f, j, A, got) = {"no"}
    BY <1>1
  <2> QED
    BY <2>1
<1>4. Owner \notin A
  <2> SUFFICES ASSUME Owner \in A PROVE FALSE
    OBVIOUS
  <2>1. i \in known /\ ~Fitting(f, j, q[i])
    OBVIOUS
  <2> QED
    BY <1>3, <2>1
<1>5. 1 .. i \subseteq missing
  <2> SUFFICES ASSUME NEW k \in 1 .. i PROVE k \in missing
    OBVIOUS
  <2>1. k \in DOMAIN q /\ (k = i \/ k < i)
    BY <1>2
  <2>2. q[k] = Owner
    BY <2>1 DEF MetadataFirst
  <2> QED
    BY <1>4, <2>1, <2>2
<1>6. i \in missing /\ i <= Cardinality(missing)
  <2>1. IsFiniteSet(1 .. Len(q)) /\ IsFiniteSet(1 .. i) /\ Cardinality(1 .. i) = i
    <3>1. 1 \in Int /\ i \in Int /\ Len(q) \in Int /\ 1 <= i
      BY <1>2
    <3>2. i - 1 + 1 = i
      BY <3>1
    <3> QED
      BY <3>1, <3>2, FS_Interval
  <2>2. IsFiniteSet(missing)
    BY <1>2, <2>1, FS_Subset
  <2>3. Cardinality(1 .. i) <= Cardinality(missing)
    BY <1>5, <2>2, FS_Subset
  <2>4. i \in 1 .. i
    BY <1>2
  <2> QED
    BY <1>5, <2>1, <2>3, <2>4
<1>7. Owner \in Asked(f, j, A)
  <2>1. missing = {k \in DOMAIN q : q[k] \notin A} /\ DOMAIN q \ {k \in DOMAIN q : q[k] \notin A} = known
    OBVIOUS
  <2>2. Asked(f, j, A) = IF \E k \in known : ~Fitting(f, j, q[k]) THEN {}
                         ELSE {q[k] : k \in {h \in missing : h <= Cardinality(missing)}}
    BY <2>1 DEF Asked
  <2>3. i \in {h \in missing : h <= Cardinality(missing)}
    BY <1>6
  <2> QED
    BY <1>3, <2>2, <2>3
<1>8. i \in unfit
  BY <1>6, <1>7
<1>9. missing # {} /\ found # {} /\ unfit # {}
  BY <1>8
<1> HIDE DEF known, missing, found, unfit
<1>10. "match" \notin Matching(f, j, A, got)
  BY <1>1, <1>3, <1>6, <1>8, <1>9
<1> QED
  BY <1>10

\* What could be read of job j since feed f was asked for, and is asked for by the feed.
OldPart(f, j, bef) == bef[f][j] \cap (Wants[f] \ {Owner})

\* The job satisfies the query with that.
OldFits(f, j, bef) ==
  \A i \in DOMAIN Query[f] : Query[f][i] \in bef[f][j] /\ Fitting(f, j, Query[f][i])

Sent(f, j, bef, ix, lo) == OldPart(f, j, bef) \subseteq ix[f][j] \/ <<f, j>> \in lo

\* A process that feeds past jobs has the job to look at, in hand, in the batch, or has sent
\* it.
Kept(p, f, j, bef, ix, lo) ==
  \/ j \in p.left
  \/ Sent(f, j, bef, ix, lo)
  \/ \E r \in p.batch : r[1] = j /\ OldPart(f, j, bef) \subseteq r[2]
  \/ p.pc = "past" /\ j \in p.job /\ bef[f][j] \cap (Items(f) \ {Owner}) \subseteq p.got \cup p.ask

\* The jobs it may send match.
Fair(p, f) ==
  /\ \A j \in p.left : OwnerOK(f, j)
  /\ \A r \in p.batch : OwnerOK(f, r[1])
  /\ p.pc = "past" => \A j \in p.job : OwnerOK(f, j)

\* A process sends only jobs that match, and marks only jobs it has sent.
Honest(p, bef, ix, lo) ==
  /\ p.pc \in {"next", "find", "check"} => \A f \in p.feed, j \in p.jobs : OwnerOK(f, j)
  /\ p.pc = "find" => \A f \in p.feed, j \in p.job :
                        Asked(f, j, NewAttrs(p)) \cap {Owner} \subseteq p.got
  /\ p.pc = "full" => p.mark = p.job /\ \A f \in p.feed, j \in p.job : OwnerOK(f, j)
  /\ p.pc = "send" => /\ \A f \in p.feed, r \in p.batch : OwnerOK(f, r[1])
                      /\ \A j \in p.mark : \E r \in p.batch : r[1] = j
  /\ p.pc = "mark" => \A f \in p.feed, j \in p.mark : ix[f][j] # {}
  /\ p.pc \in {"run", "past"} => \A f \in p.feed :
       Fair(p, f) /\ \A j \in Job : OldFits(f, j, bef) => Kept(p, f, j, bef, ix, lo)

FeedInv ==
  /\ \A f \in Feed, j \in Job : before[f][j] \subseteq stored[j]
  /\ FedMeansDelivered /\ OnlyMatching /\ HistoryDelivered
  /\ \A s \in Slave : Honest(slave[s], before, index, lost)

\* Index servers forget nothing, and a feed is asked for once.
Later ==
  /\ \A f \in Feed, j \in Job : index[f][j] \subseteq index'[f][j]
  /\ lost \subseteq lost'
  /\ \A f \in asked, j \in Job : before'[f][j] \subseteq before[f][j]

LEMMA LaterSent ==
  ASSUME Later, TypeInv, NEW f \in asked, NEW j \in Job, Sent(f, j, before, index, lost)
  PROVE  Sent(f, j, before', index', lost')
BY DEF Later, TypeInv, Tables, Sent, OldPart

LEMMA LaterFits ==
  ASSUME Later, NEW f \in asked, NEW j \in Job, OldFits(f, j, before')
  PROVE  OldFits(f, j, before)
BY DEF Later, OldFits

LEMMA LaterKept ==
  ASSUME Later, TypeInv, NEW f \in asked, NEW j \in Job, NEW p, Kept(p, f, j, before, index, lost)
  PROVE  Kept(p, f, j, before', index', lost')
<1>1. before'[f][j] \subseteq before[f][j] /\ OldPart(f, j, before') \subseteq OldPart(f, j, before)
  BY DEF Later, OldPart
<1>2. CASE Sent(f, j, before, index, lost)
  BY <1>2, LaterSent DEF Kept
<1>3. CASE \E r \in p.batch : r[1] = j /\ OldPart(f, j, before) \subseteq r[2]
  BY <1>1, <1>3 DEF Kept
<1>4. CASE j \in p.left
  BY <1>4 DEF Kept
<1>5. CASE /\ p.pc = "past" /\ j \in p.job
           /\ before[f][j] \cap (Items(f) \ {Owner}) \subseteq p.got \cup p.ask
  <2>1. before'[f][j] \cap (Items(f) \ {Owner}) \subseteq p.got \cup p.ask
    BY <1>1, <1>5
  <2> QED
    BY <1>5, <2>1 DEF Kept
<1> QED
  BY <1>2, <1>3, <1>4, <1>5 DEF Kept

LEMMA LaterHonest ==
  ASSUME TypeInv, Later, NEW s \in Slave, Honest(slave[s], before, index, lost)
  PROVE  Honest(slave[s], before', index', lost')
<1>0. /\ slave[s].feed \subseteq Feed /\ slave[s].mark \subseteq Job
      /\ slave[s].pc \in {"run", "past"} => slave[s].feed \subseteq asked
  BY ProcessType DEF Proc
<1>1. slave[s].pc = "mark" => \A f \in slave[s].feed, j \in slave[s].mark : index'[f][j] # {}
  BY <1>0 DEF Honest, Later
<1>2. ASSUME slave[s].pc \in {"run", "past"}, NEW f \in slave[s].feed
      PROVE  /\ Fair(slave[s], f)
             /\ \A j \in Job : OldFits(f, j, before') => Kept(slave[s], f, j, before', index', lost')
  <2>1. f \in asked
    BY <1>0, <1>2
  <2>2. /\ Fair(slave[s], f)
        /\ \A j \in Job : OldFits(f, j, before) => Kept(slave[s], f, j, before, index, lost)
    BY <1>2 DEF Honest
  <2>3. ASSUME NEW j \in Job, OldFits(f, j, before')
        PROVE  Kept(slave[s], f, j, before', index', lost')
    BY <2>1, <2>2, <2>3, LaterFits, LaterKept
  <2> QED
    BY <2>2, <2>3
<1> QED
  BY <1>1, <1>2 DEF Honest

LEMMA LaterHistory ==
  ASSUME TypeInv, FeedInv, Later, fedPast' = fedPast
  PROVE  HistoryDelivered'
<1> SUFFICES ASSUME NEW g \in fedPast, NEW j \in Job, OldFits(g, j, before')
             PROVE  Sent(g, j, before', index', lost')
  BY DEF HistoryDelivered, OldFits, Sent, OldPart
<1>1. g \in asked
  BY DEF TypeInv, Tables
<1>2. OldFits(g, j, before)
  BY <1>1, LaterFits
<1>3. Sent(g, j, before, index, lost)
  BY <1>2 DEF FeedInv, HistoryDelivered, OldFits, Sent, OldPart
<1> QED
  BY <1>1, <1>3, LaterSent

\* A step in which one slave moves.
LEMMA FeedMove ==
  ASSUME TypeInv, FeedInv, Later, NEW s \in Slave, NEW x, Moves(s, x),
         Honest(x, before', index', lost'),
         \A f \in Feed, j \in Job : before'[f][j] \subseteq stored'[j],
         FedMeansDelivered', OnlyMatching', HistoryDelivered'
  PROVE  FeedInv'
<1>1. \A t \in Slave : Honest(slave'[t], before', index', lost')
  BY LaterHonest DEF FeedInv, Moves
<1> QED
  BY <1>1 DEF FeedInv

\* One in which nothing is sent.
LEMMA FeedKept ==
  ASSUME TypeInv, FeedInv, Later, UNCHANGED <<index, lost, fedPast>>, fed' \subseteq fed,
         \A f \in Feed, j \in Job : before'[f][j] \subseteq stored'[j],
         NEW s \in Slave, NEW x, Moves(s, x), Honest(x, before', index, lost)
  PROVE  FeedInv'
<1>1. HistoryDelivered'
  BY LaterHistory
<1>2. FedMeansDelivered' /\ OnlyMatching'
  BY DEF FeedInv, FedMeansDelivered, OnlyMatching, TypeInv, Tables
<1>3. Honest(x, before', index', lost')
  OBVIOUS
<1> QED
  BY <1>1, <1>2, <1>3, FeedMove

\* One in which nothing changes but the slave.
LEMMA FeedStill ==
  ASSUME TypeInv, FeedInv, UNCHANGED <<stored, before, index, lost, fedPast>>, fed' \subseteq fed,
         NEW s \in Slave, NEW x, Moves(s, x), Honest(x, before, index, lost)
  PROVE  FeedInv'
<1>1. Later
  BY DEF Later
<1>2. \A f \in Feed, j \in Job : before'[f][j] \subseteq stored'[j]
  BY DEF FeedInv
<1>3. Honest(x, before', index, lost)
  OBVIOUS
<1> QED
  BY <1>1, <1>2, <1>3, FeedKept

\* A process out of the functions.
LEMMA RestHonest ==
  ASSUME NEW x, NEW bef, NEW ix, NEW lo, x.pc \notin Handling
  PROVE  Honest(x, bef, ix, lo)
BY DEF Honest, Handling, Reading

\* A batch of jobs that match leaves the index servers with jobs that match.
LEMMA Sending ==
  ASSUME TypeInv, FeedInv, NEW f \in Feed, NEW b \in SUBSET (Job \X SUBSET Attr),
         Delivered(f, b) \/ Faulted(f, b), \A r \in b : OwnerOK(f, r[1]), UNCHANGED <<before, fedPast>>
  PROVE  /\ Later /\ OnlyMatching' /\ HistoryDelivered'
         /\ \A r \in b : index'[f][r[1]] # {} \/ <<f, r[1]>> \in lost'
         /\ \A r \in b : r[2] \subseteq index'[f][r[1]] \/ <<f, r[1]>> \in lost'
<1>1. Later
  BY DeliveredEffect, FaultedEffect DEF Later
<1>2. OnlyMatching'
  <2> SUFFICES ASSUME NEW g \in Feed, NEW j \in Job, index'[g][j] # {} PROVE OwnerOK(g, j)
    BY DEF OnlyMatching, OwnerOK
  <2>1. CASE index'[g][j] = index[g][j]
    BY <2>1 DEF FeedInv, OnlyMatching, OwnerOK
  <2>2. CASE index'[g][j] # index[g][j]
    <3>1. Delivered(f, b) /\ g = f
      BY <2>2, DeliveredEffect, FaultedEffect
    <3> PICK r \in b : r[1] = j
      BY <2>2, <3>1, DeliveredEffect
    <3> QED
      BY <3>1
  <2> QED
    BY <2>1, <2>2
<1>3. HistoryDelivered'
  BY <1>1, LaterHistory
<1>4. \A r \in b : index'[f][r[1]] # {} \/ <<f, r[1]>> \in lost'
  BY DeliveredEffect, FaultedEffect
<1>5. \A r \in b : r[2] \subseteq index'[f][r[1]] \/ <<f, r[1]>> \in lost'
  BY DeliveredEffect, FaultedEffect
<1> QED
  BY <1>1, <1>2, <1>3, <1>4, <1>5

\* A slave that is not in a function changes what is stored.
LEMMA StoreFeed ==
  ASSUME TypeInv, FeedInv, NEW s \in Slave, NEW x, Moves(s, x), x.pc \notin Handling,
         \A f \in Feed, j \in Job : before'[f][j] \subseteq before[f][j] /\ before'[f][j] \subseteq stored'[j],
         UNCHANGED <<index, lost, fed, fedPast>>
  PROVE  FeedInv'
<1>1. Later
  BY DEF Later, TypeInv, Tables
<1>2. Honest(x, before', index, lost)
  BY RestHonest
<1> QED
  BY <1>1, <1>2, FeedKept

LEMMA CallFeed ==
  ASSUME TypeInv, FeedInv, NEW s \in Slave,
         \/ \E j \in Job : RegisterJob(s, j)
         \/ \E j \in Job, A \in SUBSET FileAttr : CommitUpload(s, j, A)
         \/ \E k \in {"attr", "multi"}, J \in SUBSET Job, a \in Tag : RecordTags(s, k, J, a)
  PROVE  FeedInv'
<1>0. "deferred" \notin Handling /\ "open" \notin Handling
  BY DEF Handling, Reading
<1>1. ASSUME NEW j \in Job, RegisterJob(s, j) PROVE FeedInv'
  <2>1. PICK x \in Process : Moves(s, x) /\ x.pc = "deferred"
    BY <1>1, RegisterJobEffect DEF Defers
  <2>2. UNCHANGED <<index, lost, fed, fedPast, before>>
    BY <1>1 DEF RegisterJob
  <2>3. \A i \in Job : stored[i] \subseteq stored'[i]
    BY <1>1, RegisterJobEffect
  <2>4. \A f \in Feed, i \in Job : before'[f][i] \subseteq before[f][i] /\ before'[f][i] \subseteq stored'[i]
    BY <2>2, <2>3 DEF FeedInv
  <2> QED
    BY <1>0, <2>1, <2>2, <2>4, StoreFeed
<1>2. ASSUME NEW j \in Job, NEW A \in SUBSET FileAttr, CommitUpload(s, j, A) PROVE FeedInv'
  <2>0. /\ Adds(j, A)
        /\ \E x \in Process, w \in Work : Defers(s, x, w)
    BY <1>2, CommitUploadEffect
  <2>1. PICK x \in Process : Moves(s, x) /\ x.pc = "deferred"
    BY <2>0 DEF Defers
  <2>2. UNCHANGED <<index, lost, fed, fedPast, before>>
    BY <1>2 DEF CommitUpload
  <2>3. \A i \in Job : stored[i] \subseteq stored'[i]
    BY <2>0 DEF Adds
  <2>4. \A f \in Feed, i \in Job : before'[f][i] \subseteq before[f][i] /\ before'[f][i] \subseteq stored'[i]
    BY <2>2, <2>3 DEF FeedInv
  <2> QED
    BY <1>0, <2>1, <2>2, <2>4, StoreFeed
<1>3. ASSUME NEW k \in {"attr", "multi"}, NEW J \in SUBSET Job, NEW a \in Tag, RecordTags(s, k, J, a)
      PROVE  FeedInv'
  <2>1. PICK x \in Process : Moves(s, x) /\ x.pc = "open"
    BY <1>3, RecordTagsEffect
  <2>2. UNCHANGED <<stored, index, lost, fed, fedPast, before>>
    BY <1>3 DEF RecordTags
  <2>3. \A f \in Feed, i \in Job : before'[f][i] \subseteq before[f][i] /\ before'[f][i] \subseteq stored'[i]
    BY <2>2 DEF FeedInv
  <2> QED
    BY <1>0, <2>1, <2>2, <2>3, StoreFeed
<1> QED
  BY <1>1, <1>2, <1>3

LEMMA TaggingFeed ==
  ASSUME TypeInv, FeedInv, NEW s \in Slave,
         \/ \E j \in Job : OpenTags(s, j)
         \/ CreateTags(s) \/ CloseTags(s) \/ RewriteTags(s) \/ WriteTags(s) \/ FailTags(s)
  PROVE  FeedInv'
<1>0. \A l \in Recording \cup {"idle", "deferred"} : l \notin Handling
  BY DEF Handling, Reading, Recording
<1>1. ASSUME NEW j \in Job, OpenTags(s, j) PROVE FeedInv'
  <2>1. PICK x \in Process : Moves(s, x) /\ x.pc \in Recording \cup {"idle"}
    BY <1>1, OpenTagsEffect DEF Fails, Records
  <2>2. UNCHANGED <<stored, index, lost, fed, fedPast, before>>
    BY <1>1 DEF OpenTags
  <2>3. \A f \in Feed, i \in Job : before'[f][i] \subseteq before[f][i] /\ before'[f][i] \subseteq stored'[i]
    BY <2>2 DEF FeedInv
  <2>4. x.pc \notin Handling
    BY <1>0, <2>1
  <2> QED
    BY <2>1, <2>2, <2>3, <2>4, StoreFeed
<1>2. ASSUME CreateTags(s) \/ CloseTags(s) \/ RewriteTags(s) PROVE FeedInv'
  <2>1. PICK x \in Process : Moves(s, x) /\ x.pc \in Recording
    BY <1>2, EmptyTagsEffect DEF Records
  <2>2. UNCHANGED <<index, lost, fed, fedPast>>
    BY <1>2, EmptyTagsEffect
  <2>3. \A f \in Feed, i \in Job : before'[f][i] \subseteq before[f][i] /\ before'[f][i] \subseteq stored'[i]
    BY <1>2, EmptyTagsEffect
  <2>4. x.pc \notin Handling
    BY <1>0, <2>1
  <2> QED
    BY <2>1, <2>2, <2>3, <2>4, StoreFeed
<1>3. ASSUME WriteTags(s) PROVE FeedInv'
  <2>1. PICK x \in Process : Moves(s, x) /\ x.pc \in Recording \cup {"deferred"}
    BY <1>3, WriteTagsEffect DEF Records, Defers
  <2>2. UNCHANGED <<index, lost, fed, fedPast>>
    BY <1>3, WriteTagsEffect
  <2>3. \A f \in Feed, i \in Job : before'[f][i] \subseteq before[f][i] /\ before'[f][i] \subseteq stored'[i]
    BY <1>3, WriteTagsEffect
  <2>4. x.pc \notin Handling
    BY <1>0, <2>1
  <2> QED
    BY <2>1, <2>2, <2>3, <2>4, StoreFeed
<1>4. ASSUME FailTags(s) PROVE FeedInv'
  <2>1. PICK x \in Process : Moves(s, x) /\ x.pc = "idle"
    BY <1>4, FailTagsEffect DEF Fails
  <2>2. UNCHANGED <<stored, index, lost, fed, fedPast, before>>
    BY <1>4 DEF FailTags
  <2>3. \A f \in Feed, i \in Job : before'[f][i] \subseteq before[f][i] /\ before'[f][i] \subseteq stored'[i]
    BY <2>2 DEF FeedInv
  <2> QED
    BY <1>0, <2>1, <2>2, <2>3, StoreFeed
<1> QED
  BY <1>1, <1>2, <1>3, <1>4

LEMMA FeedIndexFeed ==
  ASSUME TypeInv, FeedInv, NEW s \in Slave, NEW f \in Feed, FeedIndex(s, f)
  PROVE  FeedInv'
<1>1. PICK x \in Process : Moves(s, x) /\ x.pc = "deferred"
  BY FeedIndexEffect
<1>2. f \notin asked /\ UNCHANGED <<stored, fed, index, fedPast, lost>>
  BY DEF FeedIndex
<1>3. before'[f] = stored /\ \A g \in Feed \ {f} : before'[g] = before[g]
  BY FeedIndexEffect
<1>4. Later
  BY <1>2, <1>3 DEF Later, TypeInv, Tables
<1>5. Honest(x, before', index, lost)
  BY <1>1, RestHonest DEF Handling, Reading
<1>6. \A g \in Feed, j \in Job : before'[g][j] \subseteq stored'[j]
  BY <1>2, <1>3 DEF FeedInv
<1> QED
  BY <1>1, <1>2, <1>4, <1>5, <1>6, FeedKept

\* Steps that leave the functions, or start one.
LEMMA LeaveFeed ==
  ASSUME TypeInv, FeedInv, NEW s \in Slave, Still, \E x \in Process : Moves(s, x) /\ x.pc \notin Handling
  PROVE  FeedInv'
<1>1. PICK x \in Process : Moves(s, x) /\ x.pc \notin Handling
  OBVIOUS
<1>2. UNCHANGED <<stored, before, index, lost, fedPast>> /\ fed' \subseteq fed
  BY DEF Still
<1>3. Honest(x, before, index, lost)
  BY <1>1, RestHonest
<1> QED
  BY <1>1, <1>2, <1>3, FeedStill

LEMMA MatchFeedFeed ==
  ASSUME TypeInv, FeedInv, NEW s \in Slave, StartMatch(s) \/ MatchFeed(s)
  PROVE  FeedInv'
<1>1. CASE StartMatch(s)
  <2>1. Still /\ \E x \in Process : Moves(s, x) /\ x.pc \in {"match", "idle"}
    BY <1>1, StartMatchEffect DEF GoesOn
  <2> QED
    BY <2>1, LeaveFeed DEF Handling, Reading
<1>2. CASE MatchFeed(s)
  <2>1. Still /\ \E x \in Process : Ends(s, x) \/ \E f \in slave[s].todo : Takes(s, x, f)
    BY <1>2, MatchFeedEffect
  <2>2. PICK x \in Process : Ends(s, x) \/ \E f \in slave[s].todo : Takes(s, x, f)
    BY <2>1
  <2>3. CASE Ends(s, x)
    <3>1. \E y \in Process : Moves(s, y) /\ y.pc \notin Handling
      BY <2>3 DEF Ends, Handling, Reading
    <3> QED
      BY <2>1, <3>1, LeaveFeed
  <2>4. ASSUME NEW f \in slave[s].todo, Takes(s, x, f) PROVE FeedInv'
    <3>1. Moves(s, x) /\ x.pc = "next" /\ x.jobs = {}
      BY <2>4 DEF Takes, GoesOn
    <3>2. Honest(x, before, index, lost)
      BY <3>1 DEF Honest
    <3> QED
      BY <2>1, <3>1, <3>2, FeedStill DEF Still
  <2> QED
    BY <2>2, <2>3, <2>4
<1> QED
  BY <1>1, <1>2

LEMMA NextJobFeed ==
  ASSUME TypeInv, FeedInv, NEW s \in Slave, NextJob(s)
  PROVE  FeedInv'
<1>0. Still /\ slave[s].pc = "next"
  BY NextJobEffect
<1>1. \A f \in slave[s].feed, j \in slave[s].jobs : OwnerOK(f, j)
  BY <1>0 DEF FeedInv, Honest
<1>2. PICK x \in Process :
        \/ \E j \in slave[s].left : Looks(s, x, FeedOf(s), j)
        \/ Leaves(s, x)
        \/ GoesOn(s, x) /\ x.pc = "check" /\ x.feed = slave[s].feed /\ x.jobs = slave[s].jobs
  BY NextJobEffect
<1>3. ASSUME NEW j \in slave[s].left, Looks(s, x, FeedOf(s), j) PROVE FeedInv'
  <2>1. /\ Moves(s, x) /\ x.pc = "find" /\ x.feed = slave[s].feed /\ x.job = {j}
        /\ x.jobs = slave[s].jobs /\ x.queue = slave[s].queue /\ x.cache = slave[s].cache
        /\ x.got = Asked(FeedOf(s), j, NewAttrs(slave[s])) \cap {Owner}
    BY <1>3 DEF Looks, GoesOn
  <2>2. NewAttrs(x) = NewAttrs(slave[s])
    BY <2>1 DEF NewAttrs
  <2>3. slave[s].feed = {FeedOf(s)}
    BY <1>0, InHand DEF Handling
  <2>4. Honest(x, before, index, lost)
    BY <1>1, <2>1, <2>2, <2>3 DEF Honest
  <2> QED
    BY <1>0, <2>1, <2>4, FeedStill DEF Still
<1>4. CASE Leaves(s, x)
  <2>1. \E y \in Process : Moves(s, y) /\ y.pc \notin Handling
    BY <1>4 DEF Leaves, GoesOn, Handling, Reading
  <2> QED
    BY <1>0, <2>1, LeaveFeed
<1>5. CASE GoesOn(s, x) /\ x.pc = "check" /\ x.feed = slave[s].feed /\ x.jobs = slave[s].jobs
  <2>1. Moves(s, x)
    BY <1>5 DEF GoesOn
  <2>2. Honest(x, before, index, lost)
    BY <1>1, <1>5 DEF Honest
  <2> QED
    BY <1>0, <2>1, <2>2, FeedStill DEF Still
<1> QED
  BY <1>2, <1>3, <1>4, <1>5

\* What has been readable since the feed was asked for is found.
LEMMA GetAttrFeed ==
  ASSUME TypeInv, FeedInv, NEW s \in Slave, GetAttr(s)
  PROVE  FeedInv'
<1>0. /\ slave[s].pc \in Reading
      /\ UNCHANGED <<stored, before, index, lost, fedPast>> /\ fed' \subseteq fed
  BY GetAttrEffect
<1>1. PICK a \in slave[s].ask : \E x \in Process :
        /\ GoesOn(s, x)
        /\ ReadOf(x, slave[s], slave[s].ask \ {a}, slave[s].got \cup ({a} \cap stored[JobOf(s)]))
  BY GetAttrEffect
<1>2. PICK x \in Process :
        /\ GoesOn(s, x)
        /\ ReadOf(x, slave[s], slave[s].ask \ {a}, slave[s].got \cup ({a} \cap stored[JobOf(s)]))
  BY <1>1
<1>3. /\ Moves(s, x) /\ x.pc = slave[s].pc /\ x.queue = slave[s].queue /\ x.cache = slave[s].cache
      /\ x.feed = slave[s].feed /\ x.left = slave[s].left /\ x.job = slave[s].job
      /\ x.jobs = slave[s].jobs /\ x.batch = slave[s].batch /\ x.mark = slave[s].mark
  BY <1>2 DEF ReadOf, GoesOn
<1>4. x.ask = slave[s].ask \ {a} /\ x.got = slave[s].got \cup ({a} \cap stored[JobOf(s)])
  BY <1>2 DEF ReadOf
<1>5. Honest(slave[s], before, index, lost)
  BY DEF FeedInv
<1>6. NewAttrs(x) = NewAttrs(slave[s])
  BY <1>3 DEF NewAttrs
<1>7. x.pc = "find" => \A f \in x.feed, j \in x.job : Asked(f, j, NewAttrs(x)) \cap {Owner} \subseteq x.got
  BY <1>3, <1>4, <1>5, <1>6 DEF Honest
<1>8. x.pc = "full" => x.mark = x.job /\ \A f \in x.feed, j \in x.job : OwnerOK(f, j)
  BY <1>3, <1>5 DEF Honest
<1>9. ASSUME x.pc = "past", NEW f \in x.feed
      PROVE  Fair(x, f) /\ \A j \in Job : OldFits(f, j, before) => Kept(x, f, j, before, index, lost)
  <2>1. /\ Fair(slave[s], f) /\ f \in Feed
        /\ \A j \in Job : OldFits(f, j, before) => Kept(slave[s], f, j, before, index, lost)
    BY <1>3, <1>5, <1>9, ProcessType DEF Honest
  <2>2. Fair(x, f)
    BY <1>3, <2>1 DEF Fair
  <2>3. ASSUME NEW j \in Job, Kept(slave[s], f, j, before, index, lost)
        PROVE  Kept(x, f, j, before, index, lost)
    <3>1. CASE /\ j \in slave[s].job
               /\ before[f][j] \cap (Items(f) \ {Owner}) \subseteq slave[s].got \cup slave[s].ask
      <4>1. slave[s].job = {JobOf(s)}
        BY <1>0, InRead
      <4>2. j = JobOf(s) /\ before[f][j] \subseteq stored[j]
        BY <2>1, <3>1, <4>1 DEF FeedInv
      <4>3. before[f][j] \cap (Items(f) \ {Owner}) \subseteq x.got \cup x.ask
        BY <1>4, <3>1, <4>2
      <4> QED
        BY <1>3, <1>9, <3>1, <4>3 DEF Kept
    <3>2. CASE j \in slave[s].left
      BY <1>3, <3>2 DEF Kept
    <3>3. CASE Sent(f, j, before, index, lost)
      BY <3>3 DEF Kept
    <3>4. CASE \E r \in slave[s].batch : r[1] = j /\ OldPart(f, j, before) \subseteq r[2]
      BY <1>3, <3>4 DEF Kept
    <3> QED
      BY <2>3, <3>1, <3>2, <3>3, <3>4 DEF Kept
  <2> QED
    BY <2>1, <2>2, <2>3
<1>10. /\ x.pc \in {"next", "find", "check"} => \A f \in x.feed, j \in x.jobs : OwnerOK(f, j)
       /\ x.pc \notin {"send", "mark", "run"}
  BY <1>0, <1>3, <1>5 DEF Honest, Reading
<1>11. Honest(x, before, index, lost)
  BY <1>7, <1>8, <1>9, <1>10 DEF Honest
<1> QED
  BY <1>0, <1>3, <1>11, FeedStill

LEMMA FeedMatchesFeed ==
  ASSUME TypeInv, FeedInv, NEW s \in Slave, FeedMatches(s)
  PROVE  FeedInv'
<1>0. Still /\ slave[s].pc = "find" /\ slave[s].pc \in Reading /\ slave[s].pc \in MatchAt
  BY FeedMatchesEffect DEF Reading, MatchAt
<1>1. PICK j \in Job : j = JobOf(s) /\ slave[s].job = {j}
  BY <1>0, InRead
<1>2. PICK f \in Feed : f = FeedOf(s) /\ slave[s].feed = {f}
  BY <1>0, InRead, InHand
<1>3. NewAttrs(slave[s]) \in SUBSET Attr
  BY <1>0, NewAttrsType
<1>4. /\ \A i \in slave[s].jobs : OwnerOK(f, i)
      /\ Asked(f, j, NewAttrs(slave[s])) \cap {Owner} \subseteq slave[s].got
  BY <1>0, <1>1, <1>2 DEF FeedInv, Honest
<1>5. PICK v \in Matching(f, j, NewAttrs(slave[s]), slave[s].got) : \E x \in Process :
        Judges(s, x, v) \/ (Moves(s, x) /\ x.pc = "dead")
  BY <1>1, <1>2, FeedMatchesEffect
<1>6. PICK x \in Process : Judges(s, x, v) \/ (Moves(s, x) /\ x.pc = "dead")
  BY <1>5
<1>7. CASE Moves(s, x) /\ x.pc = "dead"
  <2>1. \E y \in Process : Moves(s, y) /\ y.pc \notin Handling
    BY <1>7 DEF Handling, Reading
  <2> QED
    BY <1>0, <2>1, LeaveFeed
<1>8. CASE Judges(s, x, v)
  <2>1. /\ Moves(s, x) /\ x.pc = "next" /\ x.feed = {f}
        /\ x.jobs = IF v = "match" THEN slave[s].jobs \cup {j} ELSE slave[s].jobs
    BY <1>1, <1>2, <1>8 DEF Judges, GoesOn
  <2>2. v = "match" => OwnerOK(f, j)
    BY <1>3, <1>4, <1>5, MatchOwner
  <2>3. \A i \in x.jobs : OwnerOK(f, i)
    BY <1>4, <2>1, <2>2
  <2>4. Honest(x, before, index, lost)
    BY <2>1, <2>3 DEF Honest
  <2> QED
    BY <1>0, <2>1, <2>4, FeedStill DEF Still
<1> QED
  BY <1>6, <1>7, <1>8

LEMMA CheckFedFeed ==
  ASSUME TypeInv, FeedInv, NEW s \in Slave, CheckFed(s)
  PROVE  FeedInv'
<1>0. Still /\ slave[s].pc = "check"
  BY CheckFedEffect
<1>1. \A f \in slave[s].feed, j \in slave[s].jobs : OwnerOK(f, j)
  BY <1>0 DEF FeedInv, Honest
<1>2. PICK x \in Process : SendsNew(s, x) \/ \E j \in Job : FillsIn(s, x, j)
  BY CheckFedEffect
<1>3. CASE SendsNew(s, x)
  <2>1. /\ Moves(s, x) /\ x.pc = "send" /\ x.feed = slave[s].feed /\ x.mark = {}
        /\ x.batch = {<<j, NewAttrs(slave[s])>> : j \in slave[s].jobs}
    BY <1>3 DEF SendsNew, GoesOn
  <2>2. \A r \in x.batch : r[1] \in slave[s].jobs
    BY <2>1
  <2>3. Honest(x, before, index, lost)
    BY <1>1, <2>1, <2>2 DEF Honest
  <2> QED
    BY <1>0, <2>1, <2>3, FeedStill DEF Still
<1>4. ASSUME NEW j \in Job, FillsIn(s, x, j) PROVE FeedInv'
  <2>1. /\ Moves(s, x) /\ x.pc = "full" /\ x.feed = slave[s].feed /\ slave[s].jobs = {j}
        /\ x.job = {j} /\ x.mark = {j}
    BY <1>4 DEF FillsIn, GoesOn
  <2>2. Honest(x, before, index, lost)
    BY <1>1, <2>1 DEF Honest
  <2> QED
    BY <1>0, <2>1, <2>2, FeedStill DEF Still
<1> QED
  BY <1>2, <1>3, <1>4

LEMMA FullFeedFeed ==
  ASSUME TypeInv, FeedInv, NEW s \in Slave, FullFeed(s)
  PROVE  FeedInv'
<1>0. Still /\ slave[s].pc = "full" /\ slave[s].pc \in Reading
  BY FullFeedEffect DEF Reading
<1>1. PICK j \in Job : j = JobOf(s) /\ slave[s].job = {j}
  BY <1>0, InRead
<1>2. slave[s].mark = {j} /\ \A f \in slave[s].feed : OwnerOK(f, j)
  BY <1>0, <1>1 DEF FeedInv, Honest
<1>3. PICK x \in Process : Filled(s, x)
  BY FullFeedEffect
<1>4. /\ Moves(s, x) /\ x.pc = "send" /\ x.feed = slave[s].feed /\ x.mark = {j}
      /\ x.batch = {<<j, slave[s].got>>}
  BY <1>1, <1>2, <1>3 DEF Filled, GoesOn
<1>5. (\A r \in x.batch : r[1] = j) /\ \E r \in x.batch : r[1] = j
  BY <1>4
<1>6. Honest(x, before, index, lost)
  BY <1>2, <1>4, <1>5 DEF Honest
<1> QED
  BY <1>0, <1>4, <1>6, FeedStill DEF Still

LEMMA SendFeed ==
  ASSUME TypeInv, FeedInv, NEW s \in Slave, Send(s)
  PROVE  FeedInv'
<1>0. /\ slave[s].pc = "send" /\ UNCHANGED <<stored, before, fed, fedPast>>
  BY SendEffect
<1>1. PICK b \in SUBSET (Job \X SUBSET Attr) : b = slave[s].batch
  BY ProcessType
<1>2. PICK f \in Feed : f = FeedOf(s) /\ slave[s].feed = {f}
  BY <1>0, InHand DEF Handling
<1>3. (\A r \in b : OwnerOK(f, r[1])) /\ \A j \in slave[s].mark : \E r \in b : r[1] = j
  BY <1>0, <1>1, <1>2 DEF FeedInv, Honest
<1>4. PICK x \in Process :
        \/ (Delivered(f, b) \/ Faulted(f, b)) /\ Leaves(s, x)
        \/ Delivered(f, b) /\ ToMark(s, x)
  BY <1>1, <1>2, SendEffect
<1>5. Later /\ OnlyMatching' /\ HistoryDelivered'
  BY <1>0, <1>3, <1>4, Sending
<1>6. FedMeansDelivered'
  BY <1>0, <1>5 DEF FeedInv, FedMeansDelivered, Later, TypeInv, Tables
<1>7. Honest(x, before', index', lost') /\ Moves(s, x)
  <2>1. CASE Leaves(s, x)
    <3>1. x.pc \notin Handling /\ Moves(s, x)
      BY <2>1 DEF Leaves, GoesOn, Handling, Reading
    <3> QED
      BY <3>1, RestHonest
  <2>2. CASE Delivered(f, b) /\ ToMark(s, x)
    <3>1. Moves(s, x) /\ x.pc = "mark" /\ x.feed = {f} /\ x.mark = slave[s].mark
      BY <1>2, <2>2 DEF ToMark, GoesOn
    <3>2. \A r \in b : index'[f][r[1]] # {}
      BY <2>2, DeliveredEffect
    <3>3. \A j \in x.mark : index'[f][j] # {}
      BY <1>3, <3>1, <3>2
    <3>4. Honest(x, before', index', lost')
      BY <3>1, <3>3 DEF Honest
    <3> QED
      BY <3>1, <3>4
  <2> QED
    BY <1>4, <2>1, <2>2
<1>8. \A g \in Feed, j \in Job : before'[g][j] \subseteq stored'[j]
  BY <1>0 DEF FeedInv
<1> QED
  BY <1>5, <1>6, <1>7, <1>8, FeedMove

LEMMA SetFedFeed ==
  ASSUME TypeInv, FeedInv, NEW s \in Slave, SetFed(s)
  PROVE  FeedInv'
<1>0. /\ slave[s].pc = "mark" /\ fed' = fed \cup ({FeedOf(s)} \X slave[s].mark)
      /\ UNCHANGED <<stored, index, before, lost, fedPast>>
  BY SetFedEffect
<1>1. PICK f \in Feed : f = FeedOf(s) /\ slave[s].feed = {f}
  BY <1>0, InHand DEF Handling
<1>2. PICK x \in Process : Moves(s, x) /\ x.pc = "match"
  BY SetFedEffect DEF Leaves, GoesOn
<1>3. \A j \in slave[s].mark : index[f][j] # {}
  BY <1>0, <1>1 DEF FeedInv, Honest
<1>4. FedMeansDelivered'
  <2> SUFFICES ASSUME NEW y \in fed' PROVE index[y[1]][y[2]] # {} \/ y \in lost
    BY <1>0 DEF FedMeansDelivered
  <2>1. CASE y \in fed
    BY <2>1 DEF FeedInv, FedMeansDelivered
  <2>2. CASE y \in {f} \X slave[s].mark
    BY <1>3, <2>2
  <2> QED
    BY <1>0, <1>1, <2>1, <2>2
<1>5. Later /\ OnlyMatching'
  BY <1>0 DEF Later, FeedInv, OnlyMatching
<1>6. HistoryDelivered'
  BY <1>0, <1>5, LaterHistory
<1>7. Honest(x, before', index', lost')
  BY <1>2, RestHonest DEF Handling, Reading
<1>8. \A g \in Feed, j \in Job : before'[g][j] \subseteq stored'[j]
  BY <1>0 DEF FeedInv
<1> QED
  BY <1>2, <1>4, <1>5, <1>6, <1>7, <1>8, FeedMove

\* The query finds every job that satisfies the query of the feed with what was stored
\* before.
LEMMA RunQueryFeed ==
  ASSUME TypeInv, FeedInv, NEW s \in Slave, RunQuery(s)
  PROVE  FeedInv'
<1>0. Still /\ Head(slave[s].queue).feed \in asked
  BY RunQueryEffect
<1>1. PICK f \in Feed : f = Head(slave[s].queue).feed
  BY <1>0 DEF TypeInv, Tables
<1>2. PICK x \in Process : Starts(s, x) \/ Breaks(s, x)
  BY RunQueryEffect
<1>3. CASE Breaks(s, x)
  <2>1. \E y \in Process : Moves(s, y) /\ y.pc \notin Handling
    BY <1>3 DEF Breaks, Handling, Reading
  <2> QED
    BY <1>0, <2>1, LeaveFeed
<1>4. CASE Starts(s, x)
  <2>1. /\ Moves(s, x) /\ x.pc = "run" /\ x.feed = {f} /\ x.batch = {}
        /\ x.left = {j \in Job : Selected(f, j)}
    BY <1>1, <1>4 DEF Starts, GoesOn
  <2>2. \A j \in x.left : OwnerOK(f, j)
    BY <2>1 DEF Selected, OwnerOK
  <2>3. ASSUME NEW j \in Job, OldFits(f, j, before) PROVE Kept(x, f, j, before, index, lost)
    <3>1. before[f][j] \subseteq stored[j]
      BY DEF FeedInv
    <3>2. CASE stored[j] = {}
      <4>1. OldPart(f, j, before) = {}
        BY <3>1, <3>2 DEF OldPart
      <4> QED
        BY <4>1 DEF Kept, Sent
    <3>3. CASE stored[j] # {}
      <4>1. \A i \in DOMAIN Query[f] : Query[f][i] = Owner => Fitting(f, j, Owner)
        BY <2>3 DEF OldFits
      <4>2. j \in x.left
        BY <2>1, <3>3, <4>1 DEF Selected
      <4> QED
        BY <4>2 DEF Kept
    <3> QED
      BY <3>2, <3>3
  <2>4. Fair(x, f)
    BY <2>1, <2>2 DEF Fair
  <2>5. Honest(x, before, index, lost)
    BY <2>1, <2>3, <2>4 DEF Honest
  <2> QED
    BY <1>0, <2>1, <2>5, FeedStill DEF Still
<1> QED
  BY <1>2, <1>3, <1>4

\* What a slave that feeds past jobs keeps.
LEMMA PastHonest ==
  ASSUME TypeInv, FeedInv, NEW s \in Slave, slave[s].pc \in {"run", "past"}
  PROVE  /\ Fair(slave[s], FeedOf(s))
         /\ \A j \in Job : OldFits(FeedOf(s), j, before) =>
                             Kept(slave[s], FeedOf(s), j, before, index, lost)
<1>1. slave[s].feed = {FeedOf(s)}
  BY InPast
<1>2. Honest(slave[s], before, index, lost)
  BY DEF FeedInv
<1> QED
  BY <1>1, <1>2 DEF Honest

\* All the attributes of the job are to be asked for.
LEMMA QueryCallbackFeed ==
  ASSUME TypeInv, FeedInv, NEW s \in Slave, NEW j \in Job, QueryCallback(s, j)
  PROVE  FeedInv'
<1>0. Still /\ slave[s].pc = "run" /\ slave[s].pc \in {"run", "past"} /\ j \in slave[s].left
  BY QueryCallbackEffect
<1>1. PICK f \in Feed : f = FeedOf(s) /\ slave[s].feed = {f}
  BY <1>0, InPast
<1>2. /\ Fair(slave[s], f)
      /\ \A i \in Job : OldFits(f, i, before) => Kept(slave[s], f, i, before, index, lost)
  BY <1>0, <1>1, PastHonest
<1>3. PICK x \in Process : Picks(s, x, j)
  BY QueryCallbackEffect
<1>4. /\ Moves(s, x) /\ x.pc = "past" /\ x.feed = {f} /\ x.left = slave[s].left \ {j} /\ x.job = {j}
      /\ x.ask = Items(f) \ {Owner} /\ x.batch = slave[s].batch
  BY <1>1, <1>3 DEF Picks, GoesOn
<1>5. Fair(x, f)
  BY <1>0, <1>2, <1>4 DEF Fair
<1>6. ASSUME NEW i \in Job, Kept(slave[s], f, i, before, index, lost)
      PROVE  Kept(x, f, i, before, index, lost)
  <2>1. CASE i = j
    BY <1>4, <2>1 DEF Kept
  <2>2. CASE i # j
    BY <1>0, <1>4, <1>6, <2>2 DEF Kept
  <2> QED
    BY <2>1, <2>2
<1>7. Honest(x, before, index, lost)
  BY <1>2, <1>4, <1>5, <1>6 DEF Honest
<1> QED
  BY <1>0, <1>4, <1>7, FeedStill DEF Still

\* A job that satisfies the query goes into the batch with all that was stored before.
LEMMA StackJobFeed ==
  ASSUME TypeInv, FeedInv, NEW s \in Slave, StackJob(s)
  PROVE  FeedInv'
<1>0. /\ Still /\ slave[s].pc = "past" /\ slave[s].pc \in {"run", "past"} /\ slave[s].ask = {}
      /\ slave[s].pc \in Reading
  BY StackJobEffect DEF Reading
<1>1. PICK f \in Feed : f = FeedOf(s) /\ slave[s].feed = {f}
  BY <1>0, InPast
<1>2. PICK j \in Job : j = JobOf(s) /\ slave[s].job = {j}
  BY <1>0, InRead
<1>3. /\ Fair(slave[s], f)
      /\ \A i \in Job : OldFits(f, i, before) => Kept(slave[s], f, i, before, index, lost)
  BY <1>0, <1>1, PastHonest
<1>4. PICK x \in Process : Stacks(s, x)
  BY StackJobEffect
<1>5. /\ Moves(s, x) /\ x.pc = "run" /\ x.feed = {f} /\ x.left = slave[s].left
      /\ x.batch = IF Fine(s) /\ slave[s].got \cap Wants[f] # {}
                   THEN slave[s].batch \cup {<<j, slave[s].got \cap Wants[f]>>} ELSE slave[s].batch
  BY <1>1, <1>2, <1>4 DEF Stacks, GoesOn
<1>6. slave[s].batch \subseteq x.batch /\ \A r \in x.batch \ slave[s].batch : r[1] = j
  BY <1>5
<1>7. OwnerOK(f, j) /\ Fair(x, f)
  BY <1>0, <1>2, <1>3, <1>5, <1>6 DEF Fair
<1>8. ASSUME NEW i \in Job, OldFits(f, i, before) PROVE Kept(x, f, i, before, index, lost)
  <2>1. Kept(slave[s], f, i, before, index, lost)
    BY <1>3, <1>8
  <2>2. CASE i \in slave[s].job /\ before[f][i] \cap (Items(f) \ {Owner}) \subseteq slave[s].got
    <3>1. i = j
      BY <1>2, <2>2
    <3>2. \A k \in DOMAIN Query[f] : Query[f][k] \in before[f][j] /\ Fitting(f, j, Query[f][k])
      BY <1>8, <3>1 DEF OldFits
    <3>3. \A k \in DOMAIN Query[f] : Query[f][k] \in Items(f)
      BY DEF Items
    <3>4. Fine(s)
      BY <1>1, <1>2, <2>2, <3>1, <3>2, <3>3 DEF Fine
    <3>5. OldPart(f, j, before) \subseteq slave[s].got \cap Wants[f]
      BY <2>2, <3>1 DEF OldPart, Items
    <3>6. CASE slave[s].got \cap Wants[f] = {}
      BY <3>1, <3>5, <3>6 DEF Kept, Sent
    <3>7. CASE slave[s].got \cap Wants[f] # {}
      <4>1. PICK r : r = <<j, slave[s].got \cap Wants[f]>>
        OBVIOUS
      <4>2. r \in x.batch /\ r[1] = j /\ r[2] = slave[s].got \cap Wants[f]
        BY <1>5, <3>4, <3>7, <4>1
      <4> QED
        BY <3>1, <3>5, <4>2 DEF Kept
    <3> QED
      BY <3>6, <3>7
  <2>3. CASE i \in slave[s].left
    BY <1>5, <2>3 DEF Kept
  <2>4. CASE Sent(f, i, before, index, lost)
    BY <2>4 DEF Kept
  <2>5. CASE \E r \in slave[s].batch : r[1] = i /\ OldPart(f, i, before) \subseteq r[2]
    BY <1>6, <2>5 DEF Kept
  <2> QED
    BY <1>0, <2>1, <2>2, <2>3, <2>4, <2>5 DEF Kept
<1>9. Honest(x, before, index, lost)
  BY <1>5, <1>7, <1>8 DEF Honest
<1> QED
  BY <1>0, <1>5, <1>9, FeedStill DEF Still

LEMMA DrainFeedFeed ==
  ASSUME TypeInv, FeedInv, NEW s \in Slave, DrainFeed(s)
  PROVE  FeedInv'
<1>0. /\ slave[s].pc = "run" /\ slave[s].pc \in {"run", "past"}
      /\ UNCHANGED <<stored, asked, before, fedPast>>
      /\ fed' \subseteq fed \cup {<<FeedOf(s), r[1]>> : r \in slave[s].batch}
  BY DrainFeedEffect
<1>1. PICK f \in Feed : f = FeedOf(s) /\ slave[s].feed = {f} /\ f \in asked
  BY <1>0, InPast
<1>2. PICK b \in SUBSET (Job \X SUBSET Attr) : b = slave[s].batch
  BY ProcessType
<1>3. /\ Fair(slave[s], f)
      /\ \A i \in Job : OldFits(f, i, before) => Kept(slave[s], f, i, before, index, lost)
  BY <1>0, <1>1, PastHonest
<1>4. PICK x \in Process : Drains(s, x)
  BY DrainFeedEffect
<1>5. Moves(s, x) /\ x.pc = "run" /\ x.feed = {f} /\ x.left = slave[s].left /\ x.batch = {}
  BY <1>1, <1>4 DEF Drains, GoesOn
<1>6. Delivered(f, b) \/ Faulted(f, b)
  BY <1>1, <1>2, DrainFeedEffect
<1>7. \A r \in b : OwnerOK(f, r[1])
  BY <1>2, <1>3 DEF Fair
<1>8. /\ Later /\ OnlyMatching' /\ HistoryDelivered'
      /\ \A r \in b : index'[f][r[1]] # {} \/ <<f, r[1]>> \in lost'
      /\ \A r \in b : r[2] \subseteq index'[f][r[1]] \/ <<f, r[1]>> \in lost'
  BY <1>0, <1>6, <1>7, Sending
<1>9. FedMeansDelivered'
  <2> SUFFICES ASSUME NEW y \in fed' PROVE index'[y[1]][y[2]] # {} \/ y \in lost'
    BY DEF FedMeansDelivered
  <2>1. CASE y \in fed
    BY <1>8, <2>1 DEF FeedInv, FedMeansDelivered, Later, TypeInv, Tables
  <2>2. CASE y \notin fed
    <3>1. PICK r \in b : y = <<f, r[1]>>
      BY <1>0, <1>1, <1>2, <2>2
    <3> QED
      BY <1>8, <3>1
  <2> QED
    BY <2>1, <2>2
<1>10. ASSUME NEW i \in Job, OldFits(f, i, before') PROVE Kept(x, f, i, before', index', lost')
  <2>1. Kept(slave[s], f, i, before, index, lost)
    BY <1>1, <1>3, <1>8, <1>10, LaterFits
  <2>2. CASE Sent(f, i, before, index, lost)
    BY <1>1, <1>8, <2>2, LaterSent DEF Kept
  <2>3. CASE \E r \in b : r[1] = i /\ OldPart(f, i, before) \subseteq r[2]
    <3>1. Sent(f, i, before', index', lost')
      BY <1>0, <1>8, <2>3 DEF Sent, OldPart
    <3> QED
      BY <3>1 DEF Kept
  <2>4. CASE i \in slave[s].left
    BY <1>5, <2>4 DEF Kept
  <2> QED
    BY <1>0, <1>2, <2>1, <2>2, <2>3, <2>4 DEF Kept
<1>11. Fair(x, f)
  BY <1>3, <1>5 DEF Fair
<1>12. Honest(x, before', index', lost')
  BY <1>5, <1>10, <1>11 DEF Honest
<1>13. \A g \in Feed, j \in Job : before'[g][j] \subseteq stored'[j]
  BY <1>0 DEF FeedInv
<1> QED
  BY <1>5, <1>8, <1>9, <1>12, <1>13, FeedMove

\* With no job left to look at and an empty batch, every job was sent.
LEMMA QueryEndsFeed ==
  ASSUME TypeInv, FeedInv, NEW s \in Slave, QueryEnds(s)
  PROVE  FeedInv'
<1>0. /\ slave[s].pc = "run" /\ slave[s].left = {} /\ slave[s].batch = {}
      /\ fedPast' = fedPast \cup slave[s].feed /\ UNCHANGED <<stored, fed, index, before, lost>>
  BY QueryEndsEffect
<1>1. PICK x \in Process : Ends(s, x)
  BY QueryEndsEffect
<1>2. Later
  BY <1>0 DEF Later
<1>3. slave[s].feed = {FeedOf(s)}
  BY <1>0, InPast
<1>4. \A f \in slave[s].feed, j \in Job : OldFits(f, j, before) => Sent(f, j, before, index, lost)
  BY <1>0, <1>3, PastHonest DEF Kept
<1>5. \A f \in fedPast, j \in Job : OldFits(f, j, before) => Sent(f, j, before, index, lost)
  BY DEF FeedInv, HistoryDelivered, OldFits, Sent, OldPart
<1>6. HistoryDelivered'
  <2>1. \A f \in fedPast', j \in Job : OldFits(f, j, before) => Sent(f, j, before, index, lost)
    BY <1>0, <1>4, <1>5
  <2> QED
    BY <1>0, <2>1 DEF HistoryDelivered, OldFits, Sent, OldPart
<1>7. FedMeansDelivered' /\ OnlyMatching'
  BY <1>0 DEF FeedInv, FedMeansDelivered, OnlyMatching
<1>8. Honest(x, before', index', lost') /\ Moves(s, x)
  BY <1>1, RestHonest DEF Ends, Handling, Reading
<1>9. \A f \in Feed, j \in Job : before'[f][j] \subseteq stored'[j]
  BY <1>0 DEF FeedInv
<1> QED
  BY <1>2, <1>6, <1>7, <1>8, <1>9, FeedMove

LEMMA SlaveFeed ==
  ASSUME TypeInv, FeedInv, NEW s \in Slave,
         \/ RegisterFeed(s) \/ CallFreed(s) \/ Die(s)
         \/ \E expired \in SUBSET feeds : StartSlave(s, expired)
  PROVE  FeedInv'
<1>0. \A l \in {"idle", "deferred", "dead"} : l \notin Handling
  BY DEF Handling, Reading
<1>1. CASE RegisterFeed(s)
  <2>1. PICK x \in Process : Moves(s, x) /\ x.pc \in {"idle", "deferred"}
    BY <1>1, RegisterFeedEffect DEF Ends
  <2>2. UNCHANGED <<stored, before, index, lost, fedPast>> /\ fed' \subseteq fed
    BY <1>1, RegisterFeedEffect
  <2>3. Honest(x, before, index, lost)
    BY <1>0, <2>1, RestHonest
  <2> QED
    BY <2>1, <2>2, <2>3, FeedStill
<1>2. CASE CallFreed(s) \/ Die(s)
  <2>1. Still /\ \E x \in Process : Moves(s, x) /\ x.pc = "dead"
    BY <1>2, DieEffect
  <2> QED
    BY <1>0, <2>1, LeaveFeed
<1>3. ASSUME NEW expired \in SUBSET feeds, StartSlave(s, expired) PROVE FeedInv'
  <2>1. PICK x \in Process : Moves(s, x) /\ x.pc = "idle"
    BY <1>3, StartSlaveEffect
  <2>2. UNCHANGED <<stored, before, index, lost, fedPast>> /\ fed' \subseteq fed
    BY <1>3, StartSlaveEffect
  <2>3. Honest(x, before, index, lost)
    BY <1>0, <2>1, RestHonest
  <2> QED
    BY <2>1, <2>2, <2>3, FeedStill
<1> QED
  BY <1>1, <1>2, <1>3

LEMMA FeedStep == TypeInv /\ FeedInv /\ [Next]_vars => FeedInv'
<1> SUFFICES ASSUME TypeInv, FeedInv, [Next]_vars PROVE FeedInv'
  OBVIOUS
<1>1. CASE UNCHANGED vars
  BY <1>1 DEF vars, FeedInv, FedMeansDelivered, OnlyMatching, HistoryDelivered
<1>2. ASSUME NEW s \in Slave,
             \/ StartMatch(s) \/ MatchFeed(s) \/ NextJob(s) \/ GetAttr(s) \/ FeedMatches(s)
             \/ CheckFed(s) \/ FullFeed(s) \/ Send(s) \/ SetFed(s)
      PROVE  FeedInv'
  BY <1>2, MatchFeedFeed, NextJobFeed, GetAttrFeed, FeedMatchesFeed, CheckFedFeed, FullFeedFeed,
     SendFeed, SetFedFeed
<1>3. ASSUME NEW s \in Slave,
             \/ RunQuery(s) \/ StackJob(s) \/ DrainFeed(s) \/ QueryEnds(s)
             \/ \E j \in Job : QueryCallback(s, j)
      PROVE  FeedInv'
  BY <1>3, RunQueryFeed, StackJobFeed, DrainFeedFeed, QueryEndsFeed, QueryCallbackFeed
<1> QED
  BY <1>1, <1>2, <1>3, StepCases, CallFeed, TaggingFeed, FeedIndexFeed, SlaveFeed

LEMMA FeedInit == Init => FeedInv
<1> SUFFICES ASSUME Init PROVE FeedInv
  OBVIOUS
<1>1. \A s \in Slave : slave[s] = Idle(Subscribed) /\ Idle(Subscribed).pc = "idle"
  BY FeedingAssumption, IdleType DEF Init
<1>2. \A s \in Slave : Honest(slave[s], before, index, lost)
  BY <1>1, RestHonest DEF Handling, Reading
<1>3. \A f \in Feed, j \in Job : before[f][j] = {} /\ index[f][j] = {}
  BY DEF Init
<1>4. FedMeansDelivered /\ OnlyMatching /\ HistoryDelivered
  BY <1>3 DEF Init, FedMeansDelivered, OnlyMatching, HistoryDelivered
<1> QED
  BY <1>2, <1>3, <1>4 DEF FeedInv

LEMMA FeedCorrect == Spec => [](TypeInv /\ FeedInv)
<1>1. Init => TypeInv /\ FeedInv
  BY TypeInit, FeedInit
<1>2. TypeInv /\ FeedInv /\ [Next]_vars => (TypeInv /\ FeedInv)'
  BY TypeStep, FeedStep
<1> QED
  BY <1>1, <1>2, PTL DEF Spec

\* Whatever slaves work on the same jobs, die or are restarted, whenever feeds expire
\* and are registered: a row of fed_jobs (set_fed, check_fed in feed.c) means that the
\* job was sent to the index server, unless a call of the index server failed for it.
THEOREM FedJobsWereSent == Spec => []FedMeansDelivered
<1>1. TypeInv /\ FeedInv => FedMeansDelivered
  BY DEF FeedInv
<1> QED
  BY <1>1, FeedCorrect, PTL

\* When the query of a history feed has run to its end (run_feed_deferred,
\* feed_query_callback and drain_feed in feed.c) everything of a job that the feed asks
\* for was sent that could be read when FeedIndex was called and at every moment since, if
\* the job satisfies the query with it: for any size of the batches, whatever was stored
\* meanwhile, unless a call of the index server failed.  A tag that was out of its file
\* for a moment, because a slave was rewriting the file or died at it, is not promised.
THEOREM HistoryIsDelivered == Spec => []HistoryDelivered
<1>1. TypeInv /\ FeedInv => HistoryDelivered
  BY DEF FeedInv
<1> QED
  BY <1>1, FeedCorrect, PTL

\* No job gets to an index server that the conditions on the metadata exclude from the
\* feed, by match_feed, match_feed_multi or feed_query_callback, whatever
\* is_feed_matching reads of the array of names that it overruns, and however many tags
\* it misses.
THEOREM OnlyMatchingJobs == Spec => []OnlyMatching
<1>1. TypeInv /\ FeedInv => OnlyMatching
  BY DEF FeedInv
<1> QED
  BY <1>1, FeedCorrect, PTL

-----------------------------------------------------------------------------
(* Feeds whose queries are about metadata only are kept up to date.         *)

\* The queries have conditions on the metadata only, and those of history feeds have one.
MetadataOnly ==
  \A f \in Feed :
    /\ \A i \in DOMAIN Query[f] : Query[f][i] = Owner
    /\ f \in History => Query[f] # <<>>

OwnerFits(f, j) == \A i \in DOMAIN Query[f] : Fitting(f, j, Query[f][i])

\* Work that does not fail, and no history of a feed that was there from the beginning.
Sound(w) ==
  /\ w.kind # "freed"
  /\ w.kind = "run" => w.feed \in History \ Subscribed

SoundQueue(q) == \A k \in 1 .. Len(q) : Sound(q[k])

\* A process that knows the feeds and will do what is queued, or go through the jobs of its
\* call.
Live(p) ==
  /\ p.pc # "dead" /\ Subscribed \subseteq p.cache
  /\ p.pc \in Recording \cup {"idle"} => p.queue = <<>>
  /\ p.pc \in {"run", "past"} => Head(p.queue).kind = "run" /\ p.feed \cap Subscribed = {}
  /\ p.pc \in Recording => \A w \in p.call : p.left \subseteq w.jobs
  /\ p.pc \in Filing => \A w \in p.call : p.job \subseteq w.jobs
  /\ SoundQueue(p.queue)

\* Attribute a of job j is of the call that is going on.
InCallOf(p, j, a) == p.pc \in Recording /\ \E w \in p.call : j \in w.jobs /\ a \in w.attrs

\* It is in the k-th function of the queue.
Queued(p, k, j, a) ==
  /\ k \in 1 .. Len(p.queue) /\ p.queue[k].kind \in MatchKinds
  /\ j \in p.queue[k].jobs /\ a \in p.queue[k].attrs

\* The function being done has not got past feed f with job j.
Ahead(p, f, j) ==
  \/ p.pc = "deferred"
  \/ f \in p.todo
  \/ p.pc \in {"next", "find", "check"} /\ f \in p.feed /\ j \in p.jobs
  \/ p.pc \in {"next", "find"} /\ f \in p.feed /\ j \in p.left
  \/ p.pc = "find" /\ f \in p.feed /\ j \in p.job

\* The attribute is about to be sent to the feed, or is read to be sent.
Bearing(p, f, j, a) ==
  \/ p.pc = "send" /\ f \in p.feed /\ \E r \in p.batch : r[1] = j /\ a \in r[2]
  \/ p.pc = "full" /\ f \in p.feed /\ j \in p.job /\ a \in p.ask \cup p.got

\* The process will send attribute a of job j to feed f.
Pending(p, f, j, a) ==
  \/ InCallOf(p, j, a)
  \/ Bearing(p, f, j, a)
  \/ \E k \in Nat : Queued(p, k, j, a) /\ (k > 1 \/ Ahead(p, f, j))

Covered(f, j, a) == a \in index[f][j] \/ \E s \in Slave : Pending(slave[s], f, j, a)

\* The process has sent, or is sending, all of the job and will mark it.
Marking(p, f, j) == p.pc \in {"full", "send", "mark"} /\ f \in p.feed /\ j \in p.mark

Whole(f, j) == <<f, j>> \in fed \/ \E s \in Slave : Marking(slave[s], f, j)

LiveInv ==
  /\ lost = {} /\ Subscribed \subseteq feeds
  /\ \A s \in Slave : Live(slave[s])
  /\ \A f \in Subscribed, j \in Job \ missed, a \in Attr :
       a \in Held(j) /\ a \in Wants[f] /\ (Whole(f, j) \/ (OwnerFits(f, j) /\ a \notin Old[j]))
         => Covered(f, j, a)

\* The verdict of is_feed_matching on conditions on the metadata, which it has got.
LEMMA MatchMetadata ==
  ASSUME MetadataOnly, NEW f \in Feed, NEW j \in Job, NEW A, NEW got,
         Asked(f, j, A) \cap {Owner} \subseteq got
  PROVE  Matching(f, j, A, got) = IF OwnerFits(f, j) THEN {"match"} ELSE {"no"}
<1> DEFINE q == Query[f]
           known == {k \in DOMAIN q : q[k] \in A}
           missing == DOMAIN q \ known
           found == {k \in missing : q[k] \in got}
           unfit == {k \in found : ~Fitting(f, j, q[k])}
<1>1. Matching(f, j, A, got) =
        IF \E k \in known : ~Fitting(f, j, q[k]) THEN {"no"}
        ELSE IF missing = {} THEN {"match"}
        ELSE IF \E k \in missing, h \in known : h < k
             THEN {"no", "crash"} \cup
                    (IF \E k \in unfit : k <= Cardinality(missing) THEN {} ELSE {"match"})
        ELSE IF found = {} THEN {"match", "crash"}
        ELSE IF found # missing \/ unfit # {} THEN {"no"}
        ELSE {"match"}
  BY DEF Matching
<1>2. \A i \in DOMAIN q : q[i] = Owner
  BY DEF MetadataOnly
<1>3. known = {} => missing = DOMAIN q
  OBVIOUS
<1>4. known = {} \/ known = DOMAIN q
  BY <1>2
<1>5. known = {} => found = missing
  <2> SUFFICES ASSUME known = {}, NEW i \in missing PROVE Owner \in got
    BY <1>2
  <2>1. q \in Seq(Attr) /\ DOMAIN q = 1 .. Len(q) /\ Len(q) \in Nat /\ i \in 1 .. Len(q)
    BY FeedingAssumption
  <2>2. Cardinality(1 .. Len(q)) = Len(q)
    <3>1. 1 \in Int /\ Len(q) \in Int /\ 1 <= Len(q) /\ Len(q) - 1 + 1 = Len(q)
      BY <2>1
    <3> QED
      BY <3>1, FS_Interval
  <2>3. 1 \in missing /\ 1 <= Cardinality(missing) /\ q[1] = Owner
    <3>1. missing = DOMAIN q
      BY <1>3
    <3>2. missing = 1 .. Len(q)
      BY <2>1, <3>1
    <3> HIDE DEF missing, q
    <3>3. 1 <= Len(q) /\ 1 \in 1 .. Len(q)
      BY <2>1
    <3>6. Cardinality(missing) = Len(q)
      BY <2>2, <3>2
    <3>4. 1 \in missing
      BY <3>2, <3>3
    <3>5. q[1] = Owner
      BY <1>2, <3>1, <3>4
    <3> QED
      BY <3>3, <3>4, <3>5, <3>6
  <2>4. missing = {k \in DOMAIN q : q[k] \notin A} /\ DOMAIN q \ {k \in DOMAIN q : q[k] \notin A} = known
    OBVIOUS
  <2>5. Asked(f, j, A) = IF \E k \in known : ~Fitting(f, j, q[k]) THEN {}
                         ELSE {q[k] : k \in {h \in missing : h <= Cardinality(missing)}}
    BY <2>4 DEF Asked
  <2>6. Owner \in Asked(f, j, A)
    BY <2>3, <2>5
  <2> QED
    BY <2>6
<1>6. OwnerFits(f, j) <=> \A k \in DOMAIN q : Fitting(f, j, q[k])
  BY DEF OwnerFits
<1>7. known = {} => (unfit = {} <=> \A k \in missing : Fitting(f, j, q[k]))
  BY <1>5
<1>9. known = DOMAIN q => missing = {}
  OBVIOUS
<1> HIDE DEF known, missing, found, unfit, q
<1>10. CASE known = {}
  BY <1>1, <1>5, <1>6, <1>7, <1>3, <1>10
<1>11. CASE known = DOMAIN q
  BY <1>1, <1>6, <1>9, <1>11
<1> QED
  BY <1>4, <1>10, <1>11

\* A job that was sent, or is, is one that the metadata do not exclude.
LEMMA WholeFits ==
  ASSUME TypeInv, FeedInv, LiveInv, MetadataOnly, NEW f \in Feed, NEW j \in Job, Whole(f, j)
  PROVE  OwnerFits(f, j)
<1>1. MetadataFirst(f)
  BY DEF MetadataOnly, MetadataFirst
<1>2. OwnerOK(f, j) => OwnerFits(f, j)
  BY <1>1 DEF OwnerOK, OwnerFits, MetadataOnly
<1>3. index[f][j] # {} => OwnerOK(f, j)
  BY DEF FeedInv, OnlyMatching, OwnerOK
<1>4. CASE <<f, j>> \in fed
  <2>1. index[<<f, j>>[1]][<<f, j>>[2]] # {}
    BY <1>4 DEF FeedInv, FedMeansDelivered, LiveInv
  <2>2. index[f][j] # {}
    BY <2>1
  <2> QED
    BY <1>2, <1>3, <2>2
<1>5. ASSUME NEW s \in Slave, Marking(slave[s], f, j) PROVE OwnerOK(f, j)
  <2>1. f \in slave[s].feed /\ j \in slave[s].mark /\ Honest(slave[s], before, index, lost)
    BY <1>5 DEF Marking, FeedInv
  <2>2. CASE slave[s].pc = "send"
    <3> PICK r \in slave[s].batch : r[1] = j
      BY <2>1, <2>2 DEF Honest
    <3> QED
      BY <2>1, <2>2 DEF Honest
  <2>3. CASE slave[s].pc = "mark"
    BY <1>3, <2>1, <2>3 DEF Honest
  <2>4. CASE slave[s].pc = "full"
    BY <2>1, <2>4 DEF Honest
  <2> QED
    BY <1>5, <2>2, <2>3, <2>4 DEF Marking
<1> QED
  BY <1>2, <1>4, <1>5 DEF Whole

\* What slave s had to send is sent, or left for x to send, unless it was missed.
Carries(s, x) ==
  \A f \in Subscribed, j \in Job \ missed', a \in Attr :
    OwnerFits(f, j) /\ a \in Held(j) /\ a \in Wants[f] /\ Pending(slave[s], f, j, a)
      => Pending(x, f, j, a) \/ a \in index'[f][j]

\* What is new is left for x to send.
Stores(x) ==
  \A f \in Subscribed, j \in Job \ missed', a \in Attr :
    a \in Wants[f] /\ (a \in stored'[j] \/ (x.pc \in Filing /\ x.job = {j} /\ a \in x.got))
      => a \in Held(j) \/ Pending(x, f, j, a)

\* Jobs are marked when they are sent as a whole.
Marks(x) ==
  /\ \A f \in Subscribed, j \in Job : <<f, j>> \in fed' => Whole(f, j)
  /\ \A f \in Subscribed, j \in Job \ missed', a \in Attr :
       Marking(x, f, j) /\ a \in Wants[f] => Whole(f, j) \/ Pending(x, f, j, a)

LEMMA HeldStored ==
  ASSUME NEW j, NEW a, a \in stored[j]
  PROVE  a \in Held(j)
BY DEF Held

\* What is in memory while the file is rewritten is held.
LEMMA HeldFiling ==
  ASSUME NEW s \in Slave, NEW j, NEW a, slave[s].pc \in Filing, slave[s].job = {j}, a \in slave[s].got
  PROVE  a \in Held(j)
BY DEF Held, Filing

\* Tags are in the file or in the memory of a slave.
LEMMA HeldMove ==
  ASSUME NEW s \in Slave, NEW x, Moves(s, x), NEW j, NEW a, a \in Held(j)'
  PROVE  a \in stored'[j] \/ a \in Held(j) \/ (x.pc \in Filing /\ x.job = {j} /\ a \in x.got)
<1>1. CASE a \in stored'[j]
  BY <1>1
<1>2. CASE a \notin stored'[j]
  <2>1. PICK t \in Slave : slave'[t].pc \in Filing /\ slave'[t].job = {j} /\ a \in slave'[t].got
    BY <1>2 DEF Held, Filing
  <2>2. CASE t = s
    BY <2>1, <2>2 DEF Moves
  <2>3. CASE t # s
    <3>1. slave'[t] = slave[t]
      BY <2>3 DEF Moves
    <3> QED
      BY <2>1, <3>1, HeldFiling
  <2> QED
    BY <2>2, <2>3
<1> QED
  BY <1>1, <1>2

LEMMA LiveMove ==
  ASSUME TypeInv, FeedInv, LiveInv, MetadataOnly, NEW s \in Slave, NEW x, Moves(s, x), Live(x),
         lost' = {}, Subscribed \subseteq feeds', missed \subseteq missed',
         \A f \in Feed, j \in Job : index[f][j] \subseteq index'[f][j],
         Carries(s, x), Stores(x), Marks(x)
  PROVE  LiveInv'
<1>1. \A t \in Slave : Live(slave'[t])
  BY DEF LiveInv, Moves
<1>2. ASSUME NEW f \in Subscribed, NEW j \in Job \ missed', NEW a \in Attr, a \in Held(j)',
             a \in Wants[f], Whole(f, j)' \/ (OwnerFits(f, j) /\ a \notin Old[j])
      PROVE  Covered(f, j, a)'
  <2>1. slave'[s] = x /\ f \in Feed /\ j \in Job /\ j \notin missed
    BY FeedingAssumption DEF Moves
  <2>2. CASE Pending(x, f, j, a)
    BY <2>1, <2>2 DEF Covered
  <2>3. CASE ~Pending(x, f, j, a)
    <3>1. a \in Held(j)
      BY <1>2, <2>3, HeldMove DEF Stores
    <3>2. Whole(f, j) \/ (OwnerFits(f, j) /\ a \notin Old[j])
      <4>1. CASE <<f, j>> \in fed'
        BY <2>1, <4>1 DEF Marks
      <4>2. ASSUME NEW t \in Slave, Marking(slave'[t], f, j) PROVE Whole(f, j)
        <5>1. CASE t = s
          BY <1>2, <2>1, <2>3, <4>2, <5>1 DEF Marks
        <5>2. CASE t # s
          BY <4>2, <5>2 DEF Moves, Whole
        <5> QED
          BY <5>1, <5>2
      <4> QED
        BY <1>2, <4>1, <4>2 DEF Whole
    <3>3. OwnerFits(f, j)
      BY <2>1, <3>2, WholeFits
    <3>4. Covered(f, j, a)
      BY <1>2, <2>1, <3>1, <3>2 DEF LiveInv
    <3>5. CASE a \in index[f][j]
      BY <2>1, <3>5 DEF Covered
    <3>6. ASSUME NEW t \in Slave, Pending(slave[t], f, j, a) PROVE Covered(f, j, a)'
      <4>1. CASE t = s
        BY <1>2, <2>3, <3>1, <3>3, <3>6, <4>1 DEF Carries, Covered
      <4>2. CASE t # s
        <5>1. slave'[t] = slave[t]
          BY <4>2 DEF Moves
        <5> QED
          BY <3>6, <5>1 DEF Covered
      <4> QED
        BY <4>1, <4>2
    <3> QED
      BY <3>4, <3>5, <3>6 DEF Covered
  <2> QED
    BY <2>2, <2>3
<1> QED
  BY <1>1, <1>2 DEF LiveInv

\* A step that stores, sends and marks nothing.
LEMMA LiveKept ==
  ASSUME TypeInv, FeedInv, LiveInv, MetadataOnly, NEW s \in Slave, NEW x, Moves(s, x), Live(x),
         UNCHANGED <<stored, index, lost>>, fed' \subseteq fed, Subscribed \subseteq feeds',
         missed \subseteq missed', x.pc \notin {"full", "send", "mark"} \cup Filing, Carries(s, x)
  PROVE  LiveInv'
<1>1. Stores(x)
  BY HeldStored DEF Stores
<1>2. Marks(x)
  BY DEF Marks, Marking, Whole
<1>3. lost' = {} /\ \A f \in Feed, j \in Job : index[f][j] \subseteq index'[f][j]
  BY DEF LiveInv
<1> QED
  BY <1>1, <1>2, <1>3, LiveMove

\* A slave at rest has nothing to send.
LEMMA IdleCarries ==
  ASSUME LiveInv, NEW s \in Slave, slave[s].pc = "idle", NEW x
  PROVE  Carries(s, x)
<1>1. slave[s].queue = <<>>
  BY DEF LiveInv, Live
<1>2. \A j, a : ~InCallOf(slave[s], j, a)
  BY DEF InCallOf, Recording
<1> QED
  BY <1>1, <1>2 DEF Carries, Pending, Bearing, Queued

\* The function that will match what is new is in the queue.
LEMMA Deferring ==
  ASSUME TypeInv, LiveInv, NEW s \in Slave, slave[s].pc \in Recording \cup {"idle"},
         NEW x, NEW w \in Work, w.kind \in MatchKinds, Defers(s, x, w)
  PROVE  /\ Live(x)
         /\ \A f, j, a : j \in w.jobs /\ a \in w.attrs => Pending(x, f, j, a)
<1>1. slave[s].queue = <<>> /\ Subscribed \subseteq slave[s].cache
  BY DEF LiveInv, Live
<1>2. x.queue = <<w>> /\ Len(x.queue) = 1 /\ x.queue[1] = w /\ x.pc = "deferred"
  BY <1>1 DEF Defers
<1>3. Sound(w)
  BY DEF Sound, MatchKinds
<1>4. Live(x)
  BY <1>1, <1>2, <1>3 DEF Live, SoundQueue, Defers, Recording, Filing
<1>5. ASSUME NEW f, NEW j, NEW a, j \in w.jobs, a \in w.attrs PROVE Pending(x, f, j, a)
  <2>1. Queued(x, 1, j, a) /\ Ahead(x, f, j)
    BY <1>2, <1>5 DEF Queued, Ahead
  <2> QED
    BY <2>1 DEF Pending
<1> QED
  BY <1>4, <1>5

\* A call that stores attributes at once: they are in the queue.
LEMMA CallLive ==
  ASSUME TypeInv, FeedInv, LiveInv, MetadataOnly, NEW s \in Slave, NEW x, slave[s].pc = "idle",
         NEW w \in Work, w.kind \in MatchKinds, Defers(s, x, w),
         \A j \in Job, a \in Attr : a \in stored'[j] => a \in stored[j] \/ (j \in w.jobs /\ a \in w.attrs),
         UNCHANGED <<index, lost, fed, feeds, missed>>
  PROVE  LiveInv'
<1>1. /\ Live(x) /\ x.pc = "deferred" /\ Moves(s, x)
      /\ \A f, j, a : j \in w.jobs /\ a \in w.attrs => Pending(x, f, j, a)
  BY Deferring DEF Defers
<1>2. Carries(s, x)
  BY IdleCarries
<1>3. Stores(x)
  BY <1>1, HeldStored DEF Stores, Filing, Recording
<1>4. Marks(x)
  BY <1>1 DEF Marks, Marking, Whole
<1>5. /\ lost' = {} /\ Subscribed \subseteq feeds' /\ missed \subseteq missed'
      /\ \A f \in Feed, j \in Job : index[f][j] \subseteq index'[f][j]
  BY DEF LiveInv
<1> QED
  BY <1>1, <1>2, <1>3, <1>4, <1>5, LiveMove

LEMMA RegisterJobLive ==
  ASSUME TypeInv, FeedInv, LiveInv, MetadataOnly, NEW s \in Slave, NEW j \in Job, RegisterJob(s, j)
  PROVE  LiveInv'
<1>1. slave[s].pc = "idle" /\ UNCHANGED <<index, lost, fed, feeds, missed>>
  BY DEF RegisterJob, At
<1>2. PICK x \in Process, w \in Work :
        Defers(s, x, w) /\ w.kind = "attr" /\ w.jobs = {j} /\ w.attrs = {Owner}
  BY RegisterJobEffect
<1>3. \A i \in Job : stored'[i] = IF i = j THEN {Owner} ELSE stored[i]
  BY RegisterJobEffect
<1>4. \A i \in Job, a \in Attr : a \in stored'[i] => a \in stored[i] \/ (i \in w.jobs /\ a \in w.attrs)
  BY <1>2, <1>3
<1>5. w.kind \in MatchKinds
  BY <1>2 DEF MatchKinds
<1> QED
  BY <1>1, <1>2, <1>4, <1>5, CallLive

LEMMA CommitUploadLive ==
  ASSUME TypeInv, FeedInv, LiveInv, MetadataOnly, NEW s \in Slave, NEW j \in Job,
         NEW A, A \in SUBSET FileAttr, CommitUpload(s, j, A)
  PROVE  LiveInv'
<1>1. slave[s].pc = "idle" /\ UNCHANGED <<index, lost, fed, feeds, missed>>
  BY DEF CommitUpload, At
<1>2. PICK x \in Process, w \in Work :
        Defers(s, x, w) /\ w.kind = "file" /\ w.jobs = {j} /\ w.attrs = A
  BY CommitUploadEffect
<1>3. Adds(j, A)
  BY CommitUploadEffect
<1>4. \A i \in Job, a \in Attr : a \in stored'[i] => a \in stored[i] \/ (i \in w.jobs /\ a \in w.attrs)
  BY <1>2, <1>3 DEF Adds
<1>5. w.kind \in MatchKinds
  BY <1>2 DEF MatchKinds
<1> QED
  BY <1>1, <1>2, <1>4, <1>5, CallLive

LEMMA RecordTagsLive ==
  ASSUME TypeInv, FeedInv, LiveInv, MetadataOnly, NEW s \in Slave, NEW k \in {"attr", "multi"},
         NEW J \in SUBSET Job, NEW a \in Tag, RecordTags(s, k, J, a)
  PROVE  LiveInv'
<1>1. slave[s].pc = "idle" /\ UNCHANGED <<stored, index, lost, fed, feeds, missed>>
  BY DEF RecordTags, At
<1>2. PICK x \in Process :
        /\ Moves(s, x) /\ x.pc = "open" /\ x.cache = slave[s].cache
        /\ x.queue = slave[s].queue /\ Proc(x, asked)
        /\ \A w \in x.call : x.left \subseteq w.jobs
  BY RecordTagsEffect
<1>3. slave[s].queue = <<>> /\ Subscribed \subseteq slave[s].cache
  BY <1>1 DEF LiveInv, Live
<1>4. x.pc \notin Filing /\ x.pc \notin {"full", "send", "mark"}
  BY <1>2 DEF Filing
<1>5. Live(x)
  BY <1>2, <1>3, <1>4 DEF Live, SoundQueue
<1>6. Carries(s, x)
  BY <1>1, IdleCarries
<1>7. fed' \subseteq fed /\ Subscribed \subseteq feeds' /\ missed \subseteq missed'
  BY <1>1 DEF LiveInv
<1> QED
  BY <1>1, <1>2, <1>4, <1>5, <1>6, <1>7, LiveKept

\* A slave in a call has only the call to finish.
LEMMA InCallPending ==
  ASSUME TypeInv, LiveInv, NEW s \in Slave, slave[s].pc \in Recording,
         NEW f, NEW j, NEW a, Pending(slave[s], f, j, a)
  PROVE  j \in CallOf(s).jobs /\ a \in CallOf(s).attrs
<1>1. slave[s].queue = <<>>
  BY DEF LiveInv, Live
<1>2. slave[s].call = {CallOf(s)}
  BY InCall
<1>3. InCallOf(slave[s], j, a)
  BY <1>1 DEF Pending, Bearing, Queued, Recording
<1> QED
  BY <1>2, <1>3 DEF InCallOf

\* The slave goes on with its call.
LEMMA RecordsLive ==
  ASSUME TypeInv, LiveInv, NEW s \in Slave, slave[s].pc \in Recording, NEW x, Records(s, x),
         x.pc \in Filing => x.job \subseteq slave[s].left \/ (slave[s].pc \in Filing /\ x.job = slave[s].job)
  PROVE  /\ Live(x) /\ Carries(s, x) /\ Moves(s, x) /\ x.pc \notin {"full", "send", "mark"}
         /\ \A f, j, a : j \in CallOf(s).jobs /\ a \in CallOf(s).attrs => Pending(x, f, j, a)
<1>1. /\ Moves(s, x) /\ x.pc \in Recording /\ x.queue = slave[s].queue /\ x.cache = slave[s].cache
      /\ x.call = slave[s].call /\ x.left \subseteq slave[s].left
  BY DEF Records
<1>2. slave[s].call = {CallOf(s)}
  BY InCall
<1>3. \A f, j, a : j \in CallOf(s).jobs /\ a \in CallOf(s).attrs => Pending(x, f, j, a)
  BY <1>1, <1>2 DEF Pending, InCallOf
<1>4. Carries(s, x)
  BY <1>3, InCallPending DEF Carries
<1>5. /\ slave[s].queue = <<>> /\ Subscribed \subseteq slave[s].cache
      /\ slave[s].left \subseteq CallOf(s).jobs
      /\ slave[s].pc \in Filing => slave[s].job \subseteq CallOf(s).jobs
  BY <1>2 DEF LiveInv, Live
<1>6. Live(x)
  BY <1>1, <1>2, <1>5 DEF Live, SoundQueue, Recording
<1> QED
  BY <1>1, <1>3, <1>4, <1>6 DEF Recording

\* The tags in memory are those of the file, until it is rewritten with them and the one of
\* the call, which is then matched.
LEMMA TaggingLive ==
  ASSUME ~Crashes, TypeInv, FeedInv, LiveInv, MetadataOnly, NEW s \in Slave, Tagging(s)
  PROVE  LiveInv'
<1>0. /\ UNCHANGED <<feeds, fed, index, lost>> /\ lost' = {} /\ Subscribed \subseteq feeds'
      /\ \A f \in Feed, j \in Job : index[f][j] \subseteq index'[f][j]
  BY DEF Tagging, OpenTags, CreateTags, CloseTags, RewriteTags, WriteTags, FailTags, LiveInv
<1>1. ASSUME NEW j \in Job, OpenTags(s, j) PROVE LiveInv'
  <2>0. slave[s].pc \in Recording /\ UNCHANGED stored
    BY <1>1 DEF OpenTags, At, Recording
  <2>1. ASSUME NEW x, Fails(s, x), missed' = missed \cup CallOf(s).jobs PROVE LiveInv'
    <3>1. /\ Moves(s, x) /\ x.pc = "idle" /\ x.queue = slave[s].queue /\ x.cache = slave[s].cache
      BY <2>1 DEF Fails
    <3>2. Live(x)
      BY <2>0, <3>1 DEF LiveInv, Live, Recording, Filing
    <3>3. Carries(s, x)
      BY <2>0, <2>1, InCallPending DEF Carries
    <3>4. x.pc \notin {"full", "send", "mark"} \cup Filing
      BY <3>1 DEF Filing, Recording
    <3> QED
      BY <1>0, <2>0, <2>1, <3>1, <3>2, <3>3, <3>4, LiveKept
  <2>2. ASSUME NEW x, Records(s, x), x.pc \in Filing, x.job = {j}, j \in slave[s].left,
               x.got \subseteq stored[j], missed' = missed
        PROVE  LiveInv'
    <3>1. Live(x) /\ Carries(s, x) /\ Moves(s, x) /\ x.pc \notin {"full", "send", "mark"}
      BY <2>0, <2>2, RecordsLive
    <3>2. Stores(x)
      BY <2>0, <2>2, HeldStored DEF Stores
    <3>3. Marks(x)
      BY <1>0, <3>1 DEF Marks, Marking, Whole
    <3> QED
      BY <1>0, <2>2, <3>1, <3>2, <3>3, LiveMove
  <2> QED
    BY <1>1, <2>1, <2>2, OpenTagsEffect
<1>2. ASSUME CreateTags(s) \/ CloseTags(s) \/ RewriteTags(s) PROVE LiveInv'
  <2>0. /\ slave[s].pc \in Filing /\ slave[s].pc \in Recording /\ missed' = missed
        /\ \A i \in Job : stored'[i] \subseteq stored[i]
    BY <1>2, EmptyTagsEffect DEF Filing
  <2>1. PICK x \in Process : /\ Records(s, x) /\ x.pc \in Filing
                             /\ x.job = slave[s].job /\ x.got = slave[s].got
    BY <1>2, EmptyTagsEffect
  <2>2. Live(x) /\ Carries(s, x) /\ Moves(s, x) /\ x.pc \notin {"full", "send", "mark"}
    BY <2>0, <2>1, RecordsLive
  <2>3. Stores(x)
    BY <2>0, <2>1, HeldStored, HeldFiling DEF Stores
  <2>4. Marks(x)
    BY <1>0, <2>2 DEF Marks, Marking, Whole
  <2> QED
    BY <1>0, <2>0, <2>2, <2>3, <2>4, LiveMove
<1>3. ASSUME WriteTags(s) PROVE LiveInv'
  <2>0. /\ slave[s].pc \in Filing /\ slave[s].pc \in Recording /\ missed' = missed
        /\ \A i \in Job : stored'[i] \subseteq stored[i] \cup
                              (IF slave[s].job = {i} THEN slave[s].got \cup CallOf(s).attrs ELSE {})
    BY <1>3, WriteTagsEffect DEF Filing
  <2>1. CallOf(s) \in Work /\ CallOf(s).kind \in MatchKinds /\ slave[s].call = {CallOf(s)}
    BY <2>0, InCall
  <2>2. slave[s].job \subseteq CallOf(s).jobs
    BY <2>0, <2>1 DEF LiveInv, Live
  <2>3. \A j \in Job, a \in Attr :
          a \in stored'[j] => a \in Held(j) \/ (j \in CallOf(s).jobs /\ a \in CallOf(s).attrs)
    <3> SUFFICES ASSUME NEW j \in Job, NEW a \in Attr, a \in stored'[j], a \notin Held(j)
                 PROVE  j \in CallOf(s).jobs /\ a \in CallOf(s).attrs
      OBVIOUS
    <3>1. a \notin stored[j]
      BY HeldStored
    <3>2. slave[s].job = {j} /\ (a \in slave[s].got \/ a \in CallOf(s).attrs)
      BY <2>0, <3>1
    <3>3. a \notin slave[s].got
      BY <2>0, <3>2, HeldFiling
    <3> QED
      BY <2>2, <3>2, <3>3
  <2>4. ASSUME NEW x, x.pc \notin {"full", "send", "mark"} \cup Filing,
               Live(x), Carries(s, x), Moves(s, x),
               \A f, j, a : j \in CallOf(s).jobs /\ a \in CallOf(s).attrs => Pending(x, f, j, a)
        PROVE  LiveInv'
    <3>1. Stores(x)
      BY <2>3, <2>4 DEF Stores
    <3>2. Marks(x)
      BY <1>0, <2>4 DEF Marks, Marking, Whole
    <3> QED
      BY <1>0, <2>0, <2>4, <3>1, <3>2, LiveMove
  <2>5. ASSUME NEW x, Records(s, x), x.pc = "open" PROVE LiveInv'
    <3>1. x.pc \notin {"full", "send", "mark"} \cup Filing
      BY <2>5 DEF Filing
    <3>2. /\ Live(x) /\ Carries(s, x) /\ Moves(s, x)
          /\ \A f, j, a : j \in CallOf(s).jobs /\ a \in CallOf(s).attrs => Pending(x, f, j, a)
      BY <2>0, <2>5, <3>1, RecordsLive
    <3> QED
      BY <2>4, <3>1, <3>2
  <2>6. ASSUME NEW x, Defers(s, x, CallOf(s)) PROVE LiveInv'
    <3>1. /\ Live(x)
          /\ \A f, j, a : j \in CallOf(s).jobs /\ a \in CallOf(s).attrs => Pending(x, f, j, a)
      BY <2>0, <2>1, <2>6, Deferring
    <3>2. Carries(s, x)
      BY <2>0, <3>1, InCallPending DEF Carries
    <3>3. x.pc \notin {"full", "send", "mark"} \cup Filing /\ Moves(s, x)
      BY <2>6 DEF Filing, Recording, Defers
    <3> QED
      BY <2>4, <3>1, <3>2, <3>3
  <2> QED
    BY <1>3, <2>5, <2>6, WriteTagsEffect
<1>4. ~FailTags(s)
  BY DEF FailTags
<1> QED
  BY <1>1, <1>2, <1>3, <1>4 DEF Tagging

LEMMA SoundConcat ==
  ASSUME NEW q \in Seq(Work), NEW r \in Seq(Work), SoundQueue(q), SoundQueue(r)
  PROVE  q \o r \in Seq(Work) /\ SoundQueue(q \o r)
<1>1. /\ q \o r \in Seq(Work) /\ Len(q \o r) = Len(q) + Len(r) /\ Len(q) \in Nat /\ Len(r) \in Nat
      /\ \A k \in 1 .. Len(q \o r) : (q \o r)[k] = IF k <= Len(q) THEN q[k] ELSE r[k - Len(q)]
  OBVIOUS
<1>2. \A k \in 1 .. Len(q \o r) :
        IF k <= Len(q) THEN k \in 1 .. Len(q) ELSE k - Len(q) \in 1 .. Len(r)
  BY <1>1
<1> QED
  BY <1>1, <1>2 DEF SoundQueue

LEMMA FeedIndexLive ==
  ASSUME TypeInv, FeedInv, LiveInv, MetadataOnly, NEW s \in Slave, NEW f \in Feed, FeedIndex(s, f)
  PROVE  LiveInv'
<1>0. PICK x \in Process :
        /\ Moves(s, x) /\ x.pc = "deferred" /\ x.cache = slave[s].cache
        /\ x.queue = slave[s].queue \o (Run(f) \o Register(f))
  BY FeedIndexEffect
<1>1. slave[s].pc = "idle" /\ f \notin asked /\ UNCHANGED <<stored, index, lost, fed, feeds, missed>>
  BY DEF FeedIndex, At
<1>2. slave[s].queue = <<>> /\ Subscribed \subseteq slave[s].cache
  BY <1>1 DEF LiveInv, Live
<1>3. f \notin Subscribed
  BY <1>1 DEF LiveInv, TypeInv, Tables
<1> PICK w : w = [kind |-> "run", feed |-> f]
  OBVIOUS
<1> PICK v : v = [kind |-> "register", feed |-> f]
  OBVIOUS
<1>4. f \in History => Sound(w)
  BY <1>3 DEF Sound
<1>5. Sound(v)
  BY DEF Sound
<1>6. /\ Run(f) = (IF f \in History THEN <<w>> ELSE <<>>)
      /\ Register(f) = (IF f \in Continuous THEN <<v>> ELSE <<>>)
  BY DEF Run, Register
<1>7. Run(f) \in Seq(Work) /\ Register(f) \in Seq(Work) /\ <<>> \in Seq(Work)
  <2>1. w \in Work /\ v \in Work
    BY DEF Work
  <2>2. <<w>> \in Seq(Work) /\ <<v>> \in Seq(Work) /\ <<>> \in Seq(Work)
    BY <2>1
  <2> QED
    BY <1>6, <2>2
<1>8. SoundQueue(Run(f)) /\ SoundQueue(Register(f)) /\ SoundQueue(<<>>)
  BY <1>4, <1>5, <1>6 DEF SoundQueue
<1>9. SoundQueue(x.queue)
  BY <1>0, <1>2, <1>7, <1>8, SoundConcat
<1>10. Live(x) /\ x.pc \notin {"full", "send", "mark"} \cup Filing
  BY <1>0, <1>2, <1>9 DEF Live, Filing, Recording
<1>11. Carries(s, x)
  BY <1>1, IdleCarries
<1>12. fed' \subseteq fed /\ Subscribed \subseteq feeds' /\ missed \subseteq missed'
  BY <1>1 DEF LiveInv
<1> QED
  BY <1>0, <1>1, <1>10, <1>11, <1>12, LiveKept

\* A function is done, with nothing of it left to send: the rest is still queued.
LEMMA DoneLive ==
  ASSUME TypeInv, FeedInv, LiveInv, MetadataOnly, NEW s \in Slave, NEW x, Ends(s, x),
         slave[s].queue # <<>>, slave[s].pc \notin Recording \cup {"send", "full"},
         \A f \in Subscribed, j \in Job, a \in Attr : Queued(slave[s], 1, j, a) => ~Ahead(slave[s], f, j),
         UNCHANGED <<stored, index, lost, fed, missed>>, Subscribed \subseteq feeds'
  PROVE  LiveInv'
<1>0. /\ Moves(s, x) /\ x.pc \in {"idle", "deferred"} /\ x.queue = Tail(slave[s].queue)
      /\ x.cache = slave[s].cache /\ (x.pc = "idle" => x.queue = <<>>)
  BY DEF Ends
<1> PICK q \in Seq(Work) : q = slave[s].queue
  BY ProcessType
<1>1. /\ Tail(q) \in Seq(Work) /\ Len(Tail(q)) = Len(q) - 1 /\ Len(q) \in Nat
      /\ \A k \in 1 .. Len(Tail(q)) : Tail(q)[k] = q[k + 1] /\ k + 1 \in 1 .. Len(q)
  OBVIOUS
<1>2. SoundQueue(x.queue)
  BY <1>0, <1>1 DEF LiveInv, Live, SoundQueue
<1>3. Live(x) /\ x.pc \notin {"full", "send", "mark"} \cup Filing
  BY <1>0, <1>2 DEF LiveInv, Live, Filing, Recording
<1>4. Carries(s, x)
  <2> SUFFICES ASSUME NEW f \in Subscribed, NEW j \in Job, NEW a \in Attr, Pending(slave[s], f, j, a)
               PROVE  Pending(x, f, j, a)
    BY DEF Carries
  <2> PICK k \in Nat : Queued(slave[s], k, j, a) /\ (k > 1 \/ Ahead(slave[s], f, j))
    BY DEF Pending, Bearing, InCallOf
  <2>1. k # 1
    <3>1. ASSUME k = 1 PROVE FALSE
      <4>1. Queued(slave[s], 1, j, a) /\ ~(k > 1)
        BY <3>1
      <4> QED
        BY <4>1
    <3> QED
      BY <3>1
  <2>2. k \in 1 .. Len(q) /\ q[k].kind \in MatchKinds /\ j \in q[k].jobs /\ a \in q[k].attrs
    BY DEF Queued
  <2> PICK h \in Nat : h = k - 1
    BY <2>2
  <2>3. h \in 1 .. Len(Tail(q)) /\ Tail(q)[h] = q[k]
    <3>1. h \in 1 .. Len(Tail(q)) /\ h + 1 = k
      BY <1>1, <2>1, <2>2
    <3> QED
      BY <1>1, <3>1
  <2>4. Queued(x, h, j, a)
    BY <1>0, <2>2, <2>3 DEF Queued
  <2>5. x.queue # <<>>
    <3>1. h \in Nat /\ 1 <= h /\ h <= Len(Tail(q)) /\ Len(Tail(q)) # 0
      BY <1>1, <2>3
    <3>2. Tail(q) # <<>>
      BY <3>1
    <3> QED
      BY <1>0, <3>2
  <2>6. Ahead(x, f, j)
    BY <1>0, <2>5 DEF Ahead
  <2> QED
    BY <2>4, <2>6 DEF Pending
<1>5. fed' \subseteq fed /\ missed \subseteq missed'
  OBVIOUS
<1> QED
  BY <1>0, <1>3, <1>4, <1>5, LiveKept

\* The slave goes on with the same queue.
LEMMA OnLive ==
  ASSUME LiveInv, NEW s \in Slave, NEW x, GoesOn(s, x), x.pc \in MatchAt \cup {"run", "past"},
         x.pc \in {"run", "past"} => Head(x.queue).kind = "run" /\ x.feed \cap Subscribed = {}
  PROVE  Live(x)
BY DEF LiveInv, Live, GoesOn, MatchAt, Recording, Filing

\* What is queued behind the function being done stays there, and the function has still
\* to come to the feeds it had to.
LEMMA OnCarries ==
  ASSUME NEW s \in Slave, NEW x, GoesOn(s, x), slave[s].pc \notin Recording,
         \A f \in Subscribed, j \in Job \ missed', a \in Attr :
            /\ OwnerFits(f, j) /\ a \in Wants[f]
            /\ Queued(slave[s], 1, j, a) /\ Ahead(slave[s], f, j)
            => Ahead(x, f, j) \/ Bearing(x, f, j, a),
         \A f \in Subscribed, j \in Job \ missed', a \in Attr :
            a \in Held(j) /\ Bearing(slave[s], f, j, a) => a \in index'[f][j] \/ Bearing(x, f, j, a)
  PROVE  Carries(s, x)
<1> SUFFICES ASSUME NEW f \in Subscribed, NEW j \in Job \ missed', NEW a \in Attr,
                    OwnerFits(f, j), a \in Held(j), a \in Wants[f], Pending(slave[s], f, j, a)
             PROVE  Pending(x, f, j, a) \/ a \in index'[f][j]
  BY DEF Carries
<1>1. \A k \in Nat : Queued(slave[s], k, j, a) => Queued(x, k, j, a)
  BY DEF Queued, GoesOn
<1>2. CASE Bearing(slave[s], f, j, a)
  BY <1>2 DEF Pending
<1>3. ASSUME NEW k \in Nat, Queued(slave[s], k, j, a), k > 1 PROVE Pending(x, f, j, a)
  BY <1>1, <1>3 DEF Pending
<1>4. ASSUME Queued(slave[s], 1, j, a), Ahead(slave[s], f, j) PROVE Pending(x, f, j, a)
  BY <1>1, <1>4 DEF Pending
<1>5. \A k \in Nat : Queued(slave[s], k, j, a) => k > 1 \/ k = 1
  <2> SUFFICES ASSUME NEW k \in Nat, k \in 1 .. Len(slave[s].queue) PROVE k > 1 \/ k = 1
    BY DEF Queued
  <2> QED
    OBVIOUS
<1> QED
  BY <1>2, <1>3, <1>4, <1>5 DEF Pending, InCallOf

\* What the function at the head of the queue is about.
LEMMA QueuedHead ==
  ASSUME TypeInv, NEW s \in Slave, slave[s].queue # <<>>, NEW j, NEW a, Queued(slave[s], 1, j, a)
  PROVE  /\ j \in Head(slave[s].queue).jobs /\ a \in Head(slave[s].queue).attrs
         /\ Head(slave[s].queue).kind \in MatchKinds
<1>1. slave[s].queue \in Seq(Work)
  BY ProcessType
<1>2. Head(slave[s].queue) = slave[s].queue[1]
  BY <1>1
<1> QED
  BY <1>2 DEF Queued

\* A slave goes on without sending or marking anything.
LEMMA OnStill ==
  ASSUME TypeInv, FeedInv, LiveInv, MetadataOnly, NEW s \in Slave, NEW x, GoesOn(s, x), Still,
         x.pc \in {"match", "next", "find", "check"},
         slave[s].pc \in {"deferred", "match", "next", "find"},
         \A f \in Subscribed, j \in Job, a \in Attr :
            /\ OwnerFits(f, j) /\ a \in Wants[f]
            /\ Queued(slave[s], 1, j, a) /\ Ahead(slave[s], f, j)
            => Ahead(x, f, j)
  PROVE  LiveInv'
<1>1. /\ UNCHANGED <<stored, index, lost>> /\ fed' \subseteq fed /\ Subscribed \subseteq feeds'
      /\ missed \subseteq missed'
  BY DEF Still, LiveInv
<1>2. x.pc \in MatchAt \cup {"run", "past"} /\ x.pc \notin {"run", "past"}
  BY DEF MatchAt
<1>3. Live(x)
  BY <1>2, OnLive
<1>4. \A f, j, a : ~Bearing(slave[s], f, j, a)
  BY DEF Bearing
<1>5. slave[s].pc \notin Recording
  BY DEF Recording
<1>6. Carries(s, x)
  BY <1>4, <1>5, OnCarries
<1>7. x.pc \notin {"full", "send", "mark"} \cup Filing /\ Moves(s, x)
  BY DEF Filing, Recording, GoesOn
<1> QED
  BY <1>1, <1>3, <1>6, <1>7, LiveKept

LEMMA StartMatchLive ==
  ASSUME ~Crashes, TypeInv, FeedInv, LiveInv, MetadataOnly, NEW s \in Slave, StartMatch(s)
  PROVE  LiveInv'
<1>0. Still /\ slave[s].pc = "deferred" /\ slave[s].queue # <<>>
  BY StartMatchEffect, ProcessType DEF Proc, Recording
<1>1. PICK x \in Process :
        /\ GoesOn(s, x) /\ x.pc = "match"
        /\ x.todo = {f \in slave[s].cache : Head(slave[s].queue).kind = "file"
                                             \/ Wants[f] \cap Head(slave[s].queue).attrs # {}}
  BY StartMatchEffect
<1>2. ASSUME NEW f \in Subscribed, NEW j \in Job, NEW a \in Attr, a \in Wants[f],
             Queued(slave[s], 1, j, a)
      PROVE  Ahead(x, f, j)
  <2>1. a \in Head(slave[s].queue).attrs
    BY <1>0, <1>2, QueuedHead
  <2>2. f \in slave[s].cache
    BY DEF LiveInv, Live
  <2> QED
    BY <1>1, <1>2, <2>1, <2>2 DEF Ahead
<1> QED
  BY <1>0, <1>1, <1>2, OnStill

LEMMA MatchFeedLive ==
  ASSUME TypeInv, FeedInv, LiveInv, MetadataOnly, NEW s \in Slave, MatchFeed(s)
  PROVE  LiveInv'
<1>0. /\ Still /\ slave[s].pc = "match" /\ slave[s].pc \in MatchAt
      /\ UNCHANGED <<stored, index, lost, fed, missed>> /\ Subscribed \subseteq feeds'
  BY MatchFeedEffect DEF Still, LiveInv, MatchAt
<1>1. slave[s].queue # <<>>
  BY <1>0, InMatch
<1>2. ASSUME NEW f, NEW j, Ahead(slave[s], f, j) PROVE f \in slave[s].todo
  BY <1>0, <1>2 DEF Ahead
<1>3. ASSUME NEW x, slave[s].todo = {}, Ends(s, x) PROVE LiveInv'
  <2>1. slave[s].pc \notin Recording \cup {"send", "full"}
    BY <1>0 DEF Recording
  <2>2. \A f \in Subscribed, j \in Job, a \in Attr :
          Queued(slave[s], 1, j, a) => ~Ahead(slave[s], f, j)
    BY <1>2, <1>3
  <2> QED
    BY <1>0, <1>1, <1>3, <2>1, <2>2, DoneLive
<1>4. ASSUME NEW x, NEW f \in slave[s].todo, Takes(s, x, f) PROVE LiveInv'
  <2>1. /\ GoesOn(s, x) /\ x.pc = "next" /\ x.feed = {f} /\ x.todo = slave[s].todo \ {f}
        /\ x.left = Head(slave[s].queue).jobs
    BY <1>4 DEF Takes
  <2>2. ASSUME NEW g \in Subscribed, NEW j \in Job, NEW a \in Attr,
               Queued(slave[s], 1, j, a), Ahead(slave[s], g, j)
        PROVE  Ahead(x, g, j)
    BY <1>1, <1>2, <2>1, <2>2, QueuedHead DEF Ahead
  <2> QED
    BY <1>0, <2>1, <2>2, OnStill
<1> QED
  BY <1>3, <1>4, MatchFeedEffect

LEMMA NextJobLive ==
  ASSUME TypeInv, FeedInv, LiveInv, MetadataOnly, NEW s \in Slave, NextJob(s)
  PROVE  LiveInv'
<1>0. Still /\ slave[s].pc = "next"
  BY NextJobEffect
<1>1. ASSUME NEW x, NEW i \in slave[s].left, Looks(s, x, FeedOf(s), i) PROVE LiveInv'
  <2>1. /\ GoesOn(s, x) /\ x.pc = "find" /\ x.feed = slave[s].feed /\ x.todo = slave[s].todo
        /\ x.left = slave[s].left \ {i} /\ x.job = {i} /\ x.jobs = slave[s].jobs
    BY <1>1 DEF Looks
  <2>2. \A f, j : Ahead(slave[s], f, j) => Ahead(x, f, j)
    BY <1>0, <2>1 DEF Ahead
  <2> QED
    BY <1>0, <2>1, <2>2, OnStill
<1>2. ASSUME NEW x, slave[s].left = {}, slave[s].jobs = {}, Leaves(s, x) PROVE LiveInv'
  <2>1. GoesOn(s, x) /\ x.pc = "match" /\ x.todo = slave[s].todo
    BY <1>2 DEF Leaves
  <2>2. \A f, j : Ahead(slave[s], f, j) => Ahead(x, f, j)
    BY <1>0, <1>2, <2>1 DEF Ahead
  <2> QED
    BY <1>0, <2>1, <2>2, OnStill
<1>3. ASSUME NEW x, slave[s].left = {}, GoesOn(s, x), x.pc = "check", x.feed = slave[s].feed,
             x.todo = slave[s].todo, x.jobs = slave[s].jobs
      PROVE  LiveInv'
  <2>2. \A f, j : Ahead(slave[s], f, j) => Ahead(x, f, j)
    BY <1>0, <1>3 DEF Ahead
  <2> QED
    BY <1>0, <1>3, <2>2, OnStill
<1> QED
  BY <1>1, <1>2, <1>3, NextJobEffect

\* The verdict on a job is about its metadata.
LEMMA FeedMatchesLive ==
  ASSUME TypeInv, FeedInv, LiveInv, MetadataOnly, NEW s \in Slave, FeedMatches(s)
  PROVE  LiveInv'
<1>0. Still /\ slave[s].pc = "find" /\ slave[s].pc \in Reading /\ slave[s].pc \in Handling
  BY FeedMatchesEffect DEF Reading, Handling
<1>1. PICK f \in Feed : f = FeedOf(s) /\ slave[s].feed = {f}
  BY <1>0, InHand
<1>2. PICK j \in Job : j = JobOf(s) /\ slave[s].job = {j}
  BY <1>0, InRead
<1>3. PICK A : A = NewAttrs(slave[s])
  OBVIOUS
<1>4. PICK v, x :
        /\ v \in Matching(f, j, A, slave[s].got)
        /\ (v # "crash" /\ Judges(s, x, v)) \/ v = "crash"
  BY <1>1, <1>2, <1>3, FeedMatchesEffect
<1>5. Asked(f, j, A) \cap {Owner} \subseteq slave[s].got
  BY <1>0, <1>1, <1>2, <1>3 DEF FeedInv, Honest
<1>6. Matching(f, j, A, slave[s].got) = IF OwnerFits(f, j) THEN {"match"} ELSE {"no"}
  BY <1>5, MatchMetadata
<1>7. v # "crash" /\ (OwnerFits(f, j) => v = "match")
  BY <1>4, <1>6
<1>8. /\ GoesOn(s, x) /\ x.pc = "next" /\ x.feed = slave[s].feed /\ x.todo = slave[s].todo
      /\ x.left = slave[s].left
      /\ x.jobs = IF v = "match" THEN slave[s].jobs \cup {j} ELSE slave[s].jobs
  BY <1>2, <1>4, <1>7 DEF Judges
<1>9. ASSUME NEW g, NEW i, OwnerFits(g, i), Ahead(slave[s], g, i) PROVE Ahead(x, g, i)
  <2>1. CASE g \in slave[s].feed /\ i = j
    BY <1>1, <1>7, <1>8, <1>9, <2>1 DEF Ahead
  <2>2. CASE ~(g \in slave[s].feed /\ i = j)
    BY <1>0, <1>2, <1>8, <1>9, <2>2 DEF Ahead
  <2> QED
    BY <2>1, <2>2
<1> QED
  BY <1>0, <1>8, <1>9, OnStill

\* A slave goes on with a function and stores nothing.
LEMMA OnMove ==
  ASSUME TypeInv, FeedInv, LiveInv, MetadataOnly, NEW s \in Slave, NEW x, GoesOn(s, x), Live(x),
         x.pc \in MatchAt \cup {"run", "past"}, UNCHANGED <<stored, feeds>>,
         lost' = {}, missed \subseteq missed',
         \A f \in Feed, j \in Job : index[f][j] \subseteq index'[f][j],
         Carries(s, x), Marks(x)
  PROVE  LiveInv'
<1>1. x.pc \notin Filing /\ Moves(s, x)
  BY DEF MatchAt, Filing, Recording, GoesOn
<1>2. Stores(x)
  BY <1>1, HeldStored DEF Stores
<1>3. Subscribed \subseteq feeds'
  BY DEF LiveInv
<1> QED
  BY <1>1, <1>2, <1>3, LiveMove

\* Everything new the feed asks for, of a job that is marked; or all of it is to be read.
LEMMA CheckFedLive ==
  ASSUME TypeInv, FeedInv, LiveInv, MetadataOnly, NEW s \in Slave, CheckFed(s)
  PROVE  LiveInv'
<1>0. /\ Still /\ slave[s].pc = "check" /\ slave[s].pc \in MatchAt /\ slave[s].pc \in Handling
      /\ slave[s].pc \notin Recording
  BY CheckFedEffect DEF MatchAt, Handling, Recording
<1>1. /\ UNCHANGED <<stored, feeds, fed>> /\ lost' = {} /\ missed \subseteq missed'
      /\ \A f \in Feed, j \in Job : index[f][j] \subseteq index'[f][j]
  BY <1>0 DEF Still, LiveInv
<1>2. slave[s].queue # <<>>
  BY <1>0, InMatch
<1>3. PICK f \in Feed : f = FeedOf(s) /\ slave[s].feed = {f}
  BY <1>0, InHand
<1>4. ASSUME NEW g, NEW j, Ahead(slave[s], g, j)
      PROVE  g \in slave[s].todo \/ (g = f /\ j \in slave[s].jobs)
  BY <1>0, <1>3, <1>4 DEF Ahead
<1>5. \A g, j, a : ~Bearing(slave[s], g, j, a)
  BY <1>0 DEF Bearing
<1>6. ASSUME NEW g \in Subscribed, NEW j, NEW a, a \in Wants[g], Queued(slave[s], 1, j, a)
      PROVE  a \in NewAttrs(slave[s])
  <2>1. a \in Head(slave[s].queue).attrs
    BY <1>2, <1>6, QueuedHead
  <2>2. g \in slave[s].cache
    BY DEF LiveInv, Live
  <2> QED
    BY <1>6, <2>1, <2>2 DEF NewAttrs
<1>7. ASSUME NEW x, SendsNew(s, x) PROVE LiveInv'
  <2>1. /\ GoesOn(s, x) /\ x.pc = "send" /\ x.feed = {f} /\ x.todo = slave[s].todo
        /\ x.batch = {<<j, NewAttrs(slave[s])>> : j \in slave[s].jobs} /\ x.mark = {}
    BY <1>3, <1>7 DEF SendsNew
  <2>2. x.pc \in MatchAt \cup {"run", "past"} /\ x.pc \notin {"run", "past"}
    BY <2>1 DEF MatchAt
  <2>3. Live(x)
    BY <2>1, <2>2, OnLive
  <2>4. ASSUME NEW g \in Subscribed, NEW j \in Job, NEW a \in Attr, a \in Wants[g],
               Queued(slave[s], 1, j, a), Ahead(slave[s], g, j)
        PROVE  Ahead(x, g, j) \/ Bearing(x, g, j, a)
    <3>1. CASE g \in slave[s].todo
      BY <2>1, <3>1 DEF Ahead
    <3>2. CASE g = f /\ j \in slave[s].jobs
      <4>1. a \in NewAttrs(slave[s])
        BY <1>6, <2>4
      <4>2. \E r \in x.batch : r[1] = j /\ a \in r[2]
        <5>1. <<j, NewAttrs(slave[s])>> \in x.batch
          BY <2>1, <3>2
        <5>2. <<j, NewAttrs(slave[s])>>[1] = j /\ <<j, NewAttrs(slave[s])>>[2] = NewAttrs(slave[s])
          OBVIOUS
        <5> QED
          BY <4>1, <5>1, <5>2
      <4> QED
        BY <2>1, <3>2, <4>2 DEF Bearing
    <3> QED
      BY <1>4, <2>4, <3>1, <3>2
  <2>5. Carries(s, x)
    BY <1>0, <1>5, <2>1, <2>4, OnCarries
  <2>6. Marks(x)
    BY <1>1, <2>1 DEF Marks, Marking, Whole
  <2> QED
    BY <1>1, <2>1, <2>2, <2>3, <2>5, <2>6, OnMove
<1>8. ASSUME NEW x, NEW i \in Job, FillsIn(s, x, i) PROVE LiveInv'
  <2>1. /\ GoesOn(s, x) /\ x.pc = "full" /\ x.feed = {f} /\ x.todo = slave[s].todo
        /\ slave[s].jobs = {i} /\ x.job = {i} /\ x.mark = {i}
        /\ x.ask = Wants[f] \ {Owner} /\ x.got = {Owner}
    BY <1>3, <1>8 DEF FillsIn
  <2>2. x.pc \in MatchAt \cup {"run", "past"} /\ x.pc \notin {"run", "past"}
    BY <2>1 DEF MatchAt
  <2>3. Live(x)
    BY <2>1, <2>2, OnLive
  <2>4. \A a : a \in Wants[f] => Bearing(x, f, i, a)
    BY <2>1 DEF Bearing
  <2>5. ASSUME NEW g \in Subscribed, NEW j \in Job, NEW a \in Attr, a \in Wants[g],
               Ahead(slave[s], g, j)
        PROVE  Ahead(x, g, j) \/ Bearing(x, g, j, a)
    <3>1. CASE g \in slave[s].todo
      BY <2>1, <3>1 DEF Ahead
    <3>2. CASE g = f /\ j \in slave[s].jobs
      BY <2>1, <2>4, <2>5, <3>2
    <3> QED
      BY <1>4, <2>5, <3>1, <3>2
  <2>6. Carries(s, x)
    BY <1>0, <1>5, <2>1, <2>5, OnCarries
  <2>7. Marks(x)
    <3>1. ASSUME NEW g, NEW j, NEW a, Marking(x, g, j), a \in Wants[g] PROVE Pending(x, g, j, a)
      <4>1. g = f /\ j = i
        BY <2>1, <3>1 DEF Marking
      <4> QED
        BY <2>4, <3>1, <4>1 DEF Pending
    <3> QED
      BY <1>1, <3>1 DEF Marks, Whole
  <2> QED
    BY <1>1, <2>1, <2>2, <2>3, <2>6, <2>7, OnMove
<1> QED
  BY <1>7, <1>8, CheckFedEffect

\* A slave in the query of a history feed has nothing to send to the feeds of the beginning
\* before it is done.
LEMMA InRun ==
  ASSUME TypeInv, LiveInv, NEW s \in Slave, slave[s].pc \in {"run", "past"}
  PROVE  /\ \A g, j, a : ~Bearing(slave[s], g, j, a) /\ ~Queued(slave[s], 1, j, a)
         /\ FeedOf(s) \notin Subscribed /\ slave[s].queue # <<>>
         /\ Head(slave[s].queue).kind = "run" /\ slave[s].feed \cap Subscribed = {}
         /\ slave[s].pc \notin Recording \cup {"send", "full"}
<1>1. /\ slave[s].queue # <<>> /\ slave[s].feed = {FeedOf(s)}
      /\ Head(slave[s].queue).kind = "run" /\ slave[s].feed \cap Subscribed = {}
  BY InPast DEF LiveInv, Live
<1>2. \A g, j, a : ~Bearing(slave[s], g, j, a)
  BY DEF Bearing
<1>3. \A j, a : ~Queued(slave[s], 1, j, a)
  <2> SUFFICES ASSUME NEW j, NEW a, Queued(slave[s], 1, j, a) PROVE FALSE
    OBVIOUS
  <2>1. Head(slave[s].queue).kind \in MatchKinds
    BY <1>1, QueuedHead
  <2> QED
    BY <1>1, <2>1 DEF MatchKinds
<1> QED
  BY <1>1, <1>2, <1>3 DEF Recording

\* It goes on there.
LEMMA OnRun ==
  ASSUME TypeInv, FeedInv, LiveInv, MetadataOnly, NEW s \in Slave, NEW x, GoesOn(s, x),
         slave[s].pc \in {"run", "past"}, x.pc \in {"run", "past"}, x.feed = slave[s].feed,
         UNCHANGED <<stored, feeds>>, lost' = {}, missed \subseteq missed',
         \A f \in Feed, j \in Job : index[f][j] \subseteq index'[f][j],
         \A f \in Subscribed, j \in Job : <<f, j>> \in fed' => <<f, j>> \in fed
  PROVE  LiveInv'
<1>1. x.pc \in MatchAt \cup {"run", "past"} /\ x.queue = slave[s].queue
  BY DEF GoesOn
<1>2. Live(x)
  BY <1>1, InRun, OnLive
<1>3. Carries(s, x)
  BY InRun, OnCarries
<1>4. Marks(x)
  BY DEF Marks, Marking, Whole
<1> QED
  BY <1>1, <1>2, <1>3, <1>4, OnMove

\* An attribute that is not in the file while it is rewritten is missed.
LEMMA GetAttrLive ==
  ASSUME TypeInv, FeedInv, LiveInv, MetadataOnly, NEW s \in Slave, GetAttr(s)
  PROVE  LiveInv'
<1>0. /\ UNCHANGED <<stored, feeds, fed, index, lost>> /\ lost' = {} /\ slave[s].pc \in Reading
      /\ \A f \in Feed, j \in Job : index[f][j] \subseteq index'[f][j]
  BY GetAttrEffect DEF LiveInv
<1>1. PICK j \in Job : j = JobOf(s) /\ slave[s].job = {j}
  BY <1>0, InRead
<1>2. PICK a \in slave[s].ask :
        /\ missed' = IF a \in Held(j) \ stored[j] THEN missed \cup {j} ELSE missed
        /\ \E x \in Process :
             GoesOn(s, x) /\ ReadOf(x, slave[s], slave[s].ask \ {a}, slave[s].got \cup ({a} \cap stored[j]))
  BY <1>1, GetAttrEffect
<1>3. PICK x \in Process :
        GoesOn(s, x) /\ ReadOf(x, slave[s], slave[s].ask \ {a}, slave[s].got \cup ({a} \cap stored[j]))
  BY <1>2
<1>4. /\ x.pc = slave[s].pc /\ x.todo = slave[s].todo /\ x.feed = slave[s].feed
      /\ x.left = slave[s].left /\ x.job = slave[s].job /\ x.ask = slave[s].ask \ {a}
      /\ x.got = slave[s].got \cup ({a} \cap stored[j])
      /\ x.jobs = slave[s].jobs /\ x.mark = slave[s].mark
  BY <1>3 DEF ReadOf
<1>5. missed \subseteq missed'
  BY <1>2
<1>6. CASE slave[s].pc = "past"
  BY <1>0, <1>3, <1>4, <1>5, <1>6, OnRun
<1>7. CASE slave[s].pc \in {"find", "full"}
  <2>1. x.pc \in MatchAt \cup {"run", "past"} /\ x.pc \notin {"run", "past"}
    BY <1>4, <1>7 DEF MatchAt
  <2>2. Live(x)
    BY <1>3, <2>1, OnLive
  <2>3. \A g, i : Ahead(slave[s], g, i) => Ahead(x, g, i)
    BY <1>4 DEF Ahead
  <2>4. ASSUME NEW g, NEW i \in Job \ missed', NEW b, b \in Held(i), Bearing(slave[s], g, i, b)
        PROVE  Bearing(x, g, i, b)
    <3>1. slave[s].pc = "full" /\ g \in slave[s].feed /\ i = j /\ b \in slave[s].ask \cup slave[s].got
      BY <1>1, <1>7, <2>4 DEF Bearing
    <3>2. b = a => b \in stored[j]
      BY <1>2, <2>4, <3>1
    <3>3. b \in x.ask \cup x.got
      BY <1>4, <3>1, <3>2
    <3> QED
      BY <1>1, <1>4, <3>1, <3>3 DEF Bearing
  <2>5. slave[s].pc \notin Recording
    BY <1>7 DEF Recording
  <2>6. Carries(s, x)
    BY <1>3, <2>3, <2>4, <2>5, OnCarries
  <2>7. \A g, i : Marking(x, g, i) => Marking(slave[s], g, i)
    BY <1>4 DEF Marking
  <2>8. Marks(x)
    BY <1>0, <2>7 DEF Marks, Whole
  <2> QED
    BY <1>0, <1>3, <1>5, <2>1, <2>2, <2>6, <2>8, OnMove
<1> QED
  BY <1>0, <1>6, <1>7 DEF Reading

LEMMA FullFeedLive ==
  ASSUME TypeInv, FeedInv, LiveInv, MetadataOnly, NEW s \in Slave, FullFeed(s)
  PROVE  LiveInv'
<1>0. /\ Still /\ slave[s].pc = "full" /\ slave[s].ask = {} /\ slave[s].pc \in Reading
      /\ slave[s].pc \notin Recording
  BY FullFeedEffect DEF Reading, Recording
<1>1. /\ UNCHANGED <<stored, feeds, fed>> /\ lost' = {} /\ missed \subseteq missed'
      /\ \A f \in Feed, j \in Job : index[f][j] \subseteq index'[f][j]
  BY <1>0 DEF Still, LiveInv
<1>2. PICK j \in Job : j = JobOf(s) /\ slave[s].job = {j}
  BY <1>0, InRead
<1>3. PICK x : Filled(s, x)
  BY FullFeedEffect
<1>4. /\ GoesOn(s, x) /\ x.pc = "send" /\ x.feed = slave[s].feed /\ x.todo = slave[s].todo
      /\ x.batch = {<<j, slave[s].got>>} /\ x.mark = slave[s].mark
  BY <1>2, <1>3 DEF Filled
<1>5. x.pc \in MatchAt \cup {"run", "past"} /\ x.pc \notin {"run", "past"}
  BY <1>4 DEF MatchAt
<1>6. Live(x)
  BY <1>4, <1>5, OnLive
<1>7. \A g, i : Ahead(slave[s], g, i) => Ahead(x, g, i)
  BY <1>0, <1>4 DEF Ahead
<1>8. ASSUME NEW g, NEW i, NEW a, Bearing(slave[s], g, i, a) PROVE Bearing(x, g, i, a)
  <2>1. g \in slave[s].feed /\ i = j /\ a \in slave[s].got
    BY <1>0, <1>2, <1>8 DEF Bearing
  <2>2. <<j, slave[s].got>> \in x.batch /\ <<j, slave[s].got>>[1] = j /\ <<j, slave[s].got>>[2] = slave[s].got
    BY <1>4
  <2>3. \E r \in x.batch : r[1] = i /\ a \in r[2]
    BY <2>1, <2>2
  <2> QED
    BY <1>4, <2>1, <2>3 DEF Bearing
<1>9. Carries(s, x)
  BY <1>0, <1>4, <1>7, <1>8, OnCarries
<1>10. \A g, i : Marking(x, g, i) => Marking(slave[s], g, i)
  BY <1>0, <1>4 DEF Marking
<1>11. Marks(x)
  BY <1>1, <1>10 DEF Marks, Whole
<1> QED
  BY <1>1, <1>4, <1>5, <1>6, <1>9, <1>11, OnMove

LEMMA SendLive ==
  ASSUME ~Faults, TypeInv, FeedInv, LiveInv, MetadataOnly, NEW s \in Slave, Send(s)
  PROVE  LiveInv'
<1>0. /\ slave[s].pc = "send" /\ slave[s].batch \in SUBSET (Job \X SUBSET Attr)
      /\ UNCHANGED <<stored, feeds, fed, missed>> /\ missed \subseteq missed'
      /\ slave[s].pc \in Handling /\ slave[s].pc \notin Recording
  BY SendEffect, ProcessType DEF Handling, Recording
<1>1. PICK f \in Feed : f = FeedOf(s) /\ slave[s].feed = {f}
  BY <1>0, InHand
<1>2. PICK x : /\ Delivered(f, slave[s].batch)
               /\ Leaves(s, x) \/ ToMark(s, x)
  BY <1>1, SendEffect DEF Faulted
<1>3. /\ lost' = lost /\ \A g \in Feed, j \in Job : index[g][j] \subseteq index'[g][j]
      /\ \A r \in slave[s].batch : r[2] \subseteq index'[f][r[1]]
  BY <1>0, <1>2, DeliveredEffect
<1>4. /\ GoesOn(s, x) /\ x.todo = slave[s].todo /\ x.pc \in {"match", "mark"}
      /\ x.pc = "mark" => x.feed = slave[s].feed /\ x.mark = slave[s].mark
  BY <1>2 DEF Leaves, ToMark
<1>5. x.pc \in MatchAt \cup {"run", "past"} /\ x.pc \notin {"run", "past"}
  BY <1>4 DEF MatchAt
<1>6. Live(x)
  BY <1>4, <1>5, OnLive
<1>7. ASSUME NEW g, NEW j, NEW a, Bearing(slave[s], g, j, a) PROVE a \in index'[g][j]
  BY <1>0, <1>1, <1>3, <1>7 DEF Bearing
<1>8. \A g, j : Ahead(slave[s], g, j) => Ahead(x, g, j)
  BY <1>0, <1>4 DEF Ahead
<1>9. Carries(s, x)
  BY <1>0, <1>4, <1>7, <1>8, OnCarries
<1>10. \A g, j : Marking(x, g, j) => Marking(slave[s], g, j)
  BY <1>0, <1>4 DEF Marking
<1>11. Marks(x)
  BY <1>0, <1>10 DEF Marks, Whole
<1>12. lost' = {}
  BY <1>3 DEF LiveInv
<1> QED
  BY <1>0, <1>3, <1>4, <1>5, <1>6, <1>9, <1>11, <1>12, OnMove

LEMMA SetFedLive ==
  ASSUME TypeInv, FeedInv, LiveInv, MetadataOnly, NEW s \in Slave, SetFed(s)
  PROVE  LiveInv'
<1>0. /\ slave[s].pc = "mark" /\ fed' = fed \cup ({FeedOf(s)} \X slave[s].mark)
      /\ UNCHANGED <<stored, feeds, index, lost, missed>> /\ missed \subseteq missed'
      /\ slave[s].pc \in Handling /\ slave[s].pc \notin Recording
  BY SetFedEffect DEF Handling, Recording
<1>1. PICK f \in Feed : f = FeedOf(s) /\ slave[s].feed = {f}
  BY <1>0, InHand
<1>2. PICK x : Leaves(s, x)
  BY SetFedEffect
<1>3. GoesOn(s, x) /\ x.todo = slave[s].todo /\ x.pc = "match"
  BY <1>2 DEF Leaves
<1>4. x.pc \in MatchAt \cup {"run", "past"} /\ x.pc \notin {"run", "past"}
  BY <1>3 DEF MatchAt
<1>5. Live(x)
  BY <1>3, <1>4, OnLive
<1>6. \A g, j, a : ~Bearing(slave[s], g, j, a)
  BY <1>0 DEF Bearing
<1>7. \A g, j : Ahead(slave[s], g, j) => Ahead(x, g, j)
  BY <1>0, <1>3 DEF Ahead
<1>8. Carries(s, x)
  BY <1>0, <1>3, <1>6, <1>7, OnCarries
<1>9. \A g \in Subscribed, j \in Job : <<g, j>> \in fed' => <<g, j>> \in fed \/ Marking(slave[s], g, j)
  BY <1>0, <1>1 DEF Marking
<1>10. Marks(x)
  BY <1>3, <1>9 DEF Marks, Whole, Marking
<1>11. lost' = {} /\ \A g \in Feed, j \in Job : index[g][j] \subseteq index'[g][j]
  BY <1>0 DEF LiveInv
<1> QED
  BY <1>0, <1>3, <1>4, <1>5, <1>8, <1>10, <1>11, OnMove

LEMMA RunQueryLive ==
  ASSUME ~Crashes, TypeInv, FeedInv, LiveInv, MetadataOnly, NEW s \in Slave, RunQuery(s)
  PROVE  LiveInv'
<1>0. /\ Still /\ slave[s].pc = "deferred" /\ slave[s].queue # <<>>
      /\ Head(slave[s].queue).kind = "run" /\ slave[s].pc \notin Recording
  BY RunQueryEffect DEF Recording
<1>1. PICK f : f = Head(slave[s].queue).feed
  OBVIOUS
<1>2. f \in History /\ f \notin Subscribed
  <2>1. slave[s].queue \in Seq(Work)
    BY ProcessType
  <2>2. Head(slave[s].queue) = slave[s].queue[1] /\ 1 \in 1 .. Len(slave[s].queue)
    BY <1>0, <2>1
  <2>3. Sound(slave[s].queue[1])
    BY <2>2 DEF LiveInv, Live, SoundQueue
  <2> QED
    BY <1>0, <1>1, <2>2, <2>3 DEF Sound
<1>3. \E i \in DOMAIN Query[f] : Query[f][i] = Owner
  <2>1. f \in Feed /\ Query[f] \in Seq(Attr) /\ Query[f] # <<>>
    BY <1>2, FeedingAssumption DEF MetadataOnly
  <2>2. 1 \in DOMAIN Query[f]
    BY <2>1
  <2> QED
    BY <2>1, <2>2 DEF MetadataOnly
<1>4. PICK x : GoesOn(s, x) /\ x.pc = "run" /\ x.feed = {f}
  BY <1>1, <1>3, RunQueryEffect DEF Starts, Breaks
<1>5. x.pc \in MatchAt \cup {"run", "past"}
  BY <1>4
<1>6. Live(x)
  BY <1>0, <1>2, <1>4, <1>5, OnLive DEF GoesOn
<1>7. \A g, j, a : ~Bearing(slave[s], g, j, a) /\ ~Queued(slave[s], 1, j, a)
  BY <1>0, QueuedHead DEF Bearing, MatchKinds
<1>8. Carries(s, x)
  BY <1>0, <1>4, <1>7, OnCarries
<1>9. Marks(x)
  BY <1>0, <1>4 DEF Marks, Marking, Whole, Still
<1>10. /\ UNCHANGED <<stored, feeds>> /\ lost' = {} /\ missed \subseteq missed'
       /\ \A g \in Feed, j \in Job : index[g][j] \subseteq index'[g][j]
  BY <1>0 DEF Still, LiveInv
<1> QED
  BY <1>4, <1>5, <1>6, <1>8, <1>9, <1>10, OnMove

\* A slave that goes on with its query only changes itself.
LEMMA OnQuery ==
  ASSUME TypeInv, FeedInv, LiveInv, MetadataOnly, NEW s \in Slave, NEW x, GoesOn(s, x), Still,
         slave[s].pc \in {"run", "past"}, x.pc \in {"run", "past"}, x.feed = slave[s].feed
  PROVE  LiveInv'
<1>1. /\ UNCHANGED <<stored, feeds>> /\ lost' = {} /\ missed \subseteq missed'
      /\ \A f \in Feed, j \in Job : index[f][j] \subseteq index'[f][j]
      /\ \A f \in Subscribed, j \in Job : <<f, j>> \in fed' => <<f, j>> \in fed
  BY DEF Still, LiveInv
<1> QED
  BY <1>1, OnRun

LEMMA QueryCallbackLive ==
  ASSUME TypeInv, FeedInv, LiveInv, MetadataOnly, NEW s \in Slave, NEW j \in Job, QueryCallback(s, j)
  PROVE  LiveInv'
<1>1. PICK x : Still /\ slave[s].pc = "run" /\ Picks(s, x, j)
  BY QueryCallbackEffect
<1> QED
  BY <1>1, OnQuery DEF Picks

LEMMA StackJobLive ==
  ASSUME TypeInv, FeedInv, LiveInv, MetadataOnly, NEW s \in Slave, StackJob(s)
  PROVE  LiveInv'
<1>1. PICK x : Still /\ slave[s].pc = "past" /\ Stacks(s, x)
  BY StackJobEffect
<1> QED
  BY <1>1, OnQuery DEF Stacks

LEMMA DrainFeedLive ==
  ASSUME ~Faults, TypeInv, FeedInv, LiveInv, MetadataOnly, NEW s \in Slave, DrainFeed(s)
  PROVE  LiveInv'
<1>0. /\ slave[s].pc = "run" /\ UNCHANGED <<stored, feeds, missed>>
      /\ fed' \subseteq fed \cup {<<FeedOf(s), r[1]>> : r \in slave[s].batch}
  BY DrainFeedEffect
<1>1. /\ FeedOf(s) \in Feed /\ FeedOf(s) \notin Subscribed
      /\ slave[s].batch \in SUBSET (Job \X SUBSET Attr)
  BY <1>0, InRun, InPast
<1>2. Delivered(FeedOf(s), slave[s].batch)
  BY DrainFeedEffect DEF Faulted
<1>3. lost' = lost /\ \A g \in Feed, j \in Job : index[g][j] \subseteq index'[g][j]
  BY <1>1, <1>2, DeliveredEffect
<1>4. PICK x : GoesOn(s, x) /\ x.pc = "run" /\ x.feed = slave[s].feed
  BY DrainFeedEffect DEF Drains
<1>5. \A g \in Subscribed, j \in Job : <<g, j>> \in fed' => <<g, j>> \in fed
  BY <1>0, <1>1
<1>6. lost' = {} /\ missed \subseteq missed'
  BY <1>0, <1>3 DEF LiveInv
<1> QED
  BY <1>0, <1>3, <1>4, <1>5, <1>6, OnRun

LEMMA QueryEndsLive ==
  ASSUME TypeInv, FeedInv, LiveInv, MetadataOnly, NEW s \in Slave, QueryEnds(s)
  PROVE  LiveInv'
<1>1. PICK x : /\ Ends(s, x) /\ slave[s].pc = "run"
               /\ UNCHANGED <<stored, feeds, fed, index, lost, missed>>
  BY QueryEndsEffect
<1>2. Subscribed \subseteq feeds'
  BY <1>1 DEF LiveInv
<1> QED
  BY <1>1, <1>2, InRun, DoneLive

LEMMA RegisterFeedLive ==
  ASSUME TypeInv, FeedInv, LiveInv, MetadataOnly, NEW s \in Slave, RegisterFeed(s)
  PROVE  LiveInv'
<1>1. PICK x : /\ Ends(s, x) /\ slave[s].pc = "deferred" /\ slave[s].queue # <<>>
               /\ Head(slave[s].queue).kind = "register" /\ feeds \subseteq feeds'
               /\ UNCHANGED <<stored, fed, index, lost, missed>>
  BY RegisterFeedEffect
<1>2. Subscribed \subseteq feeds' /\ slave[s].pc \notin Recording \cup {"send", "full"}
  BY <1>1 DEF LiveInv, Recording
<1>3. \A j, a : ~Queued(slave[s], 1, j, a)
  BY <1>1, QueuedHead DEF MatchKinds
<1> QED
  BY <1>1, <1>2, <1>3, DoneLive

\* A slave leaves when it has nothing to do, and the one in its place reads the feeds.
LEMMA StartSlaveLive ==
  ASSUME TypeInv, FeedInv, LiveInv, MetadataOnly, NEW s \in Slave, NEW expired \in SUBSET feeds,
         StartSlave(s, expired)
  PROVE  LiveInv'
<1>0. /\ UNCHANGED <<stored, index, lost, missed>> /\ slave[s].pc \in {"dead", "idle"}
      /\ feeds' = feeds \ expired /\ expired \subseteq feeds \ Subscribed
      /\ fed' = {y \in fed : y[1] \notin expired}
  BY StartSlaveEffect
<1>1. PICK x : Moves(s, x) /\ x.pc = "idle" /\ x.queue = <<>> /\ x.cache = feeds'
  BY StartSlaveEffect
<1>2. fed' \subseteq fed /\ Subscribed \subseteq feeds' /\ missed \subseteq missed'
  BY <1>0 DEF LiveInv
<1>3. slave[s].pc = "idle"
  BY <1>0 DEF LiveInv, Live
<1>4. Live(x) /\ x.pc \notin {"full", "send", "mark"} \cup Filing
  BY <1>1, <1>2 DEF Live, SoundQueue, Recording, Filing
<1>5. Carries(s, x)
  BY <1>3, IdleCarries
<1> QED
  BY <1>0, <1>1, <1>2, <1>4, <1>5, LiveKept

LEMMA LiveStep ==
  ASSUME ~Faults, ~Crashes, MetadataOnly
  PROVE  TypeInv /\ FeedInv /\ LiveInv /\ [Next]_vars => LiveInv'
<1> SUFFICES ASSUME TypeInv, FeedInv, LiveInv, [Next]_vars PROVE LiveInv'
  OBVIOUS
<1>1. CASE UNCHANGED vars
  <2>1. \A j \in Job : Held(j)' = Held(j)
    BY <1>1 DEF vars, Held
  <2> QED
    BY <1>1, <2>1 DEF vars, LiveInv, Whole, Covered
<1>2. ASSUME NEW s \in Slave, Call(s) PROVE LiveInv'
  BY <1>2, RegisterJobLive, CommitUploadLive, RecordTagsLive, FeedIndexLive DEF Call
<1>3. ASSUME NEW s \in Slave, Tagging(s) PROVE LiveInv'
  BY <1>3, TaggingLive
<1>4. ASSUME NEW s \in Slave, StartMatch(s) \/ MatchFeed(s) \/ NextJob(s) \/ GetAttr(s) \/ FeedMatches(s)
      PROVE  LiveInv'
  BY <1>4, StartMatchLive, MatchFeedLive, NextJobLive, GetAttrLive, FeedMatchesLive
<1>5. ASSUME NEW s \in Slave, CheckFed(s) \/ FullFeed(s) \/ Send(s) \/ SetFed(s) PROVE LiveInv'
  BY <1>5, CheckFedLive, FullFeedLive, SendLive, SetFedLive
<1>6. ASSUME NEW s \in Slave, \/ RunQuery(s) \/ StackJob(s) \/ DrainFeed(s) \/ QueryEnds(s)
                              \/ RegisterFeed(s) \/ \E j \in Job : QueryCallback(s, j)
      PROVE  LiveInv'
  BY <1>6, RunQueryLive, StackJobLive, DrainFeedLive, QueryEndsLive, RegisterFeedLive,
     QueryCallbackLive
<1>7. ASSUME NEW s \in Slave PROVE ~CallFreed(s) /\ ~Die(s)
  <2>1. slave[s].pc = "deferred" => Head(slave[s].queue).kind # "freed"
    <3> SUFFICES ASSUME slave[s].pc = "deferred" PROVE Head(slave[s].queue).kind # "freed"
      OBVIOUS
    <3>1. slave[s].queue \in Seq(Work) /\ slave[s].queue # <<>>
      BY ProcessType DEF Proc, Recording
    <3>2. Head(slave[s].queue) = slave[s].queue[1] /\ 1 \in 1 .. Len(slave[s].queue)
      BY <3>1
    <3>3. Sound(slave[s].queue[1])
      BY <3>2 DEF LiveInv, Live, SoundQueue
    <3> QED
      BY <3>2, <3>3 DEF Sound
  <2> QED
    BY <2>1 DEF CallFreed, Die, At
<1>8. ASSUME NEW s \in Slave, NEW expired \in SUBSET feeds, StartSlave(s, expired) PROVE LiveInv'
  BY <1>8, StartSlaveLive
<1> QED
  BY <1>1, <1>2, <1>3, <1>4, <1>5, <1>6, <1>7, <1>8 DEF Next, Deferred

LEMMA LiveInit == Init => LiveInv
<1> SUFFICES ASSUME Init PROVE LiveInv
  OBVIOUS
<1>1. \A s \in Slave : /\ slave[s] = Idle(Subscribed) /\ slave[s].pc = "idle"
                       /\ slave[s].queue = <<>> /\ slave[s].cache = Subscribed
  BY FeedingAssumption, IdleType DEF Init
<1>2. \A s \in Slave : Live(slave[s])
  BY <1>1 DEF Live, SoundQueue, Recording, Filing
<1>3. \A f \in Subscribed, j \in Job : ~Whole(f, j)
  BY <1>1 DEF Init, Whole, Marking
<1>4. stored = Old /\ lost = {} /\ feeds = Subscribed
  BY DEF Init
<1>5. ASSUME NEW j \in Job, NEW a, a \in Held(j) PROVE a \in Old[j]
  BY <1>1, <1>4, <1>5 DEF Held, Recording
<1> QED
  BY <1>2, <1>3, <1>4, <1>5 DEF LiveInv

LEMMA LiveCorrect ==
  ASSUME ~Faults, ~Crashes, MetadataOnly
  PROVE  Spec => [](TypeInv /\ FeedInv /\ LiveInv)
<1>1. Init => TypeInv /\ FeedInv /\ LiveInv
  BY TypeInit, FeedInit, LiveInit
<1>2. TypeInv /\ FeedInv /\ LiveInv /\ [Next]_vars => (TypeInv /\ FeedInv /\ LiveInv)'
  BY TypeStep, FeedStep, LiveStep
<1> QED
  BY <1>1, <1>2, PTL DEF Spec

\* Slaves that rest have nothing left to send.
LEMMA QuietCovered ==
  ASSUME LiveInv, Quiet, NEW f, NEW j, NEW a, Covered(f, j, a)
  PROVE  a \in index[f][j]
<1>1. \A s \in Slave : slave[s].pc = "idle" /\ slave[s].queue = <<>>
  BY DEF Quiet, At, LiveInv, Live
<1> QED
  BY <1>1 DEF Covered, Pending, InCallOf, Bearing, Queued, Recording

\* If the conditions of the feeds are on metadata, the index servers take what they are
\* sent, the file system does not fail and no slave is killed, then once the slaves rest
\* every attribute that was stored since the subscription is at every index server whose
\* feed asks for it (match_attr_deferred, match_attr_multi_deferred, match_file_deferred in
\* feed.c).  Excepted are the jobs of which a slave looked for a tag (get_attrs) while
\* another one was rewriting the file it was in (close_file in new_ftp_backend.c), and those
\* of calls that found a corrupt file of tags.
THEOREM FeedsAreKeptUpToDate ==
  ASSUME ~Faults, ~Crashes, MetadataOnly
  PROVE  Spec => []KeptUpToDate
<1>1. TypeInv /\ FeedInv /\ LiveInv => KeptUpToDate
  <2> SUFFICES ASSUME TypeInv, LiveInv, Quiet, NEW f \in Subscribed, NEW j \in Job \ missed,
                      Satisfies(f, j), NEW a \in (stored[j] \ Old[j]) \cap (Wants[f] \ {Owner})
               PROVE  a \in index[f][j]
    BY DEF KeptUpToDate
  <2>1. OwnerFits(f, j) /\ a \in Attr /\ a \in Held(j)
    BY HeldStored DEF Satisfies, OwnerFits, TypeInv, Tables
  <2>2. Covered(f, j, a)
    BY <2>1 DEF LiveInv
  <2> QED
    BY <2>2, QuietCovered
<1> QED
  BY <1>1, LiveCorrect, PTL

\* Then a job with a row in fed_jobs is complete at the index server, with what was stored
\* before the subscription too: check_fed and full_feed of two slaves at the same job leave
\* no hole, whichever of them calls set_fed first, with the same exceptions.
THEOREM FedJobsAreComplete ==
  ASSUME ~Faults, ~Crashes, MetadataOnly
  PROVE  Spec => []FedIsComplete
<1>1. TypeInv /\ FeedInv /\ LiveInv => FedIsComplete
  <2> SUFFICES ASSUME TypeInv, LiveInv, Quiet, NEW f \in Subscribed, NEW j \in Job \ missed,
                      <<f, j>> \in fed, NEW a \in stored[j] \cap Wants[f]
               PROVE  a \in index[f][j]
    BY DEF FedIsComplete
  <2>1. a \in Attr /\ a \in Held(j)
    BY HeldStored DEF TypeInv, Tables
  <2>2. Covered(f, j, a)
    BY <2>1 DEF LiveInv, Whole
  <2> QED
    BY <2>2, QuietCovered
<1> QED
  BY <1>1, LiveCorrect, PTL
=============================================================================
