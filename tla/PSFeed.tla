------------------------------- MODULE PSFeed -------------------------------
(***************************************************************************)
(* Feeding of index servers by the Primary Storage.  A call that stores    *)
(* attributes of a job defers the matching of feeds to the time after its  *)
(* reply; FeedIndex defers the feed of past jobs and the registration of   *)
(* the feed.  Every slave matches against the feeds it read when it was    *)
(* started, and shares with the others the tables feeds and fed_jobs and   *)
(* the files of tags, which are read without a lock, one attribute after   *)
(* another, and rewritten without one (TagStore has the steps in detail).  *)
(*                                                                         *)
(* An attribute has one value per job; Fits tells which of the values      *)
(* satisfy the conditions of which feed.  What the index server has        *)
(* received for a feed is the set of the job's attributes.                 *)
(***************************************************************************)
EXTENDS Integers, Sequences, FiniteSets

CONSTANTS Slave, Job, Feed,
          Attr,         \* attributes, among them
          Owner,        \*   the metadata,
          Tag,          \*   tags that can be recorded and
          FileAttr,     \*   attributes of files that can be uploaded
          Wants,        \* attributes a feed asks for
          Query,        \* attributes in the items of its query, in order
          Fits,         \* <<feed, job, attribute>>: the value satisfies the query
          Old,          \* what is stored at the beginning
          Subscribed,   \* feeds known to all slaves then, and always refreshed
          History, Continuous,    \* flags of the feeds asked for later
          BatchSize,    \* BATCH_FEED_SIZE
          MaxCalls,     \* bound: calls that store attributes of a registered job
          Faults,       \* do calls of the index server fail?
          Crashes       \* do slaves die, and do queries fail?

ASSUME FeedingAssumption ==
  /\ Owner \in Attr /\ Tag \cup FileAttr \subseteq Attr \ {Owner} /\ Tag \cap FileAttr = {}
  /\ Wants \in [Feed -> SUBSET Attr]
  /\ Query \in [Feed -> Seq(Attr)]
  /\ Fits \subseteq Feed \X Job \X Attr
  /\ Old \in [Job -> SUBSET Attr] /\ \A j \in Job : Old[j] # {} => Owner \in Old[j]
  /\ Subscribed \subseteq Feed /\ History \subseteq Feed /\ Continuous \subseteq Feed
  /\ BatchSize \in Nat \ {0} /\ MaxCalls \in Nat
  /\ {Faults, Crashes} \subseteq BOOLEAN

VARIABLES
  stored,   \* attributes of every job that can be read; none, not even Owner: not registered
  file,     \* the file of tags of every job
  feeds,    \* table feeds
  fed,      \* table fed_jobs
  slave,
  calls,    \* number of calls that store attributes of a registered job
  index,    \* what the index server has received
  asked,    \* feeds FeedIndex has been called for
  before,   \* history: what could be read when it was called, and ever since
  fedPast,  \* history: feeds whose past jobs have all been sent
  lost,     \* history: feeds and jobs for which an UpdateJobs has failed
  missed    \* history: jobs with tags that were not in the file when they were looked for,
            \* or stayed there after a call that failed

vars == <<stored, file, feeds, fed, slave, calls, index, asked, before, fedPast, lost, missed>>

\* Deferred functions with their arguments.
Work == [kind: {"attr", "multi", "file"}, jobs: SUBSET Job, attrs: SUBSET Attr]
          \cup [kind: {"run", "register"}, feed: Feed]
          \cup [kind: {"freed"}]

Recording == {"open", "create", "close", "rewrite", "write"}
Reading == {"find", "full", "past"}

\* The process of a slave, in a call that records tags, in a deferred function,
\* or out of them.
Process ==
  [pc: Recording \cup Reading
         \cup {"idle", "deferred", "match", "next", "check", "send", "mark", "run", "dead"},
   cache: SUBSET Feed,                    \* feeds it has read
   queue: Seq(Work),
   call: SUBSET Work,                     \* what is deferred when the tags are recorded
   todo: SUBSET Feed,                     \* feeds to be matched yet
   feed: SUBSET Feed,                     \* the one in hand
   left: SUBSET Job,                      \* jobs to be looked at yet
   job: SUBSET Job,                       \* the one in hand
   ask: SUBSET Attr,                      \* its attributes to be read yet
   got: SUBSET Attr,                      \* and those in memory
   jobs: SUBSET Job,                      \* jobs that match
   batch: SUBSET (Job \X SUBSET Attr),    \* records to be sent
   mark: SUBSET Job]                      \* jobs to be marked then

Idle(c) == [pc |-> "idle", cache |-> c, queue |-> <<>>, call |-> {}, todo |-> {}, feed |-> {},
            left |-> {}, job |-> {}, ask |-> {}, got |-> {}, jobs |-> {}, batch |-> {}, mark |-> {}]

Init ==
  /\ stored = Old
  /\ file = [j \in Job |-> IF Old[j] \cap Tag = {} THEN "absent" ELSE "ok"]
  /\ feeds = Subscribed
  /\ fed = {}
  /\ slave = [s \in Slave |-> Idle(Subscribed)]
  /\ calls = 0
  /\ index = [f \in Feed |-> [j \in Job |-> {}]]
  /\ asked = Subscribed
  /\ before = [f \in Feed |-> [j \in Job |-> {}]]
  /\ fedPast = {}
  /\ lost = {}
  /\ missed = {}

At(s, label) == slave[s].pc = label
Becomes(s, l) == slave' = [slave EXCEPT ![s] = l]
Set(s, l) == [slave[s] EXCEPT !.pc = l]
Dead(s) == Becomes(s, [Idle({}) EXCEPT !.pc = "dead"])

FeedOf(s) == CHOOSE f \in slave[s].feed : TRUE
JobOf(s) == CHOOSE j \in slave[s].job : TRUE
CallOf(s) == CHOOSE w \in slave[s].call : TRUE

\* glite_jp_add_deferred and the reply.
Defer(s, q) ==
  Becomes(s, [Idle(slave[s].cache) EXCEPT !.pc = "deferred", !.queue = slave[s].queue \o q])

\* Mutant: one function too many is called.
Finished_Off(s) ==
  Becomes(s, [Idle(slave[s].cache) EXCEPT !.pc = "deferred", !.queue = Tail(slave[s].queue)])

\* A deferred function is done: glite_jp_run_deferred goes on with the next.
Finished(s) ==
  LET q == Tail(slave[s].queue) IN
  Becomes(s, [Idle(slave[s].cache) EXCEPT !.pc = IF q = <<>> THEN "idle" ELSE "deferred",
                                          !.queue = q])

-----------------------------------------------------------------------------
(* Calls *)

RegisterJob(s, j) ==
  /\ At(s, "idle")
  /\ stored[j] = {}
  /\ stored' = [stored EXCEPT ![j] = {Owner}]
  /\ Defer(s, <<[kind |-> "attr", jobs |-> {j}, attrs |-> {Owner}]>>)
  /\ UNCHANGED <<file, feeds, fed, calls, index, asked, before, fedPast, lost, missed>>

\* Tags of registered jobs; RecordTag has one job, RecordMultiTags more.
RecordTags(s, k, J, a) ==
  /\ At(s, "idle") /\ calls < MaxCalls /\ calls' = calls + 1
  /\ J # {} /\ (k = "attr" => \E j \in J : J = {j})
  /\ \A j \in J : stored[j] # {} /\ a \notin stored[j]
  /\ Becomes(s, [slave[s] EXCEPT !.pc = "open", !.left = J,
                                  !.call = {[kind |-> k, jobs |-> J, attrs |-> {a}]}])
  /\ UNCHANGED <<stored, file, feeds, fed, index, asked, before, fedPast, lost, missed>>

TagsOf(j) == stored[j] \cap Tag

\* The file of the job becomes one of this kind, from which T is read.
SetFile(j, kind, T) ==
  /\ file' = [file EXCEPT ![j] = kind]
  /\ stored' = [stored EXCEPT ![j] = (@ \ Tag) \cup T]
  /\ before' = [f \in Feed |-> [i \in Job |-> before[f][i] \cap stored'[i]]]

\* The client gets a fault; what has been recorded stays and is not matched.
Fault(s) ==
  /\ Becomes(s, [Idle(slave[s].cache) EXCEPT !.queue = slave[s].queue])
  /\ missed' = missed \cup CallOf(s).jobs

\* append_tags of the next job: open_file reads the file, if there is one.
OpenTags(s, j) ==
  /\ At(s, "open") /\ j \in slave[s].left
  /\ \/ file[j] = "corrupt" /\ Fault(s)
     \/ /\ file[j] # "corrupt"
        /\ Becomes(s, [slave[s] EXCEPT !.pc = IF file[j] = "absent" THEN "create" ELSE "rewrite",
                                        !.left = @ \ {j}, !.job = {j}, !.got = TagsOf(j)])
        /\ UNCHANGED missed
  /\ UNCHANGED <<stored, file, feeds, fed, calls, index, asked, before, fedPast, lost>>

\* gzopen "w+" of a file that was not there.
CreateTags(s) ==
  /\ At(s, "create")
  /\ SetFile(JobOf(s), "ok", {})
  /\ Becomes(s, Set(s, "close"))
  /\ UNCHANGED <<feeds, fed, calls, index, asked, fedPast, lost, missed>>

\* close_file closes it, over the tags another slave has written since.
CloseTags(s) ==
  LET j == JobOf(s) IN
  /\ At(s, "close")
  /\ SetFile(j, IF TagsOf(j) = {} THEN file[j] ELSE "corrupt", {})
  /\ Becomes(s, Set(s, "rewrite"))
  /\ UNCHANGED <<feeds, fed, calls, index, asked, fedPast, lost, missed>>

\* close_file opens it again, with "w": now it is empty.
RewriteTags(s) ==
  /\ At(s, "rewrite")
  /\ SetFile(JobOf(s), "ok", {})
  /\ Becomes(s, Set(s, "write"))
  /\ UNCHANGED <<feeds, fed, calls, index, asked, fedPast, lost, missed>>

\* gzwrite and gzclose, perhaps over something longer; then the next job of the
\* call, or the reply.
WriteTags(s) ==
  LET j == JobOf(s)
      w == CallOf(s) IN
  /\ At(s, "write")
  /\ \/ SetFile(j, "ok", slave[s].got \cup w.attrs)
     \/ (TagsOf(j) # {} \/ file[j] = "corrupt") /\ SetFile(j, "corrupt", {})
  /\ IF slave[s].left = {} THEN Defer(s, <<w>>)
     ELSE Becomes(s, [slave[s] EXCEPT !.pc = "open", !.job = {}, !.got = {}])
  /\ UNCHANGED <<feeds, fed, calls, index, asked, fedPast, lost, missed>>

\* A call of the file system fails.
FailTags(s) ==
  /\ Crashes /\ slave[s].pc \in Recording
  /\ Fault(s)
  /\ UNCHANGED <<stored, file, feeds, fed, calls, index, asked, before, fedPast, lost>>

\* CommitUpload of a file whose class has plugins, which get A out of it.
CommitUpload(s, j, A) ==
  /\ At(s, "idle") /\ calls < MaxCalls /\ calls' = calls + 1
  /\ stored[j] # {} /\ A \cap stored[j] = {}
  /\ stored' = [stored EXCEPT ![j] = @ \cup A]
  /\ Defer(s, <<[kind |-> "file", jobs |-> {j}, attrs |-> A]>>)
  /\ UNCHANGED <<file, feeds, fed, index, asked, before, fedPast, lost, missed>>

Run(f) == IF f \in History THEN <<[kind |-> "run", feed |-> f]>> ELSE <<>>
Register(f) == IF f \in Continuous THEN <<[kind |-> "register", feed |-> f]>> ELSE <<>>

FeedIndex(s, f) ==
  /\ At(s, "idle")
  /\ f \notin asked /\ f \in History \cup Continuous
  /\ Defer(s, Run(f) \o Register(f))
  /\ asked' = asked \cup {f}
  /\ before' = [before EXCEPT ![f] = stored]
  /\ UNCHANGED <<stored, file, feeds, fed, calls, index, fedPast, lost, missed>>

-----------------------------------------------------------------------------
(* Reading of attributes *)

\* The tags of a job in its file or, while that is rewritten, in memory.
Held(j) ==
  stored[j] \cup UNION {slave[s].got : s \in {t \in Slave : /\ slave[t].pc \in Recording \ {"open"}
                                                         /\ slave[t].job = {j}}}

\* get_attrs reads one more attribute: an error of read_tag is no value.
GetAttr(s) ==
  LET j == JobOf(s) IN
  /\ slave[s].pc \in Reading
  /\ \E a \in slave[s].ask :
       /\ Becomes(s, [slave[s] EXCEPT !.ask = @ \ {a}, !.got = @ \cup ({a} \cap stored[j])])
       /\ missed' = IF a \in Held(j) \ stored[j] THEN missed \cup {j} ELSE missed
  /\ UNCHANGED <<stored, file, feeds, fed, calls, index, asked, before, fedPast, lost>>

-----------------------------------------------------------------------------
(* Matching of new attributes *)

Fitting(f, j, a) == <<f, j, a>> \in Fits

\* Mutant: the attributes stored before are not looked at.
Matching_CallOnly(f, j, A, got) ==
  IF \E i \in DOMAIN Query[f] : Query[f][i] \notin A \/ ~Fitting(f, j, Query[f][i])
  THEN {"no"} ELSE {"match"}

(***************************************************************************)
(* is_feed_matching: what it may return, given the attributes A of the     *)
(* call and those it got from get_attrs.                                   *)
(* An item that the attributes of the call satisfy before one they do not  *)
(* makes the array of names overflow: get_attrs sees as many of its places *)
(* as there are missing items, some of them never written.  When none of   *)
(* the attributes asked for exists the count of them has no value.         *)
(***************************************************************************)
Matching(f, j, A, got) ==
  LET q == Query[f]
      known == {i \in DOMAIN q : q[i] \in A}
      missing == DOMAIN q \ known
      found == {i \in missing : q[i] \in got}
      unfit == {i \in found : ~Fitting(f, j, q[i])} IN
  IF \E i \in known : ~Fitting(f, j, q[i]) THEN {"no"}
  ELSE IF missing = {} THEN {"match"}
  ELSE IF \E i \in missing, k \in known : k < i
       THEN {"no", "crash"} \cup
              (IF \E i \in unfit : i <= Cardinality(missing) THEN {} ELSE {"match"})
  ELSE IF found = {} THEN {"match", "crash"}
  ELSE IF found # missing \/ unfit # {} THEN {"no"}
  ELSE {"match"}

\* The attributes it asks get_attrs for.
Asked(f, j, A) ==
  LET q == Query[f]
      missing == {i \in DOMAIN q : q[i] \notin A} IN
  IF \E i \in DOMAIN q \ missing : ~Fitting(f, j, q[i]) THEN {}
  ELSE {q[i] : i \in {k \in missing : k <= Cardinality(missing)}}

\* What the deferred function looks at; attributes of a file are those any of
\* the feeds asks for.
NewAttrs(p) ==
  LET w == Head(p.queue) IN
  IF w.kind = "file" THEN w.attrs \cap UNION {Wants[f] : f \in p.cache} ELSE w.attrs

\* match_attr_deferred, match_attr_multi_deferred, match_file_deferred: the
\* feeds of the slave, one after another; doit looks at the feed's attributes.
\* A file that cannot be opened leaves the function in the queue.
StartMatch(s) ==
  LET w == Head(slave[s].queue) IN
  /\ At(s, "deferred") /\ w.kind \in {"attr", "multi", "file"}
  /\ \/ Becomes(s, [Set(s, "match") EXCEPT
           !.todo = {f \in slave[s].cache : w.kind = "file" \/ Wants[f] \cap w.attrs # {}}])
     \/ Crashes /\ w.kind = "file" /\ slave[s].cache # {} /\ Becomes(s, Set(s, "idle"))
  /\ UNCHANGED <<stored, file, feeds, fed, calls, index, asked, before, fedPast, lost, missed>>

\* The next feed, or the end of the function.
MatchFeed(s) ==
  /\ At(s, "match")
  /\ \/ slave[s].todo = {} /\ Finished(s)
     \/ \E f \in slave[s].todo :
          Becomes(s, [Set(s, "next") EXCEPT !.todo = @ \ {f}, !.feed = {f},
                                            !.left = Head(slave[s].queue).jobs])
  /\ UNCHANGED <<stored, file, feeds, fed, calls, index, asked, before, fedPast, lost, missed>>

\* Done with the feed.
NextFeed(s) ==
  Becomes(s, [Idle(slave[s].cache) EXCEPT
               !.pc = "match", !.queue = slave[s].queue, !.todo = slave[s].todo])

\* The next job of the call; get_attrs begins with the metadata.
NextJob(s) ==
  LET A == NewAttrs(slave[s])
      f == FeedOf(s) IN
  /\ At(s, "next")
  /\ \/ \E j \in slave[s].left :
          Becomes(s, [Set(s, "find") EXCEPT !.left = @ \ {j}, !.job = {j},
                       !.ask = Asked(f, j, A) \ {Owner}, !.got = Asked(f, j, A) \cap {Owner}])
     \/ /\ slave[s].left = {}
        /\ IF slave[s].jobs = {} /\ Head(slave[s].queue).kind # "multi" THEN NextFeed(s)
           ELSE Becomes(s, Set(s, "check"))
  /\ UNCHANGED <<stored, file, feeds, fed, calls, index, asked, before, fedPast, lost, missed>>

\* is_feed_matching returns.
FeedMatches(s) ==
  LET j == JobOf(s)
      verdict == Matching(FeedOf(s), j, NewAttrs(slave[s]), slave[s].got) IN
  /\ At(s, "find") /\ slave[s].ask = {}
  /\ \/ \E v \in verdict \ {"crash"} :
          Becomes(s, [Set(s, "next") EXCEPT !.job = {}, !.got = {},
                                            !.jobs = IF v = "match" THEN @ \cup {j} ELSE @])
     \/ "crash" \in verdict /\ Dead(s)
  /\ UNCHANGED <<stored, file, feeds, fed, calls, index, asked, before, fedPast, lost, missed>>

\* Mutant: the jobs are marked before they are sent.
CheckFed_Mark(s) ==
  LET f == FeedOf(s)
      A == NewAttrs(slave[s])
      new == {j \in slave[s].jobs : Head(slave[s].queue).kind # "multi" /\ <<f, j>> \notin fed} IN
  /\ At(s, "check")
  /\ Becomes(s, IF new = {}
                 THEN [Set(s, "send") EXCEPT !.batch = {<<j, A>> : j \in slave[s].jobs}]
                 ELSE [Set(s, "full") EXCEPT !.job = new, !.mark = new,
                                             !.ask = Wants[f] \ {Owner}, !.got = {Owner}])
  /\ fed' = fed \cup ({f} \X new)
  /\ UNCHANGED <<stored, file, feeds, calls, index, asked, before, fedPast, lost, missed>>

\* check_fed of match_feed, and the beginning of full_feed.  match_feed_multi
\* sends what is new of every job, and would mark those that are marked.
CheckFed(s) ==
  LET f == FeedOf(s)
      A == NewAttrs(slave[s])
      new == {j \in slave[s].jobs : Head(slave[s].queue).kind # "multi" /\ <<f, j>> \notin fed} IN
  /\ At(s, "check")
  /\ Becomes(s, IF new = {}
                 THEN [Set(s, "send") EXCEPT !.batch = {<<j, A>> : j \in slave[s].jobs}]
                 ELSE [Set(s, "full") EXCEPT !.job = new, !.mark = new,
                                             !.ask = Wants[f] \ {Owner}, !.got = {Owner}])
  /\ UNCHANGED <<stored, file, feeds, fed, calls, index, asked, before, fedPast, lost, missed>>

\* Mutant: only what is new is sent of a job that was not fed yet.
FullFeed_New(s) ==
  /\ At(s, "full") /\ slave[s].ask = {}
  /\ Becomes(s, [Set(s, "send") EXCEPT !.job = {}, !.got = {},
                   !.batch = {<<JobOf(s), NewAttrs(slave[s])>>}])
  /\ UNCHANGED <<stored, file, feeds, fed, calls, index, asked, before, fedPast, lost, missed>>

\* full_feed returns all it has found of what the feed asks for, and the owner.
FullFeed(s) ==
  /\ At(s, "full") /\ slave[s].ask = {}
  /\ Becomes(s, [Set(s, "send") EXCEPT !.job = {}, !.got = {},
                   !.batch = {<<JobOf(s), slave[s].got>>}])
  /\ UNCHANGED <<stored, file, feeds, fed, calls, index, asked, before, fedPast, lost, missed>>

\* UpdateJobs of the index server takes the batch, or fails.
Delivered(f, b) ==
  /\ index' = [index EXCEPT ![f] = [j \in Job |->
                 @[j] \cup UNION {{Owner} \cup r[2] : r \in {x \in b : x[1] = j}}]]
  /\ UNCHANGED lost

Faulted(f, b) ==
  /\ Faults
  /\ lost' = lost \cup {<<f, r[1]>> : r \in b}
  /\ UNCHANGED index

\* single_feed or multi_feed.  After a fault the job is not marked.
Send(s) ==
  /\ At(s, "send")
  /\ \/ /\ Delivered(FeedOf(s), slave[s].batch)
        /\ IF slave[s].mark = {} THEN NextFeed(s)
           ELSE Becomes(s, [Set(s, "mark") EXCEPT !.batch = {}])
     \/ Faulted(FeedOf(s), slave[s].batch) /\ NextFeed(s)
  /\ UNCHANGED <<stored, file, feeds, fed, calls, asked, before, fedPast, missed>>

SetFed(s) ==
  /\ At(s, "mark")
  /\ fed' = fed \cup ({FeedOf(s)} \X slave[s].mark)
  /\ NextFeed(s)
  /\ UNCHANGED <<stored, file, feeds, calls, index, asked, before, fedPast, lost, missed>>

-----------------------------------------------------------------------------
(* Past jobs and registration *)

\* Mutant: jobs with a value that does not fit are selected.
Selected_All(f, j) == stored[j] # {}

\* The where clause of glite_jppsbe_query: the metadata items.
Selected(f, j) == stored[j] # {} /\ (\A i \in DOMAIN Query[f] :
                                       Query[f][i] = Owner => Fitting(f, j, Owner))

\* The query; no metadata item in it is EINVAL.
RunQuery(s) ==
  LET w == Head(slave[s].queue) IN
  /\ At(s, "deferred") /\ w.kind = "run"
  /\ \/ /\ \E i \in DOMAIN Query[w.feed] : Query[w.feed][i] = Owner
        /\ Becomes(s, [Set(s, "run") EXCEPT
                        !.feed = {w.feed}, !.left = {j \in Job : Selected(w.feed, j)}])
     \/ /\ Crashes \/ \A i \in DOMAIN Query[w.feed] : Query[w.feed][i] # Owner
        /\ Becomes(s, [Idle(slave[s].cache) EXCEPT
                        !.queue = <<[kind |-> "freed"]>> \o Tail(slave[s].queue)])
  /\ UNCHANGED <<stored, file, feeds, fed, calls, index, asked, before, fedPast, lost, missed>>

\* feed_query_callback drains a full batch.
Full(n) == n >= BatchSize

\* feed_query_callback asks for the attributes of the feed and of its query.
QueryCallback(s, j) ==
  LET f == FeedOf(s) IN
  /\ At(s, "run") /\ j \in slave[s].left /\ ~Full(Cardinality(slave[s].batch))
  /\ Becomes(s, [Set(s, "past") EXCEPT !.left = @ \ {j}, !.job = {j},
                   !.ask = (Wants[f] \cup {Query[f][i] : i \in DOMAIN Query[f]}) \ {Owner}])
  /\ UNCHANGED <<stored, file, feeds, fed, calls, index, asked, before, fedPast, lost, missed>>

\* Unknown values cannot match, a job without any of the attributes asked for
\* (the owner does not count) is not sent.
StackJob(s) ==
  LET f == FeedOf(s)
      j == JobOf(s)
      out == slave[s].got \cap Wants[f]
      fits == \A i \in DOMAIN Query[f] :
                Query[f][i] # Owner => Query[f][i] \in slave[s].got /\ Fitting(f, j, Query[f][i]) IN
  /\ At(s, "past") /\ slave[s].ask = {}
  /\ Becomes(s, [Set(s, "run") EXCEPT !.job = {}, !.got = {},
                   !.batch = IF fits /\ out # {} THEN @ \cup {<<j, out>>} ELSE @])
  /\ UNCHANGED <<stored, file, feeds, fed, calls, index, asked, before, fedPast, lost, missed>>

\* drain_feed: multi_feed drops the fault, so the jobs are marked either way.
DrainFeed(s) ==
  LET f == FeedOf(s) IN
  /\ At(s, "run") /\ slave[s].batch # {}
  /\ slave[s].left = {} \/ Full(Cardinality(slave[s].batch))
  /\ Delivered(f, slave[s].batch) \/ Faulted(f, slave[s].batch)
  /\ fed' = IF f \in Continuous THEN fed \cup {<<f, r[1]>> : r \in slave[s].batch} ELSE fed
  /\ Becomes(s, [slave[s] EXCEPT !.batch = {}])
  /\ UNCHANGED <<stored, file, feeds, calls, asked, before, fedPast, missed>>

\* Mutant: the last batch is not drained.
QueryEnds_NoDrain(s) ==
  /\ At(s, "run") /\ slave[s].left = {}
  /\ fedPast' = fedPast \cup slave[s].feed
  /\ Finished(s)
  /\ UNCHANGED <<stored, file, feeds, fed, calls, index, asked, before, lost, missed>>

QueryEnds(s) ==
  /\ At(s, "run") /\ slave[s].left = {} /\ slave[s].batch = {}
  /\ fedPast' = fedPast \cup slave[s].feed
  /\ Finished(s)
  /\ UNCHANGED <<stored, file, feeds, fed, calls, index, asked, before, lost, missed>>

\* register_feed_deferred; the slaves are told to restart.  It is done, too, when
\* store_feed fails.
RegisterFeed(s) ==
  LET w == Head(slave[s].queue) IN
  /\ At(s, "deferred") /\ w.kind = "register"
  /\ \/ feeds' = feeds \cup {w.feed}
     \/ Crashes /\ UNCHANGED feeds
  /\ Finished(s)
  /\ UNCHANGED <<stored, file, fed, calls, index, asked, before, fedPast, lost, missed>>

\* The function that failed has freed its argument and is still in the queue.
CallFreed(s) ==
  /\ At(s, "deferred") /\ Head(slave[s].queue).kind = "freed"
  /\ Dead(s)
  /\ UNCHANGED <<stored, file, feeds, fed, calls, index, asked, before, fedPast, lost, missed>>

\* A slave gets killed, with its queue.
Die(s) ==
  /\ Crashes /\ ~At(s, "dead")
  /\ Dead(s)
  /\ UNCHANGED <<stored, file, feeds, fed, calls, index, asked, before, fedPast, lost, missed>>

\* The master forks a slave in place of one that has died or, told to restart,
\* has left; the new one purges the feeds that have expired and reads the rest.
StartSlave(s, expired) ==
  /\ At(s, "dead") \/ At(s, "idle")
  /\ expired \subseteq feeds \ Subscribed
  /\ feeds' = feeds \ expired
  /\ fed' = {x \in fed : x[1] \notin expired}
  /\ Becomes(s, Idle(feeds \ expired))
  /\ UNCHANGED <<stored, file, calls, index, asked, before, fedPast, lost, missed>>

Call(s) ==
  \/ \E j \in Job : RegisterJob(s, j) \/ \E A \in SUBSET FileAttr : CommitUpload(s, j, A)
  \/ \E k \in {"attr", "multi"}, J \in SUBSET Job, a \in Tag : RecordTags(s, k, J, a)
  \/ \E f \in Feed : FeedIndex(s, f)

Tagging(s) ==
  \/ \E j \in Job : OpenTags(s, j)
  \/ CreateTags(s) \/ CloseTags(s) \/ RewriteTags(s) \/ WriteTags(s) \/ FailTags(s)

Deferred(s) ==
  \/ StartMatch(s) \/ MatchFeed(s) \/ NextJob(s) \/ GetAttr(s) \/ FeedMatches(s)
  \/ CheckFed(s) \/ FullFeed(s) \/ Send(s) \/ SetFed(s)
  \/ RunQuery(s) \/ StackJob(s) \/ DrainFeed(s) \/ QueryEnds(s)
  \/ RegisterFeed(s) \/ CallFreed(s)
  \/ \E j \in Job : QueryCallback(s, j)

Next ==
  \E s \in Slave :
    \/ Call(s) \/ Tagging(s) \/ Deferred(s) \/ Die(s)
    \/ \E expired \in SUBSET feeds : StartSlave(s, expired)

Spec == Init /\ [][Next]_vars

-----------------------------------------------------------------------------
(* Properties *)

\* Every variable holds a value of its type, and a slave that works on a call,
\* a feed or a job has one, and a deferred function to come back to.
TypeOK ==
  /\ stored \in [Job -> SUBSET Attr] /\ file \in [Job -> {"absent", "ok", "corrupt"}]
  /\ feeds \subseteq asked /\ asked \subseteq Feed /\ fedPast \subseteq asked
  /\ fed \subseteq Feed \X Job /\ lost \subseteq Feed \X Job /\ missed \subseteq Job
  /\ index \in [Feed -> [Job -> SUBSET Attr]]
  /\ before \in [Feed -> [Job -> SUBSET Attr]]
  /\ slave \in [Slave -> Process] /\ calls \in 0 .. MaxCalls
  /\ \A s \in Slave :
       /\ slave[s].pc \in Recording => \E w \in Work : slave[s].call = {w}
       /\ slave[s].pc \notin Recording \cup {"idle", "dead"} => slave[s].queue # <<>>
       /\ slave[s].pc \in Reading \cup {"next", "check", "send", "mark", "run"} =>
            \E f \in Feed : slave[s].feed = {f}
       /\ slave[s].pc \in Reading \cup (Recording \ {"open"}) => \E j \in Job : slave[s].job = {j}

\* The job satisfies the query of the feed.
Satisfies(f, j) ==
  \A i \in DOMAIN Query[f] : Query[f][i] \in stored[j] /\ Fitting(f, j, Query[f][i])

Quiet == \A s \in Slave : At(s, "idle")

\* Whatever slaves work on the same job at the same time, once they rest every
\* attribute stored since the subscription is at the index server of every
\* feed that asks for it and whose query the job satisfies, unless a slave
\* looked for a tag while another was rewriting the file it was in, or a call
\* failed after it had recorded a tag.
KeptUpToDate ==
  Quiet => \A f \in Subscribed, j \in Job \ missed : Satisfies(f, j) =>
    (stored[j] \ Old[j]) \cap (Wants[f] \ {Owner}) \subseteq index[f][j]

\* A job that is marked as fed is complete at the index server, with what was
\* stored before the subscription too: two slaves that both find it unmarked,
\* or one of them only, do not leave a hole, unless they missed a tag as above.
FedIsComplete ==
  Quiet => \A f \in Subscribed, j \in Job \ missed : <<f, j>> \in fed =>
    stored[j] \cap Wants[f] \subseteq index[f][j]

\* The conditions on the metadata come first in the query of the feed.
MetadataFirst(f) ==
  \A i, k \in DOMAIN Query[f] : i < k /\ Query[f][k] = Owner => Query[f][i] = Owner

\* No job gets to an index server that the conditions on the metadata of a job
\* exclude from its feed, neither as a past job nor with a new attribute, and
\* whatever is_feed_matching makes of the other conditions.
OnlyMatching ==
  \A f \in Feed, j \in Job : MetadataFirst(f) /\ index[f][j] # {} =>
    \A i \in DOMAIN Query[f] : Query[f][i] = Owner => Fitting(f, j, Owner)

\* When the feed of past jobs has ended, everything that the feed asks for and
\* that could be read when FeedIndex was called and ever since has been sent,
\* whatever was stored meanwhile and whichever slave died, unless the index
\* server refused it.
HistoryDelivered ==
  \A f \in fedPast, j \in Job :
    (\A i \in DOMAIN Query[f] : Query[f][i] \in before[f][j] /\ Fitting(f, j, Query[f][i])) =>
      before[f][j] \cap (Wants[f] \ {Owner}) \subseteq index[f][j] \/ <<f, j>> \in lost

\* The comment of set_fed: a job marked as fed has been sent to the feed.  A
\* call that failed is the only thing that can make the mark untrue.
FedMeansDelivered == \A x \in fed : index[x[1]][x[2]] # {} \/ x \in lost
=============================================================================
