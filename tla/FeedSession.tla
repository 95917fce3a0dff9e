----------------------------- MODULE FeedSession -----------------------------
(***************************************************************************)
(* A feed session between a JP Index Server (IS) and a JP Primary Storage  *)
(* (PS): the feed loop of the IS that asks for feeds and refreshes them,   *)
(* the PS slaves that answer, run the history feed and register the feed,  *)
(* and the IS slaves that take the batches in UpdateJobs.                  *)
(*                                                                         *)
(* Every SQL statement on a feeds table is one step.  A row of the IS has  *)
(* one writer of its lock, the single feed loop, so the select and the     *)
(* update of lockSearchFeed are one step; its state column has two.        *)
(*                                                                         *)
(* Times are kept as the time that remains, so there is no clock: Tick     *)
(* lets every deadline come nearer.                                        *)
(***************************************************************************)
EXTENDS Integers

CONSTANTS Feed,            \* rows of the table feeds of the IS (uniqueid)
          Id,              \* identifiers generate_feedid returns
          History,         \* configured feeds that ask for past data
          Continuous,      \* configured feeds that ask for future updates
          FeedTTL,         \* FEED_TTL of the PS
          ReconnectTime,   \* RECONNECT_TIME of the IS
          ReactionTime,    \* REACTION_TIME of the IS
          MaxTries,        \* 10 of feed_caller
          MaxJobs,         \* bound on the jobs a history query finds
          BatchSize,       \* BATCH_FEED_SIZE
          Faults,          \* can calls between the servers fail?
          CredFaults,      \* can refresh_gsoap fail?
          Crashes,         \* can the IS or its feed loop die?
          Prompt,          \* do calls take no time?
          None

ASSUME FeedAssumption ==
  /\ History \subseteq Feed /\ Continuous \subseteq Feed
  /\ None \notin Feed \cup Id
  /\ {FeedTTL, ReconnectTime, ReactionTime, MaxTries, BatchSize} \subseteq Nat \ {0}
  /\ MaxJobs \in Nat
  /\ {Faults, CredFaults, Crashes, Prompt} \subseteq BOOLEAN

VARIABLES
  row,         \* IS: table feeds
  conf,        \* IS: does the configuration know the rows' uniqueids?
  caller,      \* IS: the feed loop process
  sess,        \* PS: the slave that works on a FeedIndex, by its feed id
  registered,  \* PS: the keys of table feeds
  left,        \* PS: the time to the expiry of every feed in it
  finished     \* history: feeds whose batch with feedDone has been sent

vars == <<row, conf, caller, sess, registered, left, finished>>

NULL == -1

Status == [done: BOOLEAN, error: BOOLEAN]

\* HIST and CONT of the state column repeat the configuration; DONE and ERROR
\* are the bits that change.
Row == [feedid: Id \cup {None}, state: Status, locked: BOOLEAN,
        expires: 0..ReconnectTime \cup 0..FeedTTL \cup {NULL}]

NewState == [done |-> FALSE, error |-> FALSE]
NewRow == [feedid |-> None, state |-> NewState, locked |-> FALSE, expires |-> NULL]

Caller == [pc: {"asleep", "search", "attempt", "call", "store", "unlock", "giveup", "dead"},
           init: BOOLEAN,            \* initialized of feed_caller
           worked: BOOLEAN,          \* result of feed_caller
           sleep: 0..ReactionTime,
           u: Feed \cup {None}, id: Id \cup {None},
           state: Status,            \* status, as read when the row was locked
           tries: 0..MaxTries]

Asleep(t) == [pc |-> "asleep", init |-> FALSE, worked |-> FALSE, sleep |-> t,
              u |-> None, id |-> None, state |-> NewState, tries |-> 0]

Session == [pc: {"none", "run", "batch", "call", "update", "register", "refresh"},
            u: Feed \cup {None},     \* the configured feed it was asked for
            jobs: 0..MaxJobs,        \* jobs not sent yet
            last: BOOLEAN,           \* feedDone of the batch being sent
            row: Feed \cup {None},   \* UpdateJobs: the row selected and
            state: Status,           \*   its state
            expires: NULL..FeedTTL]  \* expires of the feed to register

NoSession == [pc |-> "none", u |-> None, jobs |-> 0, last |-> FALSE, row |-> None,
              state |-> NewState, expires |-> 0]

\* initDatabaseFeeds has run, the feed loop waits LAUNCH_TIME.
Init ==
  /\ row = [u \in Feed |-> NewRow]
  /\ conf = TRUE
  /\ caller = Asleep(0)
  /\ sess = [i \in Id |-> NoSession]
  /\ registered = {}
  /\ left = [i \in Id |-> 0]
  /\ finished = {}

-----------------------------------------------------------------------------
(* The feed loop of the Index Server *)

\* Mutant: the loop sleeps RECONNECT_TIME when there is nothing to do.
NextPass_Slow(c) ==
  IF ~c.init THEN [Asleep(0) EXCEPT !.pc = "search", !.init = TRUE, !.worked = c.worked]
  ELSE IF c.worked THEN [Asleep(0) EXCEPT !.pc = "search"]
  ELSE Asleep(ReconnectTime)

\* The two passes of feed_caller, and feed_loop_slave around them.
NextPass(c) ==
  IF ~c.init THEN [Asleep(0) EXCEPT !.pc = "search", !.init = TRUE, !.worked = c.worked]
  ELSE IF c.worked THEN [Asleep(0) EXCEPT !.pc = "search"]
  ELSE Asleep(ReactionTime)

Wake ==
  /\ caller.pc = "asleep" /\ caller.sleep = 0
  /\ caller' = [caller EXCEPT !.pc = "search"]
  /\ UNCHANGED <<row, conf, sess, registered, left, finished>>

Due(r) == r.expires # NULL /\ r.expires = 0

\* Mutant: a feed in the error state is never taken up again.
Eligible_NoRetry(r, init) ==
  /\ ~r.locked
  /\ IF init THEN r.feedid # None /\ Due(r)
     ELSE r.feedid = None /\ ~r.state.error

\* The where clauses of lockSearchFeed.
Eligible(r, init) ==
  /\ ~r.locked
  /\ IF init THEN r.feedid # None /\ Due(r)
     ELSE r.feedid = None /\ (~r.state.error \/ Due(r))

LockSearchFeed(u) ==
  /\ caller.pc = "search"
  /\ Eligible(row[u], caller.init)
  /\ row' = [row EXCEPT ![u].locked = TRUE]
  /\ caller' = [caller EXCEPT !.pc = "attempt", !.u = u, !.id = row[u].feedid,
                              !.state = row[u].state, !.tries = 0]
  /\ UNCHANGED <<conf, sess, registered, left, finished>>

NoMoreFeeds ==
  /\ caller.pc = "search"
  /\ \A u \in Feed : ~Eligible(row[u], caller.init)
  /\ caller' = NextPass(caller)
  /\ UNCHANGED <<row, conf, sess, registered, left, finished>>

\* Mutant: one attempt too many.
Failed_Off(c) ==
  IF c.tries <= MaxTries THEN [c EXCEPT !.pc = "attempt", !.tries = @ + 1]
  ELSE [c EXCEPT !.pc = "giveup", !.tries = MaxTries]

\* A failed attempt; feed_caller makes MaxTries of them.
Failed(c) ==
  IF c.tries + 1 < MaxTries THEN [c EXCEPT !.pc = "attempt", !.tries = @ + 1]
  ELSE [c EXCEPT !.pc = "giveup", !.tries = MaxTries]

\* refresh_gsoap, and find_dest_index in MyFeedIndex: an error here returns
\* with the row still locked.
Attempt ==
  /\ caller.pc = "attempt"
  /\ \/ /\ caller.init \/ conf
        /\ caller' = [caller EXCEPT !.pc = "call"]
     \/ /\ CredFaults \/ (~caller.init /\ ~conf)
        /\ caller' = Failed(caller)
  /\ UNCHANGED <<row, conf, sess, registered, left, finished>>

Unused(i) ==
  /\ sess[i].pc = "none" /\ i \notin registered /\ caller.id # i
  /\ \A u \in Feed : row[u].feedid # i

\* What the PS does in FeedIndex before it replies: it makes up an id and
\* defers the history feed and the registration.
FeedIndex(u, i) ==
  /\ u \in History \cup Continuous
  /\ Unused(i)
  /\ sess' = [sess EXCEPT ![i] =
                [NoSession EXCEPT !.pc = IF u \in History THEN "run" ELSE "register",
                                  !.u = u, !.expires = FeedTTL]]
  /\ finished' = finished \ {i}
  /\ UNCHANGED <<registered, left>>

\* FeedIndexRefresh: an update of no row is a success too.
FeedIndexRefresh(i) ==
  /\ left' = [left EXCEPT ![i] = IF i \in registered THEN FeedTTL ELSE @]
  /\ UNCHANGED <<sess, registered, finished>>

\* The request is served and the reply arrives.
Served ==
  /\ caller.pc = "call"
  /\ \/ /\ ~caller.init
        /\ \E i \in Id : FeedIndex(caller.u, i)
                           /\ caller' = [caller EXCEPT !.pc = "store", !.id = i,
                                                       !.state = NewState]
     \/ /\ caller.init
        /\ FeedIndexRefresh(caller.id)
        /\ caller' = [caller EXCEPT !.pc = "store", !.state.error = FALSE]
  /\ UNCHANGED <<row, conf>>

\* Mutant: the fault leaves the row locked.
CallFault_NoUnlock ==
  /\ caller.pc = "call"
  /\ \/ Faults /\ UNCHANGED <<sess, registered, left, finished>>
     \/ /\ Faults
        /\ IF caller.init THEN FeedIndexRefresh(caller.id)
           ELSE \E i \in Id : FeedIndex(caller.u, i)
     \/ /\ ~caller.init /\ caller.u \notin History \cup Continuous
        /\ UNCHANGED <<sess, registered, left, finished>>
  /\ caller' = Failed(caller)
  /\ UNCHANGED <<row, conf>>

\* The call fails: the request did not arrive, was refused, or was served and
\* the reply is lost.  unlockFeed follows, the attempts go on without it.
CallFault ==
  /\ caller.pc = "call"
  /\ \/ Faults /\ UNCHANGED <<sess, registered, left, finished>>
     \/ /\ Faults
        /\ IF caller.init THEN FeedIndexRefresh(caller.id)
           ELSE \E i \in Id : FeedIndex(caller.u, i)
     \/ /\ ~caller.init /\ caller.u \notin History \cup Continuous
        /\ UNCHANGED <<sess, registered, left, finished>>
  /\ row' = [row EXCEPT ![caller.u].locked = FALSE]
  /\ caller' = Failed(caller)
  /\ UNCHANGED conf

\* Both MyFeedIndex and initFeed halve the time to the expiry.  A feed that is
\* not continuous comes with feedExpires = 0, the epoch: it is due at once.
IndexExpires(e) == IF e < 0 THEN 0 ELSE (e \div 2) \div 2

InitFeed ==
  /\ caller.pc = "store"
  /\ row' = [row EXCEPT ![caller.u] =
               [feedid |-> caller.id, state |-> caller.state, locked |-> @.locked,
                expires |-> IndexExpires(IF caller.init \/ caller.u \in Continuous
                                         THEN FeedTTL ELSE -FeedTTL)]]
  /\ caller' = [caller EXCEPT !.pc = "unlock"]
  /\ UNCHANGED <<conf, sess, registered, left, finished>>

UnlockFeed ==
  /\ caller.pc = "unlock"
  /\ row' = [row EXCEPT ![caller.u].locked = FALSE]
  /\ caller' = NextPass([caller EXCEPT !.worked = TRUE])
  /\ UNCHANGED <<conf, sess, registered, left, finished>>

\* tryReconnectFeed, or destroyTryReconnectFeed when a refresh fails in the
\* error state.
GiveUp ==
  /\ caller.pc = "giveup"
  /\ row' = [row EXCEPT ![caller.u] =
               IF ~caller.init \/ ~caller.state.error
               THEN [@ EXCEPT !.state = [caller.state EXCEPT !.error = TRUE],
                              !.expires = ReconnectTime \div (IF caller.init THEN 2 ELSE 1)]
               ELSE [@ EXCEPT !.feedid = None, !.state = NewState, !.expires = 0]]
  /\ caller' = NextPass([caller EXCEPT !.worked = TRUE])
  /\ UNCHANGED <<conf, sess, registered, left, finished>>

-----------------------------------------------------------------------------
(* The Primary Storage after the reply to FeedIndex, and UpdateJobs of the   *)
(* Index Server, which its batches call                                      *)

\* Deferred functions run in the order they were added.
AfterHistory(x) == IF x.u \in Continuous THEN [x EXCEPT !.pc = "register"] ELSE NoSession

\* run_feed_deferred: the query.  No job found is ENOENT, and not an error.
RunFeed(i) ==
  /\ sess[i].pc = "run"
  /\ \E n \in 0..MaxJobs :
       sess' = [sess EXCEPT ![i] = [@ EXCEPT !.pc = "batch", !.jobs = n]]
  /\ UNCHANGED <<row, conf, caller, registered, left, finished>>

\* feed_query_callback drains a full batch with done = 0; the drain after the
\* query sends what is left with done = 1, if anything is.
DrainFeed(i) ==
  LET x == sess[i] IN
  /\ x.pc = "batch"
  /\ \/ /\ x.jobs >= BatchSize
        /\ sess' = [sess EXCEPT ![i] = [x EXCEPT !.pc = "call", !.last = FALSE,
                                                 !.jobs = x.jobs - BatchSize]]
        /\ UNCHANGED finished
     \/ /\ x.jobs \in 1..(BatchSize - 1)
        /\ sess' = [sess EXCEPT ![i] = [x EXCEPT !.pc = "call", !.last = TRUE, !.jobs = 0]]
        /\ finished' = finished \cup {i}
     \/ /\ x.jobs = 0
        /\ sess' = [sess EXCEPT ![i] = AfterHistory(x)]
        /\ UNCHANGED finished
  /\ UNCHANGED <<row, conf, caller, registered, left>>

\* UpdateJobs: the row with the feed's id.  Without one it faults, and the PS
\* goes on as if the batch had arrived: multi_feed drops the fault.
UpdateJobs(i) ==
  /\ sess[i].pc = "call"
  /\ \/ \E u \in Feed :
          /\ row[u].feedid = i
          /\ sess' = [sess EXCEPT ![i] = [@ EXCEPT !.pc = "update", !.row = u,
                                                   !.state = row[u].state]]
     \/ /\ Faults \/ \A u \in Feed : row[u].feedid # i
        /\ sess' = [sess EXCEPT ![i].pc = "batch"]
  /\ UNCHANGED <<row, conf, caller, registered, left, finished>>

\* Mutant: feedDone is taken for every batch.
UpdateState_AnyBatch(i) ==
  LET x == sess[i] IN
  /\ x.pc = "update"
  /\ row' = [row EXCEPT ![x.row].state = [x.state EXCEPT !.done = TRUE]]
  /\ sess' = [sess EXCEPT ![i] = [x EXCEPT !.pc = "batch", !.row = None, !.state = NewState]]
  /\ UNCHANGED <<conf, caller, registered, left, finished>>

\* The state is written back with DONE, then the jobs are inserted into the
\* tables of the index.
UpdateState(i) ==
  LET x == sess[i] IN
  /\ x.pc = "update"
  /\ row' = IF x.last /\ ~x.state.done
            THEN [row EXCEPT ![x.row].state = [x.state EXCEPT !.done = TRUE]]
            ELSE row
  /\ sess' = [sess EXCEPT ![i] = [x EXCEPT !.pc = "batch", !.row = None, !.state = NewState]]
  /\ UNCHANGED <<conf, caller, registered, left, finished>>

\* register_feed_deferred: store_feed with the expiry computed by FeedIndex...
StoreFeed(i) ==
  LET x == sess[i] IN
  /\ x.pc = "register"
  /\ registered' = registered \cup {i}
  /\ left' = [left EXCEPT ![i] = x.expires]
  /\ sess' = [sess EXCEPT ![i] = [x EXCEPT !.pc = "refresh"]]
  /\ UNCHANGED <<row, conf, caller, finished>>

\* ... and an update to the present one; the slaves are told to restart.
RefreshStored(i) ==
  /\ sess[i].pc = "refresh"
  /\ left' = [left EXCEPT ![i] = IF i \in registered THEN FeedTTL ELSE @]
  /\ sess' = [sess EXCEPT ![i] = NoSession]
  /\ UNCHANGED <<row, conf, caller, registered, finished>>

\* The query, get_attrs or store_feed fails, or the slave is killed: what is
\* left of the deferred work is never done.
SlaveFails(i) ==
  /\ Faults
  /\ sess[i].pc # "none"
  /\ sess' = [sess EXCEPT ![i] = NoSession]
  /\ UNCHANGED <<row, conf, caller, registered, left, finished>>

\* Mutant: the jobs of the expired feeds are deleted, the feeds are not.
PurgeFeeds_JobsOnly ==
  /\ \E i \in registered : left[i] < 0
  /\ UNCHANGED vars

\* A PS slave starts and purges the feeds that have expired.
PurgeFeeds ==
  /\ \E i \in registered : left[i] < 0
  /\ registered' = {i \in registered : left[i] >= 0}
  /\ UNCHANGED <<row, conf, caller, sess, left, finished>>

-----------------------------------------------------------------------------
(* Time and crashes *)

Nearer(t) == IF t > 0 THEN t - 1 ELSE t

Busy == caller.pc \notin {"asleep", "dead"} \/ (caller.pc = "asleep" /\ caller.sleep = 0)
          \/ \E i \in Id : sess[i].pc # "none"

Tick ==
  /\ Prompt => ~Busy
  /\ row' = [u \in Feed |-> [row[u] EXCEPT !.expires = Nearer(@)]]
  /\ caller' = [caller EXCEPT !.sleep = Nearer(@)]
  /\ left' = [i \in Id |-> IF left[i] >= 0 /\ i \in registered THEN left[i] - 1 ELSE left[i]]
  /\ sess' = [i \in Id |-> IF sess[i].pc # "none" /\ sess[i].expires >= 0
                           THEN [sess[i] EXCEPT !.expires = @ - 1] ELSE sess[i]]
  /\ UNCHANGED <<conf, registered, finished>>

\* A statement of the feed loop fails (ENOLCK): it exits, and nothing but a
\* restart of the IS brings it back.
LoopDies ==
  /\ Crashes
  /\ caller.pc = "search"
  /\ caller' = [Asleep(0) EXCEPT !.pc = "dead"]
  /\ UNCHANGED <<row, conf, sess, registered, left, finished>>

\* The IS is restarted.  Without force_feed it keeps the rows and no longer
\* knows their uniqueids; with it the rows are deleted and made anew.
Restart ==
  /\ Crashes
  /\ caller' = Asleep(0)
  /\ sess' = [i \in Id |-> IF sess[i].pc = "update"
                           THEN [sess[i] EXCEPT !.pc = "batch", !.row = None,
                                                !.state = NewState]
                           ELSE sess[i]]
  /\ \/ conf' = FALSE /\ UNCHANGED row
     \/ conf' = TRUE /\ row' = [u \in Feed |-> NewRow]
  /\ UNCHANGED <<registered, left, finished>>

LoopStep ==
  \/ Wake \/ NoMoreFeeds \/ Attempt \/ Served \/ CallFault
  \/ InitFeed \/ UnlockFeed \/ GiveUp
  \/ \E u \in Feed : LockSearchFeed(u)

SessionStep(i) ==
  \/ RunFeed(i) \/ DrainFeed(i) \/ UpdateJobs(i) \/ UpdateState(i)
  \/ StoreFeed(i) \/ RefreshStored(i)

Next ==
  \/ LoopStep
  \/ \E i \in Id : SessionStep(i) \/ SlaveFails(i)
  \/ PurgeFeeds \/ Tick \/ LoopDies \/ Restart

Spec == Init /\ [][Next]_vars

(***************************************************************************)
(* The processes run, time passes, PS slaves are restarted now and then,   *)
(* and a PS that is asked again and again answers some time; an attempt to *)
(* get the credentials is not bound to fail for ever.                      *)
(***************************************************************************)
FairSpec ==
  /\ Spec
  /\ WF_vars(LoopStep)
  /\ SF_vars(Served)
  /\ SF_vars(Attempt /\ caller'.pc = "call")
  /\ \A i \in Id : WF_vars(SessionStep(i))
  /\ WF_vars(PurgeFeeds)
  /\ WF_vars(Tick)

-----------------------------------------------------------------------------
(* Properties *)

\* Every variable holds a value of its type, and the feed loop has a row in
\* hand whenever it works on one.
TypeOK ==
  /\ row \in [Feed -> Row]
  /\ conf \in BOOLEAN
  /\ caller \in Caller
  /\ caller.pc \in {"attempt", "call", "store", "unlock", "giveup"} => caller.u \in Feed
  /\ sess \in [Id -> Session]
  /\ \A i \in Id : sess[i].pc = "update" => sess[i].row \in Feed
  /\ registered \subseteq Id
  /\ left \in [Id -> NULL..FeedTTL]
  /\ finished \subseteq Id

\* A locked row is in the hands of the feed loop: whatever faults of the
\* Primary Storage it meets, it leaves no row locked behind, where no one
\* would ever look at it again.
LockedInHand ==
  \A u \in Feed : row[u].locked =>
    caller.u = u /\ caller.pc \in {"attempt", "call", "store", "unlock", "giveup"}

\* A continuous feed that the PS has registered does not expire there while
\* the IS holds its id: the loop comes round and refreshes it in time.
RefreshedInTime ==
  \A u \in Feed : u \in Continuous /\ row[u].feedid \in Id
                    /\ sess[row[u].feedid].pc = "none" =>
    row[u].feedid \in registered /\ left[row[u].feedid] >= 0

\* Whatever faults it meets, the IS does not give up on a feed: it holds an
\* identifier for every configured feed again and again.
FeedsComeBack == \A u \in Feed : []<>(row[u].feedid # None)

\* A feed the PS knows and the IS does not (its reply was lost, or the IS has
\* given up on it or been restarted) goes away from the PS.
OrphansExpire ==
  \A i \in Id :
    (i \in registered /\ caller.id # i /\ \A u \in Feed : row[u].feedid # i)
      ~> i \notin registered

\* A feed is marked DONE only when the PS has sent its last batch.
DoneMeansSent == \A u \in Feed : row[u].state.done => row[u].feedid \in finished
=============================================================================
