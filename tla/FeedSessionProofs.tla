-------------------------- MODULE FeedSessionProofs --------------------------
(***************************************************************************)
(* Proofs about FeedSession for every set of feeds and identifiers and     *)
(* every length of the time limits: its types, that no row stays locked,   *)
(* that DONE means sent, and that feeds are refreshed in time.             *)
(***************************************************************************)
EXTENDS FeedSession, TLAPS

\* A step is one of the feed loop, of the slaves of the PS, or of their surroundings.
LEMMA StepCases ==
  ASSUME [Next]_vars
  PROVE  \/ Wake \/ NoMoreFeeds \/ Attempt \/ Served \/ CallFault
         \/ InitFeed \/ UnlockFeed \/ GiveUp
         \/ \E u \in Feed : LockSearchFeed(u)
         \/ \E i \in Id : RunFeed(i)
         \/ \E i \in Id : DrainFeed(i)
         \/ \E i \in Id : UpdateJobs(i)
         \/ \E i \in Id : UpdateState(i)
         \/ \E i \in Id : StoreFeed(i)
         \/ \E i \in Id : RefreshStored(i)
         \/ \E i \in Id : SlaveFails(i)
         \/ PurgeFeeds \/ Tick \/ LoopDies \/ Restart
         \/ UNCHANGED vars
BY DEF Next, LoopStep, SessionStep

-----------------------------------------------------------------------------
(* Times, rows, the loop and the sessions.                                  *)

\* The feed loop has a row in hand.
InHand == {"attempt", "call", "store", "unlock", "giveup"}

LEMMA Times ==
  /\ FeedTTL \in Nat /\ FeedTTL > 0 /\ ReconnectTime \in Nat /\ ReactionTime \in Nat
  /\ MaxTries \in Nat /\ MaxTries > 0 /\ BatchSize \in Nat /\ BatchSize > 0 /\ MaxJobs \in Nat
BY FeedAssumption

LEMMA Quarters ==
  /\ IndexExpires(FeedTTL) \in 0 .. FeedTTL
  /\ IndexExpires(-FeedTTL) = 0
  /\ ReconnectTime \div 2 \in 0 .. ReconnectTime /\ ReconnectTime \div 1 \in 0 .. ReconnectTime
BY Times DEF IndexExpires

LEMMA NewStateType == NewState \in Status /\ NewState.done = FALSE
BY DEF NewState, Status

LEMMA NewRowType == NewRow \in Row /\ NewRow.feedid = None /\ NewRow.locked = FALSE /\ NewRow.state = NewState
BY NewStateType DEF NewRow, Row

LEMMA NoSessionType ==
  NoSession \in Session /\ NoSession.pc = "none"
<1>1. 0 \in 0 .. MaxJobs /\ 0 \in NULL .. FeedTTL
  BY Times DEF NULL
<1> QED
  BY <1>1, NewStateType DEF NoSession, Session

LEMMA AsleepType ==
  ASSUME NEW t \in 0 .. ReactionTime
  PROVE  /\ Asleep(t) \in Caller /\ Asleep(t).pc = "asleep" /\ Asleep(t).sleep = t
         /\ Asleep(t).u = None /\ Asleep(t).id = None
<1>1. 0 \in 0 .. MaxTries
  BY Times
<1> QED
  BY <1>1, NewStateType DEF Asleep, Caller

\* The loop has done with its row.
LEMMA NextPassType ==
  ASSUME NEW c, c.worked \in BOOLEAN
  PROVE  /\ NextPass(c) \in Caller
         /\ NextPass(c).pc \in {"search", "asleep"} /\ NextPass(c).u = None
         /\ NextPass(c).pc = "asleep" => NextPass(c) = Asleep(ReactionTime) /\ c.init /\ ~c.worked
<1>1. 0 \in 0 .. ReactionTime /\ ReactionTime \in 0 .. ReactionTime
  BY Times
<1> PICK a \in Caller : a = Asleep(0) /\ a.u = None
  BY <1>1, AsleepType
<1>2. CASE ~c.init
  <2> PICK b \in BOOLEAN : b = c.worked
    OBVIOUS
  <2>1. NextPass(c) = [a EXCEPT !.pc = "search", !.init = TRUE, !.worked = b]
    BY <1>2 DEF NextPass
  <2> QED
    BY <2>1 DEF Caller
<1>3. CASE c.init /\ c.worked
  <2>1. NextPass(c) = [a EXCEPT !.pc = "search"]
    BY <1>3 DEF NextPass
  <2> QED
    BY <2>1 DEF Caller
<1>4. CASE c.init /\ ~c.worked
  <2>1. NextPass(c) = Asleep(ReactionTime)
    BY <1>4 DEF NextPass
  <2> QED
    BY <1>1, <1>4, <2>1, AsleepType
<1> QED
  BY <1>2, <1>3, <1>4

\* Having worked the loop searches again.
LEMMA WorkedSearch ==
  ASSUME NEW d, d.worked = TRUE
  PROVE  NextPass(d) \in Caller /\ NextPass(d).pc = "search"
<1>1. d.worked \in BOOLEAN
  OBVIOUS
<1> QED
  BY <1>1, NextPassType

LEMMA WorkedType ==
  ASSUME NEW c \in Caller, NEW d, d = [c EXCEPT !.worked = TRUE]
  PROVE  NextPass(d) \in Caller /\ NextPass(d).pc = "search"
<1>1. d.worked = TRUE
  BY DEF Caller
<1> QED
  BY <1>1, WorkedSearch

LEMMA ErrorType ==
  ASSUME NEW t \in Status, NEW b \in BOOLEAN, NEW x, x = [t EXCEPT !.error = b]
  PROVE  x \in Status /\ x.done = t.done
BY DEF Status

\* Another attempt, or none.
LEMMA FailedType ==
  ASSUME NEW c \in Caller
  PROVE  /\ Failed(c) \in Caller /\ Failed(c).pc \in {"attempt", "giveup"}
         /\ Failed(c).init = c.init /\ Failed(c).u = c.u /\ Failed(c).id = c.id
         /\ Failed(c).state = c.state
<1> DEFINE n == c.tries + 1
<1>1. /\ n < MaxTries => n \in 0 .. MaxTries
      /\ MaxTries \in 0 .. MaxTries
  BY Times DEF Caller
<1>2. Failed(c) = IF n < MaxTries THEN [c EXCEPT !.pc = "attempt", !.tries = n]
                  ELSE [c EXCEPT !.pc = "giveup", !.tries = MaxTries]
  BY DEF Failed
<1> HIDE DEF n
<1>3. CASE n < MaxTries
  <2>1. n \in 0 .. MaxTries /\ Failed(c) = [c EXCEPT !.pc = "attempt", !.tries = n]
    BY <1>1, <1>2, <1>3
  <2> QED
    BY <2>1 DEF Caller
<1>4. CASE ~(n < MaxTries)
  <2>1. Failed(c) = [c EXCEPT !.pc = "giveup", !.tries = MaxTries]
    BY <1>2, <1>4
  <2> QED
    BY <1>1, <2>1 DEF Caller
<1> QED
  BY <1>3, <1>4

-----------------------------------------------------------------------------
(* What each action does to the rows, the loop and the sessions.            *)

\* A step that changes row u at most, to a proper one.
RowStep(u) ==
  /\ row' \in [Feed -> Row]
  /\ \A v \in Feed \ {u} : row'[v] = row[v]

SameFeed(u) == row'[u].feedid = row[u].feedid /\ row'[u].expires = row[u].expires

\* The loop goes on with the same row.
SameHand ==
  /\ caller' \in Caller /\ caller'.u = caller.u /\ caller'.init = caller.init

LEMMA SetLocked ==
  ASSUME TypeOK, NEW u \in Feed, NEW b \in BOOLEAN, row' = [row EXCEPT ![u].locked = b]
  PROVE  RowStep(u) /\ SameFeed(u) /\ row'[u].state = row[u].state /\ row'[u].locked = b
<1> PICK r \in Row : r = row[u]
  BY DEF TypeOK
<1> PICK x : x = [r EXCEPT !.locked = b]
  OBVIOUS
<1>1. x \in Row /\ x.locked = b /\ x.feedid = r.feedid /\ x.state = r.state /\ x.expires = r.expires
  BY DEF Row
<1>2. row' = [row EXCEPT ![u] = x]
  OBVIOUS
<1>3. row \in [Feed -> Row]
  BY DEF TypeOK
<1>4. row' \in [Feed -> Row] /\ row'[u] = x /\ \A v \in Feed \ {u} : row'[v] = row[v]
  BY <1>1, <1>2, <1>3
<1> QED
  BY <1>1, <1>4 DEF RowStep, SameFeed

LEMMA SetState ==
  ASSUME TypeOK, NEW u \in Feed, NEW t \in Status, row' = [row EXCEPT ![u].state = t]
  PROVE  RowStep(u) /\ SameFeed(u) /\ row'[u].state = t /\ row'[u].locked = row[u].locked
<1> PICK r \in Row : r = row[u]
  BY DEF TypeOK
<1> PICK x : x = [r EXCEPT !.state = t]
  OBVIOUS
<1>1. x \in Row /\ x.locked = r.locked /\ x.feedid = r.feedid /\ x.state = t /\ x.expires = r.expires
  BY DEF Row
<1>2. row' = [row EXCEPT ![u] = x]
  OBVIOUS
<1>3. row \in [Feed -> Row]
  BY DEF TypeOK
<1>4. row' \in [Feed -> Row] /\ row'[u] = x /\ \A v \in Feed \ {u} : row'[v] = row[v]
  BY <1>1, <1>2, <1>3
<1> QED
  BY <1>1, <1>4 DEF RowStep, SameFeed

LEMMA WakeEffect ==
  ASSUME TypeOK, Wake
  PROVE  SameHand /\ caller'.pc = "search"
BY DEF TypeOK, Wake, SameHand, Caller

LEMMA LockEffect ==
  ASSUME TypeOK, NEW u \in Feed, LockSearchFeed(u)
  PROVE  /\ RowStep(u) /\ SameFeed(u) /\ row'[u].state = row[u].state
         /\ caller' \in Caller /\ caller'.pc = "attempt" /\ caller'.u = u
         /\ caller'.id = row[u].feedid /\ caller'.state = row[u].state /\ caller'.init = caller.init
<1>1. RowStep(u) /\ SameFeed(u) /\ row'[u].state = row[u].state
  BY SetLocked DEF LockSearchFeed
<1> PICK n \in 0 .. MaxTries : n = 0
  BY Times
<1> PICK c \in Caller, i \in Id \cup {None}, t \in Status :
      c = caller /\ i = row[u].feedid /\ t = row[u].state
  BY DEF TypeOK, Row
<1>2. caller' = [c EXCEPT !.pc = "attempt", !.u = u, !.id = i, !.state = t, !.tries = n]
  BY DEF LockSearchFeed
<1>3. /\ caller' \in Caller /\ caller'.pc = "attempt" /\ caller'.u = u
      /\ caller'.id = i /\ caller'.state = t /\ caller'.init = c.init
  BY <1>2 DEF Caller
<1> QED
  BY <1>1, <1>3

LEMMA AttemptEffect ==
  ASSUME TypeOK, Attempt
  PROVE  /\ SameHand /\ caller'.id = caller.id /\ caller'.state = caller.state
         /\ caller'.pc \in {"attempt", "call", "giveup"} /\ caller.u \in Feed
         /\ caller'.pc # "call" => CredFaults \/ (~caller.init /\ ~conf)
<1>1. caller \in Caller /\ caller.u \in Feed
  BY DEF TypeOK, Attempt
<1>2. CASE caller' = [caller EXCEPT !.pc = "call"]
  BY <1>1, <1>2 DEF SameHand, Caller
<1>3. CASE caller' = Failed(caller) /\ (CredFaults \/ (~caller.init /\ ~conf))
  BY <1>1, <1>3, FailedType DEF SameHand
<1> QED
  BY <1>2, <1>3 DEF Attempt

\* The slave of the PS that gets the request for feed i.
LEMMA FeedIndexEffect ==
  ASSUME TypeOK, NEW u \in Feed, NEW i \in Id, FeedIndex(u, i)
  PROVE  /\ sess' \in [Id -> Session] /\ \A j \in Id \ {i} : sess'[j] = sess[j]
         /\ sess'[i].pc \in {"run", "register"} /\ sess'[i].u = u /\ sess'[i].expires = FeedTTL
         /\ sess'[i].pc = "register" => u \in Continuous
         /\ finished' = finished \ {i} /\ UNCHANGED <<registered, left>> /\ Unused(i)
<1> PICK e \in NULL .. FeedTTL : e = FeedTTL
  BY Times DEF NULL
<1> PICK p \in {"run", "register"} : p = IF u \in History THEN "run" ELSE "register"
  OBVIOUS
<1> PICK x : x = [NoSession EXCEPT !.pc = p, !.u = u, !.expires = e]
  OBVIOUS
<1>1. x \in Session /\ x.pc = p /\ x.u = u /\ x.expires = e
  BY NoSessionType DEF Session
<1>2. sess' = [sess EXCEPT ![i] = x] /\ sess \in [Id -> Session]
  BY DEF FeedIndex, TypeOK
<1>3. sess' \in [Id -> Session] /\ sess'[i] = x /\ \A j \in Id \ {i} : sess'[j] = sess[j]
  BY <1>1, <1>2
<1> QED
  BY <1>1, <1>3 DEF FeedIndex

LEMMA RefreshEffect ==
  ASSUME TypeOK, NEW i, FeedIndexRefresh(i)
  PROVE  /\ left' \in [Id -> NULL .. FeedTTL] /\ \A j \in Id \ {i} : left'[j] = left[j]
         /\ \A j \in Id : left'[j] = left[j] \/ (j = i /\ left'[j] = FeedTTL)
         /\ i \in registered => left'[i] = FeedTTL
         /\ UNCHANGED <<sess, registered, finished>>
<1> PICK e \in NULL .. FeedTTL : e = FeedTTL
  BY Times DEF NULL
<1>1. left' = [left EXCEPT ![i] = IF i \in registered THEN e ELSE left[i]]
  BY DEF FeedIndexRefresh
<1>2. left \in [Id -> NULL .. FeedTTL] /\ registered \subseteq Id
  BY DEF TypeOK
<1>3. CASE i \in Id
  <2>1. (IF i \in registered THEN e ELSE left[i]) \in NULL .. FeedTTL
    BY <1>2, <1>3
  <2> PICK n \in NULL .. FeedTTL : n = IF i \in registered THEN e ELSE left[i]
    BY <2>1
  <2>2. left' = [left EXCEPT ![i] = n]
    BY <1>1
  <2>3. left' \in [Id -> NULL .. FeedTTL] /\ left'[i] = n /\ \A j \in Id \ {i} : left'[j] = left[j]
    BY <1>2, <1>3, <2>2
  <2> QED
    BY <1>3, <2>3 DEF FeedIndexRefresh
<1>4. CASE i \notin Id
  <2>1. left' = left
    BY <1>1, <1>2, <1>4
  <2> QED
    BY <1>2, <1>4, <2>1 DEF FeedIndexRefresh
<1> QED
  BY <1>3, <1>4

\* A reply: a new feed, or the one that was refreshed.
LEMMA ServedEffect ==
  ASSUME TypeOK, Served
  PROVE  /\ SameHand /\ caller'.pc = "store" /\ caller.u \in Feed
         /\ \/ /\ ~caller.init /\ caller'.state = NewState
               /\ \E i \in Id : FeedIndex(caller.u, i) /\ caller'.id = i
            \/ /\ caller.init /\ caller'.id = caller.id /\ caller'.state.done = caller.state.done
               /\ FeedIndexRefresh(caller.id)
<1>1. caller \in Caller /\ caller.u \in Feed
  BY DEF TypeOK, Served
<1>2. CASE ~caller.init
  <2> PICK i \in Id : /\ FeedIndex(caller.u, i)
                      /\ caller' = [caller EXCEPT !.pc = "store", !.id = i, !.state = NewState]
    BY <1>2 DEF Served
  <2>1. /\ caller' \in Caller /\ caller'.pc = "store" /\ caller'.u = caller.u /\ caller'.id = i
        /\ caller'.init = caller.init /\ caller'.state = NewState
    BY <1>1, NewStateType DEF Caller
  <2> QED
    BY <1>1, <1>2, <2>1 DEF SameHand
<1>3. CASE caller.init
  <2>0. caller.state \in Status
    BY <1>1 DEF Caller
  <2> PICK t \in Status : t = [caller.state EXCEPT !.error = FALSE] /\ t.done = caller.state.done
    BY <2>0, ErrorType
  <2>1. caller' = [caller EXCEPT !.pc = "store", !.state = t] /\ FeedIndexRefresh(caller.id)
    BY <1>1, <1>3 DEF Served, Caller
  <2>2. /\ caller' \in Caller /\ caller'.pc = "store" /\ caller'.u = caller.u
        /\ caller'.id = caller.id /\ caller'.init = caller.init /\ caller'.state = t
    BY <1>1, <2>1 DEF Caller
  <2> QED
    BY <1>1, <1>3, <2>1, <2>2 DEF SameHand
<1> QED
  BY <1>2, <1>3

LEMMA CallFaultEffect ==
  ASSUME TypeOK, CallFault
  PROVE  /\ SameHand /\ caller'.pc \in {"attempt", "giveup"} /\ caller'.id = caller.id
         /\ caller'.state = caller.state /\ caller.u \in Feed
         /\ RowStep(caller.u) /\ SameFeed(caller.u) /\ row'[caller.u].locked = FALSE
         /\ row'[caller.u].state = row[caller.u].state
         /\ \/ UNCHANGED <<sess, registered, left, finished>> /\ (Faults \/ ~caller.init)
            \/ Faults /\ FeedIndexRefresh(caller.id)
            \/ Faults /\ \E i \in Id : FeedIndex(caller.u, i)
<1>1. caller \in Caller /\ caller.u \in Feed
  BY DEF TypeOK, CallFault
<1> PICK u \in Feed : u = caller.u
  BY <1>1
<1>2. row' = [row EXCEPT ![u].locked = FALSE] /\ caller' = Failed(caller)
  BY DEF CallFault
<1>3. RowStep(u) /\ SameFeed(u) /\ row'[u].locked = FALSE /\ row'[u].state = row[u].state
  BY <1>2, SetLocked
<1>4. /\ SameHand /\ caller'.pc \in {"attempt", "giveup"} /\ caller'.id = caller.id
      /\ caller'.state = caller.state
  BY <1>1, <1>2, FailedType DEF SameHand
<1>5. \/ UNCHANGED <<sess, registered, left, finished>> /\ (Faults \/ ~caller.init)
      \/ Faults /\ FeedIndexRefresh(caller.id)
      \/ Faults /\ \E i \in Id : FeedIndex(caller.u, i)
  BY DEF CallFault
<1> QED
  BY <1>1, <1>3, <1>4, <1>5

LEMMA InitFeedEffect ==
  ASSUME TypeOK, InitFeed
  PROVE  /\ SameHand /\ caller'.pc = "unlock" /\ caller.u \in Feed /\ RowStep(caller.u)
         /\ row'[caller.u].feedid = caller.id /\ row'[caller.u].state = caller.state
         /\ caller.u \in Continuous => row'[caller.u].expires = IndexExpires(FeedTTL)
<1>1. caller \in Caller /\ caller.u \in Feed /\ row \in [Feed -> Row]
  BY DEF TypeOK, InitFeed
<1> PICK u \in Feed : u = caller.u
  BY <1>1
<1> PICK e \in 0 .. FeedTTL :
      e = IndexExpires(IF caller.init \/ u \in Continuous THEN FeedTTL ELSE -FeedTTL)
  BY Quarters, Times
<1> PICK x : x = [feedid |-> caller.id, state |-> caller.state, locked |-> row[u].locked, expires |-> e]
  OBVIOUS
<1>2. row[u].locked \in BOOLEAN
  BY <1>1 DEF Row
<1>3. x \in Row /\ x.feedid = caller.id /\ x.state = caller.state /\ x.expires = e
  BY <1>1, <1>2 DEF Row, Caller
<1>4. row' = [row EXCEPT ![u] = x]
  BY DEF InitFeed
<1>5. row' \in [Feed -> Row] /\ row'[u] = x /\ \A v \in Feed \ {u} : row'[v] = row[v]
  BY <1>1, <1>3, <1>4
<1>6. SameHand /\ caller'.pc = "unlock"
  BY <1>1 DEF InitFeed, SameHand, Caller
<1> QED
  BY <1>1, <1>3, <1>5, <1>6 DEF RowStep

LEMMA UnlockEffect ==
  ASSUME TypeOK, UnlockFeed
  PROVE  /\ caller' \in Caller /\ caller'.pc = "search" /\ caller.u \in Feed
         /\ RowStep(caller.u) /\ SameFeed(caller.u) /\ row'[caller.u].locked = FALSE
         /\ row'[caller.u].state = row[caller.u].state
<1>1. caller \in Caller /\ caller.u \in Feed
  BY DEF TypeOK, UnlockFeed
<1> PICK u \in Feed : u = caller.u
  BY <1>1
<1>2. RowStep(u) /\ SameFeed(u) /\ row'[u].locked = FALSE /\ row'[u].state = row[u].state
  BY SetLocked DEF UnlockFeed
<1> PICK c : c = [caller EXCEPT !.worked = TRUE]
  OBVIOUS
<1>3. caller' \in Caller /\ caller'.pc = "search"
  BY <1>1, WorkedType DEF UnlockFeed
<1> QED
  BY <1>1, <1>2, <1>3

\* Giving up: the error state, or no feed any more.
LEMMA GiveUpEffect ==
  ASSUME TypeOK, GiveUp
  PROVE  /\ caller' \in Caller /\ caller'.pc = "search" /\ caller.u \in Feed
         /\ RowStep(caller.u) /\ row'[caller.u].locked = row[caller.u].locked
         /\ \/ /\ row'[caller.u].feedid = row[caller.u].feedid
               /\ row'[caller.u].state.done = caller.state.done
            \/ /\ caller.init /\ row'[caller.u].feedid = None
               /\ row'[caller.u].state = NewState
<1>1. caller \in Caller /\ caller.u \in Feed /\ row \in [Feed -> Row]
  BY DEF TypeOK, GiveUp
<1> PICK u \in Feed, r \in Row : u = caller.u /\ r = row[u]
  BY <1>1
<1> PICK c : c = [caller EXCEPT !.worked = TRUE]
  OBVIOUS
<1>2. caller' \in Caller /\ caller'.pc = "search"
  BY <1>1, WorkedType DEF GiveUp
<1>3. ASSUME NEW x \in Row, row' = [row EXCEPT ![u] = x]
      PROVE  RowStep(u) /\ row'[u] = x
  BY <1>1, <1>3 DEF RowStep
<1>4. CASE ~caller.init \/ ~caller.state.error
  <2>0. caller.state \in Status
    BY <1>1 DEF Caller
  <2> PICK t \in Status : t = [caller.state EXCEPT !.error = TRUE] /\ t.done = caller.state.done
    BY <2>0, ErrorType
  <2> PICK e \in 0 .. ReconnectTime : e = ReconnectTime \div (IF caller.init THEN 2 ELSE 1)
    BY Quarters
  <2> PICK x : x = [r EXCEPT !.state = t, !.expires = e]
    OBVIOUS
  <2>1. x \in Row /\ x.feedid = r.feedid /\ x.state = t /\ x.locked = r.locked
    BY DEF Row
  <2>2. row' = [row EXCEPT ![u] = x]
    BY <1>4 DEF GiveUp
  <2>3. RowStep(u) /\ row'[u] = x
    BY <1>3, <2>1, <2>2
  <2> QED
    BY <1>1, <1>2, <2>1, <2>3
<1>5. CASE ~(~caller.init \/ ~caller.state.error)
  <2> PICK e \in 0 .. FeedTTL : e = 0
    BY Times
  <2> PICK x : x = [r EXCEPT !.feedid = None, !.state = NewState, !.expires = e]
    OBVIOUS
  <2>1. x \in Row /\ x.feedid = None /\ x.state = NewState /\ x.locked = r.locked
    BY NewStateType DEF Row
  <2>2. row' = [row EXCEPT ![u] = x]
    BY <1>5 DEF GiveUp
  <2>3. RowStep(u) /\ row'[u] = x
    BY <1>3, <2>1, <2>2
  <2>4. caller.init
    BY <1>5
  <2> QED
    BY <1>1, <1>2, <2>1, <2>3, <2>4
<1> QED
  BY <1>4, <1>5

LEMMA NoMoreEffect ==
  ASSUME TypeOK, NoMoreFeeds
  PROVE  /\ caller' \in Caller /\ caller'.pc \in {"search", "asleep"}
         /\ caller'.pc = "asleep" =>
              /\ caller'.sleep = ReactionTime
              /\ \A u \in Feed : row[u].locked \/ row[u].feedid = None \/ ~Due(row[u])
<1>1. caller \in Caller /\ caller.worked \in BOOLEAN /\ caller' = NextPass(caller)
  BY DEF TypeOK, NoMoreFeeds, Caller
<1>2. ReactionTime \in 0 .. ReactionTime
  BY Times
<1>3. \A u \in Feed : ~Eligible(row[u], caller.init)
  BY DEF NoMoreFeeds
<1> QED
  BY <1>1, <1>2, <1>3, NextPassType, AsleepType DEF Eligible

\* A step of the slave that works on feed i.
SessStep(i) ==
  /\ sess' \in [Id -> Session]
  /\ \A j \in Id \ {i} : sess'[j] = sess[j]

\* It goes on with the same request.
SameRequest(i) == sess'[i].u = sess[i].u /\ sess'[i].expires = sess[i].expires

LEMMA SessBecomes ==
  ASSUME TypeOK, NEW i \in Id, NEW x \in Session, sess' = [sess EXCEPT ![i] = x]
  PROVE  SessStep(i) /\ sess'[i] = x
BY DEF TypeOK, SessStep

LEMMA RunFeedEffect ==
  ASSUME TypeOK, NEW i \in Id, RunFeed(i)
  PROVE  SessStep(i) /\ SameRequest(i) /\ sess'[i].pc = "batch"
<1> PICK y \in Session, n \in 0 .. MaxJobs :
      y = sess[i] /\ sess' = [sess EXCEPT ![i] = [y EXCEPT !.pc = "batch", !.jobs = n]]
  BY DEF RunFeed, TypeOK
<1> PICK x : x = [y EXCEPT !.pc = "batch", !.jobs = n]
  OBVIOUS
<1>1. x \in Session /\ x.pc = "batch" /\ x.u = y.u /\ x.expires = y.expires
  BY DEF Session
<1>2. SessStep(i) /\ sess'[i] = x
  BY <1>1, SessBecomes
<1> QED
  BY <1>1, <1>2 DEF SameRequest

LEMMA DrainFeedEffect ==
  ASSUME TypeOK, NEW i \in Id, DrainFeed(i)
  PROVE  /\ SessStep(i) /\ sess[i].pc = "batch" /\ (finished' = finished \/ finished' = finished \cup {i})
         /\ \/ /\ SameRequest(i) /\ sess'[i].pc = "call"
               /\ sess'[i].last => finished' = finished \cup {i}
            \/ SameRequest(i) /\ sess'[i].pc = "register" /\ sess[i].u \in Continuous
            \/ sess'[i].pc = "none" /\ sess[i].u \notin Continuous
<1> PICK y \in Session : y = sess[i]
  BY DEF TypeOK
<1>1. y.pc = "batch" /\ (finished' = finished \/ finished' = finished \cup {i})
  BY DEF DrainFeed
<1>2. ASSUME NEW b \in BOOLEAN, NEW n \in 0 .. MaxJobs,
             b = TRUE => finished' = finished \cup {i},
             sess' = [sess EXCEPT ![i] = [y EXCEPT !.pc = "call", !.last = b, !.jobs = n]]
      PROVE  /\ SessStep(i) /\ SameRequest(i) /\ sess'[i].pc = "call"
             /\ sess'[i].last => finished' = finished \cup {i}
  <2> PICK x : x = [y EXCEPT !.pc = "call", !.last = b, !.jobs = n]
    OBVIOUS
  <2>1. x \in Session /\ x.pc = "call" /\ x.u = y.u /\ x.expires = y.expires /\ x.last = b
    BY DEF Session
  <2>2. SessStep(i) /\ sess'[i] = x
    BY <1>2, <2>1, SessBecomes
  <2> QED
    BY <1>2, <2>1, <2>2 DEF SameRequest
<1>3. CASE /\ y.jobs >= BatchSize
           /\ sess' = [sess EXCEPT ![i] = [y EXCEPT !.pc = "call", !.last = FALSE,
                                                    !.jobs = y.jobs - BatchSize]]
  <2> PICK n \in 0 .. MaxJobs : n = y.jobs - BatchSize
    BY <1>3, Times DEF Session
  <2> PICK b \in BOOLEAN : b = FALSE
    OBVIOUS
  <2>1. sess' = [sess EXCEPT ![i] = [y EXCEPT !.pc = "call", !.last = b, !.jobs = n]]
    BY <1>3
  <2> QED
    BY <1>1, <1>2, <2>1
<1>4. CASE /\ finished' = finished \cup {i}
           /\ sess' = [sess EXCEPT ![i] = [y EXCEPT !.pc = "call", !.last = TRUE, !.jobs = 0]]
  <2> PICK n \in 0 .. MaxJobs : n = 0
    BY Times
  <2> PICK b \in BOOLEAN : b = TRUE
    OBVIOUS
  <2>1. sess' = [sess EXCEPT ![i] = [y EXCEPT !.pc = "call", !.last = b, !.jobs = n]]
    BY <1>4
  <2> QED
    BY <1>1, <1>2, <1>4, <2>1
<1>5. CASE sess' = [sess EXCEPT ![i] = AfterHistory(y)]
  <2>1. CASE y.u \in Continuous
    <3> PICK x : x = [y EXCEPT !.pc = "register"]
      OBVIOUS
    <3>1. x \in Session /\ x.pc = "register" /\ x.u = y.u /\ x.expires = y.expires
      BY DEF Session
    <3>2. SessStep(i) /\ sess'[i] = x
      BY <1>5, <2>1, <3>1, SessBecomes DEF AfterHistory
    <3> QED
      BY <1>1, <2>1, <3>1, <3>2 DEF SameRequest
  <2>2. CASE y.u \notin Continuous
    <3>1. SessStep(i) /\ sess'[i] = NoSession
      BY <1>5, <2>2, NoSessionType, SessBecomes DEF AfterHistory
    <3> QED
      BY <1>1, <2>2, <3>1, NoSessionType
  <2> QED
    BY <2>1, <2>2
<1> QED
  BY <1>3, <1>4, <1>5 DEF DrainFeed

LEMMA UpdateJobsEffect ==
  ASSUME TypeOK, NEW i \in Id, UpdateJobs(i)
  PROVE  /\ SessStep(i) /\ SameRequest(i) /\ sess[i].pc = "call" /\ sess'[i].last = sess[i].last
         /\ \/ /\ sess'[i].pc = "update" /\ sess'[i].row \in Feed
               /\ row[sess'[i].row].feedid = i
            \/ sess'[i].pc = "batch"
<1> PICK y \in Session : y = sess[i]
  BY DEF TypeOK
<1>1. ASSUME NEW u \in Feed, row[u].feedid = i,
             sess' = [sess EXCEPT ![i] = [y EXCEPT !.pc = "update", !.row = u, !.state = row[u].state]]
      PROVE  /\ SessStep(i) /\ SameRequest(i) /\ sess'[i].last = y.last
             /\ sess'[i].pc = "update" /\ sess'[i].row = u
  <2> PICK t \in Status : t = row[u].state
    BY DEF TypeOK, Row
  <2> PICK x : x = [y EXCEPT !.pc = "update", !.row = u, !.state = t]
    OBVIOUS
  <2>1. /\ x \in Session /\ x.pc = "update" /\ x.row = u /\ x.u = y.u /\ x.expires = y.expires
        /\ x.last = y.last
    BY DEF Session
  <2>2. SessStep(i) /\ sess'[i] = x
    BY <1>1, <2>1, SessBecomes
  <2> QED
    BY <2>1, <2>2 DEF SameRequest
<1>2. CASE sess' = [sess EXCEPT ![i].pc = "batch"]
  <2> PICK x : x = [y EXCEPT !.pc = "batch"]
    OBVIOUS
  <2>1. /\ x \in Session /\ x.pc = "batch" /\ x.u = y.u /\ x.expires = y.expires
        /\ x.last = y.last
    BY DEF Session
  <2>2. SessStep(i) /\ sess'[i] = x
    BY <1>2, <2>1, SessBecomes
  <2> QED
    BY <2>1, <2>2 DEF SameRequest, UpdateJobs
<1> QED
  BY <1>1, <1>2 DEF UpdateJobs

LEMMA UpdateStateEffect ==
  ASSUME TypeOK, NEW i \in Id, UpdateState(i)
  PROVE  /\ SessStep(i) /\ SameRequest(i) /\ sess[i].pc = "update" /\ sess'[i].pc = "batch"
         /\ \/ row' = row
            \/ /\ sess[i].row \in Feed /\ sess[i].last /\ RowStep(sess[i].row)
               /\ SameFeed(sess[i].row) /\ row'[sess[i].row].locked = row[sess[i].row].locked
<1> PICK y \in Session : y = sess[i]
  BY DEF TypeOK
<1>0. y.pc = "update" /\ y.row \in Feed
  BY DEF UpdateState, TypeOK
<1> PICK x : x = [y EXCEPT !.pc = "batch", !.row = None, !.state = NewState]
  OBVIOUS
<1>1. x \in Session /\ x.pc = "batch" /\ x.u = y.u /\ x.expires = y.expires
  BY NewStateType DEF Session
<1>2. SessStep(i) /\ sess'[i] = x
  BY <1>1, SessBecomes DEF UpdateState
<1>3. CASE row' = row
  BY <1>0, <1>1, <1>2, <1>3 DEF SameRequest
<1>4. CASE y.last /\ row' = [row EXCEPT ![y.row].state = [y.state EXCEPT !.done = TRUE]]
  <2>1. y.state \in Status
    BY DEF Session
  <2> PICK u \in Feed, t \in Status : u = y.row /\ t = [y.state EXCEPT !.done = TRUE]
    BY <1>0, <2>1 DEF Status
  <2>2. row' = [row EXCEPT ![u].state = t]
    BY <1>4
  <2>3. RowStep(u) /\ SameFeed(u) /\ row'[u].locked = row[u].locked
    BY <2>2, SetState
  <2> QED
    BY <1>0, <1>1, <1>2, <1>4, <2>3 DEF SameRequest
<1> QED
  BY <1>3, <1>4 DEF UpdateState

LEMMA StoreFeedEffect ==
  ASSUME TypeOK, NEW i \in Id, StoreFeed(i)
  PROVE  /\ SessStep(i) /\ SameRequest(i) /\ sess[i].pc = "register" /\ sess'[i].pc = "refresh"
         /\ registered' = registered \cup {i} /\ left' \in [Id -> NULL .. FeedTTL]
         /\ left'[i] = sess[i].expires /\ \A j \in Id \ {i} : left'[j] = left[j]
<1> PICK y \in Session : y = sess[i]
  BY DEF TypeOK
<1> PICK x : x = [y EXCEPT !.pc = "refresh"]
  OBVIOUS
<1>1. /\ x \in Session /\ x.pc = "refresh" /\ x.u = y.u /\ x.expires = y.expires
      /\ y.expires \in NULL .. FeedTTL
  BY DEF Session
<1>2. SessStep(i) /\ sess'[i] = x
  BY <1>1, SessBecomes DEF StoreFeed
<1>3. left' = [left EXCEPT ![i] = y.expires] /\ left \in [Id -> NULL .. FeedTTL]
  BY DEF StoreFeed, TypeOK
<1>4. /\ left' \in [Id -> NULL .. FeedTTL] /\ left'[i] = y.expires
      /\ \A j \in Id \ {i} : left'[j] = left[j]
  BY <1>1, <1>3
<1> QED
  BY <1>1, <1>2, <1>4 DEF StoreFeed, SameRequest

LEMMA RefreshStoredEffect ==
  ASSUME TypeOK, NEW i \in Id, RefreshStored(i)
  PROVE  /\ SessStep(i) /\ sess[i].pc = "refresh" /\ sess'[i].pc = "none"
         /\ left' \in [Id -> NULL .. FeedTTL] /\ \A j \in Id \ {i} : left'[j] = left[j]
         /\ i \in registered => left'[i] = FeedTTL
<1>1. SessStep(i) /\ sess'[i] = NoSession
  BY NoSessionType, SessBecomes DEF RefreshStored
<1> PICK n \in NULL .. FeedTTL : n = IF i \in registered THEN FeedTTL ELSE left[i]
  BY Times DEF TypeOK, NULL
<1>2. left' = [left EXCEPT ![i] = n] /\ left \in [Id -> NULL .. FeedTTL]
  BY DEF RefreshStored, TypeOK
<1>3. left' \in [Id -> NULL .. FeedTTL] /\ left'[i] = n /\ \A j \in Id \ {i} : left'[j] = left[j]
  BY <1>2
<1> QED
  BY <1>1, <1>3, NoSessionType DEF RefreshStored

LEMMA SlaveFailsEffect ==
  ASSUME TypeOK, NEW i \in Id, SlaveFails(i)
  PROVE  SessStep(i) /\ sess'[i].pc = "none"
BY NoSessionType, SessBecomes DEF SlaveFails

\* Time passes for the rows, the loop and the sessions.
LEMMA TickEffect ==
  ASSUME TypeOK, Tick
  PROVE  /\ row' \in [Feed -> Row] /\ caller' \in Caller /\ sess' \in [Id -> Session]
         /\ left' \in [Id -> NULL .. FeedTTL]
         /\ \A u \in Feed : /\ row'[u].feedid = row[u].feedid /\ row'[u].state = row[u].state
                            /\ row'[u].locked = row[u].locked
                            /\ row'[u].expires = Nearer(row[u].expires)
         /\ SameHand /\ caller'.pc = caller.pc /\ caller'.id = caller.id
         /\ caller'.state = caller.state /\ caller'.sleep = Nearer(caller.sleep)
         /\ \A i \in Id : /\ sess'[i].pc = sess[i].pc /\ sess'[i].last = sess[i].last
                          /\ sess'[i].row = sess[i].row /\ sess'[i].u = sess[i].u
<1>1. ASSUME NEW u \in Feed
      PROVE  /\ row'[u] \in Row /\ row'[u].feedid = row[u].feedid /\ row'[u].state = row[u].state
             /\ row'[u].locked = row[u].locked /\ row'[u].expires = Nearer(row[u].expires)
  <2> PICK r \in Row : r = row[u]
    BY DEF TypeOK
  <2>1. Nearer(r.expires) \in 0 .. ReconnectTime \cup 0 .. FeedTTL \cup {NULL}
    BY Times DEF Row, Nearer, NULL
  <2> PICK e \in 0 .. ReconnectTime \cup 0 .. FeedTTL \cup {NULL} : e = Nearer(r.expires)
    BY <2>1
  <2>2. row'[u] = [r EXCEPT !.expires = e]
    BY DEF Tick
  <2> QED
    BY <2>2 DEF Row
<1>2. row' \in [Feed -> Row]
  <2>1. row' = [u \in Feed |-> row'[u]]
    BY DEF Tick
  <2> QED
    BY <1>1, <2>1
<1>3. /\ caller' \in Caller /\ caller'.u = caller.u /\ caller'.init = caller.init
      /\ caller'.pc = caller.pc /\ caller'.id = caller.id /\ caller'.state = caller.state
      /\ caller'.sleep = Nearer(caller.sleep)
  <2> PICK c \in Caller : c = caller
    BY DEF TypeOK
  <2>1. Nearer(c.sleep) \in 0 .. ReactionTime
    BY Times DEF Caller, Nearer
  <2> PICK t \in 0 .. ReactionTime : t = Nearer(c.sleep)
    BY <2>1
  <2>2. caller' = [c EXCEPT !.sleep = t]
    BY DEF Tick
  <2> QED
    BY <2>2 DEF Caller
<1>4. ASSUME NEW i \in Id
      PROVE  /\ sess'[i] \in Session /\ sess'[i].pc = sess[i].pc /\ sess'[i].last = sess[i].last
             /\ sess'[i].row = sess[i].row /\ sess'[i].u = sess[i].u
  <2> PICK y \in Session : y = sess[i]
    BY DEF TypeOK
  <2>1. y.expires >= 0 => y.expires - 1 \in NULL .. FeedTTL
    BY Times DEF Session, NULL
  <2>2. CASE sess'[i] = y
    BY <2>2
  <2>3. CASE y.expires >= 0 /\ sess'[i] = [y EXCEPT !.expires = y.expires - 1]
    <3> PICK e \in NULL .. FeedTTL : e = y.expires - 1
      BY <2>1, <2>3
    <3>1. sess'[i] = [y EXCEPT !.expires = e]
      BY <2>3
    <3> QED
      BY <3>1 DEF Session
  <2> QED
    BY <2>2, <2>3 DEF Tick
<1>5. sess' \in [Id -> Session]
  <2>1. sess' = [i \in Id |-> sess'[i]]
    BY DEF Tick
  <2> QED
    BY <1>4, <2>1
<1>6. left' \in [Id -> NULL .. FeedTTL]
  <2>1. ASSUME NEW i \in Id PROVE left'[i] \in NULL .. FeedTTL
    BY Times DEF Tick, TypeOK, NULL
  <2>2. left' = [i \in Id |-> left'[i]]
    BY DEF Tick
  <2> QED
    BY <2>1, <2>2
<1> QED
  BY <1>1, <1>2, <1>3, <1>4, <1>5, <1>6 DEF SameHand

LEMMA RestartEffect ==
  ASSUME TypeOK, Restart
  PROVE  /\ caller' \in Caller /\ caller'.pc = "asleep" /\ sess' \in [Id -> Session]
         /\ row' = row \/ row' = [u \in Feed |-> NewRow]
         /\ \A i \in Id : sess'[i].pc # "update" /\ (sess'[i].pc = "call" => sess'[i] = sess[i])
<1>1. caller' \in Caller /\ caller'.pc = "asleep"
  <2>1. 0 \in 0 .. ReactionTime
    BY Times
  <2>2. caller' = Asleep(0)
    BY DEF Restart
  <2> QED
    BY <2>1, <2>2, AsleepType
<1>2. ASSUME NEW i \in Id
      PROVE  /\ sess'[i] \in Session /\ sess'[i].pc # "update"
             /\ sess'[i].pc = "call" => sess'[i] = sess[i]
  <2> PICK y \in Session : y = sess[i]
    BY DEF TypeOK
  <2>1. CASE y.pc = "update"
    <3>1. sess'[i] = [y EXCEPT !.pc = "batch", !.row = None, !.state = NewState]
      BY <2>1 DEF Restart
    <3>2. sess'[i] \in Session /\ sess'[i].pc = "batch"
      BY <3>1, NewStateType DEF Session
    <3> QED
      BY <3>2
  <2>2. CASE y.pc # "update"
    BY <2>2 DEF Restart
  <2> QED
    BY <2>1, <2>2
<1>3. sess' \in [Id -> Session]
  <2>1. sess' = [i \in Id |-> sess'[i]]
    BY DEF Restart
  <2> QED
    BY <1>2, <2>1
<1> QED
  BY <1>1, <1>2, <1>3 DEF Restart

-----------------------------------------------------------------------------
(* Types.                                                                   *)

\* The parts of TypeOK a step can change.
LoopOK(c) == c \in Caller /\ (c.pc \in InHand => c.u \in Feed)
SessOK(x) == x \in [Id -> Session] /\ \A i \in Id : x[i].pc = "update" => x[i].row \in Feed
PSOK == /\ registered \subseteq Id /\ left \in [Id -> NULL .. FeedTTL] /\ finished \subseteq Id

LEMMA TypeParts ==
  TypeOK <=> /\ row \in [Feed -> Row] /\ conf \in BOOLEAN /\ LoopOK(caller)
             /\ SessOK(sess) /\ PSOK
BY DEF TypeOK, LoopOK, SessOK, PSOK, InHand

LEMMA TypePartsNext ==
  ASSUME row' \in [Feed -> Row], conf' \in BOOLEAN, LoopOK(caller'), SessOK(sess'), PSOK'
  PROVE  TypeOK'
BY DEF TypeOK, LoopOK, SessOK, PSOK, InHand

LEMMA SessStepOK ==
  ASSUME TypeOK, NEW i \in Id, SessStep(i), sess'[i].pc = "update" => sess'[i].row \in Feed
  PROVE  SessOK(sess')
BY DEF TypeOK, SessStep, SessOK

LEMMA FeedIndexOK ==
  ASSUME TypeOK, NEW u \in Feed, \E i \in Id : FeedIndex(u, i)
  PROVE  SessOK(sess') /\ PSOK'
<1> PICK i \in Id : FeedIndex(u, i)
  OBVIOUS
<1>1. SessStep(i) /\ sess'[i].pc \in {"run", "register"}
  BY FeedIndexEffect DEF SessStep
<1>2. SessOK(sess')
  BY <1>1, SessStepOK
<1>3. finished' = finished \ {i} /\ UNCHANGED <<registered, left>>
  BY DEF FeedIndex
<1>4. PSOK'
  BY <1>3 DEF PSOK, TypeOK
<1> QED
  BY <1>2, <1>4

LEMMA RefreshOK ==
  ASSUME TypeOK, NEW i, FeedIndexRefresh(i)
  PROVE  SessOK(sess') /\ PSOK'
<1>1. left' \in [Id -> NULL .. FeedTTL] /\ UNCHANGED <<sess, registered, finished>>
  BY RefreshEffect
<1> QED
  BY <1>1, TypeParts DEF PSOK

LEMMA TypeStep == TypeOK /\ [Next]_vars => TypeOK'
<1> SUFFICES ASSUME TypeOK, [Next]_vars PROVE TypeOK'
  OBVIOUS
<1>0. /\ row \in [Feed -> Row] /\ conf \in BOOLEAN /\ LoopOK(caller) /\ SessOK(sess) /\ PSOK
  BY TypeParts
<1>1. CASE Wake
  BY <1>0, <1>1, WakeEffect, TypePartsNext DEF Wake, LoopOK, SameHand, InHand, PSOK
<1>2. CASE NoMoreFeeds
  BY <1>0, <1>2, NoMoreEffect, TypePartsNext DEF NoMoreFeeds, LoopOK, InHand, PSOK
<1>3. CASE Attempt
  BY <1>0, <1>3, AttemptEffect, TypePartsNext DEF Attempt, LoopOK, SameHand, PSOK
<1>4. CASE Served
  <2>1. SessOK(sess') /\ PSOK'
    BY <1>4, ServedEffect, FeedIndexOK, RefreshOK
  <2> QED
    BY <1>0, <1>4, <2>1, ServedEffect, TypePartsNext DEF Served, LoopOK, SameHand
<1>5. CASE CallFault
  <2>1. CASE UNCHANGED <<sess, registered, left, finished>>
    BY <1>0, <1>5, <2>1, CallFaultEffect, TypePartsNext DEF CallFault, LoopOK, SameHand, RowStep, PSOK
  <2>2. CASE FeedIndexRefresh(caller.id) \/ \E i \in Id : FeedIndex(caller.u, i)
    <3>1. caller.u \in Feed
      BY <1>5, CallFaultEffect
    <3>2. SessOK(sess') /\ PSOK'
      BY <2>2, <3>1, FeedIndexOK, RefreshOK
    <3> QED
      BY <1>0, <1>5, <3>2, CallFaultEffect, TypePartsNext DEF CallFault, LoopOK, SameHand, RowStep
  <2> QED
    BY <1>5, <2>1, <2>2, CallFaultEffect
<1>6. CASE InitFeed
  BY <1>0, <1>6, InitFeedEffect, TypePartsNext DEF InitFeed, LoopOK, SameHand, RowStep, PSOK
<1>7. CASE UnlockFeed
  BY <1>0, <1>7, UnlockEffect, TypePartsNext DEF UnlockFeed, LoopOK, InHand, RowStep, PSOK
<1>8. CASE GiveUp
  BY <1>0, <1>8, GiveUpEffect, TypePartsNext DEF GiveUp, LoopOK, InHand, RowStep, PSOK
<1>9. CASE \E u \in Feed : LockSearchFeed(u)
  BY <1>0, <1>9, LockEffect, TypePartsNext DEF LockSearchFeed, LoopOK, RowStep, PSOK
<1>10. CASE \E i \in Id : RunFeed(i)
  BY <1>0, <1>10, RunFeedEffect, SessStepOK, TypePartsNext DEF RunFeed, PSOK
<1>11. CASE \E i \in Id : DrainFeed(i)
  <2> PICK i \in Id : DrainFeed(i)
    BY <1>11
  <2>1. SessOK(sess')
    BY DrainFeedEffect, SessStepOK
  <2>2. PSOK'
    BY <1>0, DrainFeedEffect DEF DrainFeed, PSOK
  <2> QED
    BY <1>0, <2>1, <2>2, TypePartsNext DEF DrainFeed
<1>12. CASE \E i \in Id : UpdateJobs(i)
  BY <1>0, <1>12, UpdateJobsEffect, SessStepOK, TypePartsNext DEF UpdateJobs, PSOK
<1>13. CASE \E i \in Id : UpdateState(i)
  <2> PICK i \in Id : UpdateState(i)
    BY <1>13
  <2>1. SessOK(sess') /\ row' \in [Feed -> Row]
    BY <1>0, UpdateStateEffect, SessStepOK DEF RowStep
  <2> QED
    BY <1>0, <2>1, TypePartsNext DEF UpdateState, PSOK
<1>14. CASE \E i \in Id : StoreFeed(i)
  <2> PICK i \in Id : StoreFeed(i)
    BY <1>14
  <2>1. SessOK(sess') /\ PSOK'
    BY <1>0, StoreFeedEffect, SessStepOK DEF StoreFeed, PSOK
  <2> QED
    BY <1>0, <2>1, TypePartsNext DEF StoreFeed
<1>15. CASE \E i \in Id : RefreshStored(i)
  <2> PICK i \in Id : RefreshStored(i)
    BY <1>15
  <2>1. SessOK(sess') /\ PSOK'
    BY <1>0, RefreshStoredEffect, SessStepOK DEF RefreshStored, PSOK
  <2> QED
    BY <1>0, <2>1, TypePartsNext DEF RefreshStored
<1>16. CASE \E i \in Id : SlaveFails(i)
  BY <1>0, <1>16, SlaveFailsEffect, SessStepOK, TypePartsNext DEF SlaveFails, PSOK
<1>17. CASE PurgeFeeds
  BY <1>0, <1>17, TypePartsNext DEF PurgeFeeds, PSOK
<1>18. CASE Tick
  <2>1. LoopOK(caller')
    BY <1>0, <1>18, TickEffect DEF LoopOK, SameHand
  <2>2. SessOK(sess')
    BY <1>0, <1>18, TickEffect DEF SessOK
  <2>3. PSOK' /\ conf' \in BOOLEAN
    BY <1>0, <1>18, TickEffect DEF Tick, PSOK
  <2> QED
    BY <1>18, <2>1, <2>2, <2>3, TickEffect, TypePartsNext
<1>19. CASE LoopDies
  <2> PICK a \in Caller : a = Asleep(0)
    BY AsleepType, Times
  <2>1. caller' \in Caller /\ caller'.pc = "dead"
    BY <1>19 DEF LoopDies, Caller
  <2> QED
    BY <1>0, <1>19, <2>1, TypePartsNext DEF LoopDies, LoopOK, InHand, PSOK
<1>20. CASE Restart
  <2>1. LoopOK(caller') /\ SessOK(sess')
    BY <1>20, RestartEffect DEF LoopOK, SessOK, InHand
  <2>2. row' \in [Feed -> Row]
    BY <1>0, <1>20, RestartEffect, NewRowType
  <2>3. PSOK' /\ conf' \in BOOLEAN
    BY <1>0, <1>20 DEF Restart, PSOK
  <2> QED
    BY <2>1, <2>2, <2>3, TypePartsNext
<1>21. CASE UNCHANGED vars
  BY <1>0, <1>21, TypePartsNext DEF vars, PSOK
<1> QED
  BY StepCases, <1>1, <1>2, <1>3, <1>4, <1>5, <1>6, <1>7, <1>8, <1>9, <1>10, <1>11, <1>12,
     <1>13, <1>14, <1>15, <1>16, <1>17, <1>18, <1>19, <1>20, <1>21

LEMMA TypeInit == Init => TypeOK
<1> SUFFICES ASSUME Init PROVE TypeOK
  OBVIOUS
<1>1. 0 \in 0 .. ReactionTime /\ 0 \in NULL .. FeedTTL
  BY Times DEF NULL
<1>2. caller \in Caller /\ caller.pc = "asleep"
  BY <1>1, AsleepType DEF Init
<1>3. row \in [Feed -> Row] /\ sess \in [Id -> Session] /\ \A i \in Id : sess[i].pc = "none"
  BY NewRowType, NoSessionType DEF Init
<1>4. left \in [Id -> NULL .. FeedTTL]
  BY <1>1 DEF Init
<1> QED
  BY <1>2, <1>3, <1>4 DEF Init, TypeOK

\* The tables of both servers, the feed loop and the slaves at work are always well
\* typed, and the loop has a row in hand whenever it works on one (feed_caller,
\* feed_loop_slave, FeedIndex, UpdateJobs), with all their faults and crashes.
THEOREM TypeCorrect == Spec => []TypeOK
  BY TypeInit, TypeStep, PTL DEF Spec

-----------------------------------------------------------------------------
(* Locks.  The row in hand is unlocked before the loop gives up on it.      *)

LockInv ==
  /\ conf = TRUE /\ caller.pc # "dead"
  /\ \A u \in Feed : row[u].locked => caller.u = u /\ caller.pc \in InHand \ {"giveup"}

LEMMA LockStep ==
  ASSUME ~Crashes, ~CredFaults, TypeOK, LockInv, [Next]_vars
  PROVE  LockInv'
<1>1. CASE Wake
  BY <1>1, WakeEffect DEF Wake, LockInv, SameHand, InHand
<1>2. CASE NoMoreFeeds
  BY <1>2, NoMoreEffect DEF NoMoreFeeds, LockInv, InHand
<1>3. CASE Attempt
  <2>1. caller'.pc = "call" /\ caller'.u = caller.u
    BY <1>3, AttemptEffect DEF LockInv, SameHand
  <2> QED
    BY <1>3, <2>1 DEF Attempt, LockInv, InHand
<1>4. CASE Served
  BY <1>4, ServedEffect DEF Served, LockInv, SameHand, InHand
<1>5. CASE CallFault
  <2>1. \A u \in Feed : ~row'[u].locked
    BY <1>5, CallFaultEffect DEF LockInv, RowStep
  <2> QED
    BY <1>5, <2>1, CallFaultEffect DEF CallFault, LockInv
<1>6. CASE InitFeed
  BY <1>6, InitFeedEffect DEF InitFeed, LockInv, SameHand, RowStep, InHand
<1>7. CASE UnlockFeed
  <2>1. \A u \in Feed : ~row'[u].locked
    BY <1>7, UnlockEffect DEF LockInv, RowStep
  <2> QED
    BY <1>7, <2>1, UnlockEffect DEF UnlockFeed, LockInv
<1>8. CASE GiveUp
  <2>1. \A u \in Feed : ~row[u].locked
    BY <1>8 DEF GiveUp, LockInv
  <2>2. \A u \in Feed : ~row'[u].locked
    BY <1>8, <2>1, GiveUpEffect DEF RowStep
  <2> QED
    BY <1>8, <2>2, GiveUpEffect DEF GiveUp, LockInv
<1>9. CASE \E u \in Feed : LockSearchFeed(u)
  <2> PICK u \in Feed : LockSearchFeed(u)
    BY <1>9
  <2>1. \A v \in Feed : ~row[v].locked
    BY DEF LockSearchFeed, LockInv, InHand
  <2>2. \A v \in Feed : row'[v].locked => v = u
    BY <2>1, LockEffect DEF RowStep
  <2> QED
    BY <2>2, LockEffect DEF LockSearchFeed, LockInv, InHand
<1>10. CASE \E i \in Id : UpdateState(i)
  <2> PICK i \in Id : UpdateState(i)
    BY <1>10
  <2>1. \A u \in Feed : row'[u].locked = row[u].locked
    BY UpdateStateEffect DEF RowStep
  <2> QED
    BY <2>1 DEF UpdateState, LockInv
<1>11. CASE \E i \in Id : RunFeed(i) \/ DrainFeed(i) \/ UpdateJobs(i)
  BY <1>11 DEF RunFeed, DrainFeed, UpdateJobs, LockInv
<1>12. CASE \E i \in Id : StoreFeed(i) \/ RefreshStored(i) \/ SlaveFails(i)
  BY <1>12 DEF StoreFeed, RefreshStored, SlaveFails, LockInv
<1>13. CASE PurgeFeeds
  BY <1>13 DEF PurgeFeeds, LockInv
<1>14. CASE Tick
  BY <1>14, TickEffect DEF Tick, LockInv, SameHand
<1>15. CASE UNCHANGED vars
  BY <1>15 DEF vars, LockInv
<1> QED
  BY StepCases, <1>1, <1>2, <1>3, <1>4, <1>5, <1>6, <1>7, <1>8, <1>9, <1>10, <1>11, <1>12,
     <1>13, <1>14, <1>15 DEF LoopDies, Restart

LEMMA LockInit == Init => LockInv
<1> SUFFICES ASSUME Init PROVE LockInv
  OBVIOUS
<1>1. 0 \in 0 .. ReactionTime
  BY Times
<1>2. caller.pc = "asleep"
  BY <1>1, AsleepType DEF Init
<1> QED
  BY <1>2, NewRowType DEF Init, LockInv

\* No feed of the index server is locked for ever: whatever calls of the Primary
\* Storage fail, in whatever order, a locked row is the one the feed loop has in hand
\* (lockSearchFeed, unlockFeed, MyFeedIndex), as long as the credentials can be got
\* and the server does not die.
THEOREM NoFeedStaysLocked ==
  ASSUME ~Crashes, ~CredFaults
  PROVE  Spec => []LockedInHand
<1>1. TypeOK /\ LockInv /\ [Next]_vars => LockInv'
  BY LockStep
<1>2. LockInv => LockedInHand
  BY DEF LockInv, LockedInHand, InHand
<1> QED
  BY <1>1, <1>2, LockInit, TypeCorrect, PTL DEF Spec

-----------------------------------------------------------------------------
(* The DONE bit.                                                            *)

\* The row in hand is as it was when it was locked.
RowInHand ==
  caller.pc \in {"attempt", "call", "store", "giveup"} =>
    /\ row[caller.u].feedid = IF caller.init THEN caller.id ELSE None
    /\ ~caller.init /\ caller.pc # "store" => caller.id = None
    /\ caller.state.done => caller.id \in finished
    /\ caller.pc = "giveup" => ~caller.init

\* A batch with feedDone has been counted; the row UpdateJobs works on keeps its feed.
BatchInHand ==
  \A i \in Id :
    /\ sess[i].pc \in {"call", "update"} /\ sess[i].last => i \in finished
    /\ sess[i].pc = "update" => row[sess[i].row].feedid = i

DoneInv == RowInHand /\ BatchInHand /\ DoneMeansSent

\* None is no feed.
LEMMA NoneFinished == TypeOK => None \notin finished
BY FeedAssumption DEF TypeOK

\* The sessions and the rows may change, as long as no batch with feedDone is lost and
\* no row in the hands of UpdateJobs gets another feed.
LEMMA BatchKept ==
  ASSUME BatchInHand, NEW i \in Id, SessStep(i), finished \subseteq finished',
         \A u \in Feed : row'[u].feedid = row[u].feedid, TypeOK,
         sess'[i].pc \in {"call", "update"} /\ sess'[i].last => i \in finished',
         sess'[i].pc = "update" => row[sess'[i].row].feedid = i /\ sess'[i].row \in Feed
  PROVE  BatchInHand'
<1>1. ASSUME NEW j \in Id, j # i
      PROVE  /\ sess'[j].pc \in {"call", "update"} /\ sess'[j].last => j \in finished'
             /\ sess'[j].pc = "update" => row'[sess'[j].row].feedid = j
  BY <1>1 DEF BatchInHand, SessStep, TypeOK
<1> QED
  BY <1>1 DEF BatchInHand

LEMMA DoneStep ==
  ASSUME ~Faults, ~CredFaults, TypeOK, DoneInv, [Next]_vars
  PROVE  DoneInv'
<1>0. None \notin finished /\ RowInHand /\ BatchInHand /\ DoneMeansSent
  BY NoneFinished DEF DoneInv
<1>1. CASE Wake
  BY <1>0, <1>1, WakeEffect DEF Wake, DoneInv, RowInHand, BatchInHand, DoneMeansSent
<1>2. CASE NoMoreFeeds
  BY <1>0, <1>2, NoMoreEffect DEF NoMoreFeeds, DoneInv, RowInHand, BatchInHand, DoneMeansSent
<1>3. CASE Attempt
  <2>1. caller'.pc = "giveup" => ~caller.init
    BY <1>3, AttemptEffect
  <2>2. RowInHand'
    BY <1>0, <1>3, <2>1, AttemptEffect DEF Attempt, RowInHand, SameHand
  <2> QED
    BY <1>0, <1>3, <2>2 DEF Attempt, DoneInv, BatchInHand, DoneMeansSent
<1>4. CASE Served
  <2>1. CASE ~caller.init
    <3> PICK u \in Feed, i \in Id : u = caller.u /\ FeedIndex(u, i) /\ caller'.id = i
      BY <1>4, <2>1, ServedEffect
    <3>1. /\ sess'[i].pc \in {"run", "register"} /\ \A j \in Id \ {i} : sess'[j] = sess[j]
          /\ finished' = finished \ {i} /\ \A v \in Feed : row[v].feedid # i
      BY FeedIndexEffect DEF Unused
    <3>2. row' = row
      BY <1>4 DEF Served
    <3>3. RowInHand'
      BY <1>0, <1>4, <2>1, <3>2, ServedEffect, NewStateType DEF Served, RowInHand, SameHand
    <3>4. BatchInHand'
      BY <1>0, <3>1, <3>2 DEF BatchInHand
    <3>5. DoneMeansSent'
      BY <1>0, <3>1, <3>2 DEF DoneMeansSent
    <3> QED
      BY <3>3, <3>4, <3>5 DEF DoneInv
  <2>2. CASE caller.init
    <3>1. /\ UNCHANGED <<sess, finished, row>> /\ caller'.id = caller.id
          /\ caller'.state.done = caller.state.done
      BY <1>4, <2>2, ServedEffect DEF Served, FeedIndexRefresh
    <3>2. RowInHand'
      BY <1>0, <1>4, <2>2, <3>1, ServedEffect DEF Served, RowInHand, SameHand
    <3> QED
      BY <1>0, <3>1, <3>2 DEF DoneInv, BatchInHand, DoneMeansSent
  <2> QED
    BY <2>1, <2>2
<1>5. CASE CallFault
  <2>1. UNCHANGED <<sess, finished>> /\ ~caller.init /\ caller.pc = "call"
    BY <1>5, CallFaultEffect DEF CallFault
  <2>2. \A u \in Feed : row'[u].feedid = row[u].feedid /\ row'[u].state = row[u].state
    BY <1>5, CallFaultEffect DEF RowStep, SameFeed
  <2>3. RowInHand'
    BY <1>0, <1>5, <2>1, <2>2, CallFaultEffect DEF RowInHand, SameHand
  <2>4. BatchInHand'
    BY <1>0, <2>1, <2>2 DEF BatchInHand, TypeOK
  <2> QED
    BY <1>0, <2>1, <2>2, <2>3, <2>4 DEF DoneInv, DoneMeansSent
<1>6. CASE InitFeed
  <2>1. UNCHANGED <<sess, finished>> /\ caller.pc = "store"
    BY <1>6 DEF InitFeed
  <2>2. \A v \in Feed : row[v].feedid # None => row'[v].feedid = row[v].feedid
    BY <1>0, <1>6, <2>1, InitFeedEffect DEF RowStep, RowInHand
  <2>3. BatchInHand'
    BY <1>0, <2>1, <2>2, FeedAssumption DEF BatchInHand, TypeOK
  <2>4. DoneMeansSent'
    BY <1>0, <1>6, <2>1, InitFeedEffect DEF RowStep, RowInHand, DoneMeansSent
  <2>5. RowInHand'
    BY <1>6, InitFeedEffect DEF RowInHand
  <2> QED
    BY <2>3, <2>4, <2>5 DEF DoneInv
<1>7. CASE UnlockFeed
  <2>1. UNCHANGED <<sess, finished>>
    BY <1>7 DEF UnlockFeed
  <2>2. \A u \in Feed : row'[u].feedid = row[u].feedid /\ row'[u].state = row[u].state
    BY <1>7, UnlockEffect DEF RowStep, SameFeed
  <2>3. RowInHand'
    BY <1>7, UnlockEffect DEF RowInHand
  <2>4. BatchInHand'
    BY <1>0, <2>1, <2>2 DEF BatchInHand, TypeOK
  <2> QED
    BY <1>0, <2>1, <2>2, <2>3, <2>4 DEF DoneInv, DoneMeansSent
<1>8. CASE GiveUp
  <2>1. UNCHANGED <<sess, finished>> /\ caller.pc = "giveup" /\ ~caller.init
    BY <1>0, <1>8 DEF GiveUp, RowInHand
  <2>2. \A u \in Feed : row'[u].feedid = row[u].feedid
    BY <1>8, <2>1, GiveUpEffect DEF RowStep
  <2>3. RowInHand'
    BY <1>8, GiveUpEffect DEF RowInHand
  <2>4. BatchInHand'
    BY <1>0, <2>1, <2>2 DEF BatchInHand, TypeOK
  <2>5. DoneMeansSent'
    BY <1>0, <1>8, <2>1, <2>2, GiveUpEffect DEF RowStep, RowInHand, DoneMeansSent
  <2> QED
    BY <2>3, <2>4, <2>5 DEF DoneInv
<1>9. CASE \E u \in Feed : LockSearchFeed(u)
  <2> PICK u \in Feed : LockSearchFeed(u)
    BY <1>9
  <2>1. UNCHANGED <<sess, finished>> /\ (~caller.init => row[u].feedid = None)
    BY DEF LockSearchFeed, Eligible
  <2>2. \A v \in Feed : row'[v].feedid = row[v].feedid /\ row'[v].state = row[v].state
    BY LockEffect DEF RowStep, SameFeed
  <2>3. RowInHand'
    BY <1>0, <2>1, <2>2, LockEffect DEF RowInHand, DoneMeansSent
  <2>4. BatchInHand'
    BY <1>0, <2>1, <2>2 DEF BatchInHand, TypeOK
  <2> QED
    BY <1>0, <2>1, <2>2, <2>3, <2>4 DEF DoneInv, DoneMeansSent
<1>10. CASE \E i \in Id : RunFeed(i)
  <2> PICK i \in Id : RunFeed(i)
    BY <1>10
  <2>1. UNCHANGED <<row, caller, finished>>
    BY DEF RunFeed
  <2>2. BatchInHand'
    BY <1>0, <2>1, RunFeedEffect, BatchKept
  <2> QED
    BY <1>0, <2>1, <2>2 DEF DoneInv, RowInHand, DoneMeansSent
<1>11. CASE \E i \in Id : DrainFeed(i)
  <2> PICK i \in Id : DrainFeed(i)
    BY <1>11
  <2>1. UNCHANGED <<row, caller>> /\ finished \subseteq finished'
    BY DrainFeedEffect DEF DrainFeed
  <2>2. BatchInHand'
    BY <1>0, <2>1, DrainFeedEffect, BatchKept
  <2> QED
    BY <1>0, <2>1, <2>2 DEF DoneInv, RowInHand, DoneMeansSent
<1>12. CASE \E i \in Id : UpdateJobs(i)
  <2> PICK i \in Id : UpdateJobs(i)
    BY <1>12
  <2>1. UNCHANGED <<row, caller, finished>>
    BY DEF UpdateJobs
  <2>2. sess'[i].last => i \in finished
    BY <1>0, UpdateJobsEffect DEF BatchInHand
  <2>3. BatchInHand'
    BY <1>0, <2>1, <2>2, UpdateJobsEffect, BatchKept
  <2> QED
    BY <1>0, <2>1, <2>3 DEF DoneInv, RowInHand, DoneMeansSent
<1>13. CASE \E i \in Id : UpdateState(i)
  <2> PICK i \in Id : UpdateState(i)
    BY <1>13
  <2>1. UNCHANGED <<caller, finished>>
    BY DEF UpdateState
  <2>2. \A u \in Feed : row'[u].feedid = row[u].feedid
    BY UpdateStateEffect DEF RowStep, SameFeed
  <2>3. BatchInHand'
    BY <1>0, <2>1, <2>2, UpdateStateEffect, BatchKept
  <2>4. DoneMeansSent'
    BY <1>0, <2>1, <2>2, UpdateStateEffect DEF RowStep, DoneMeansSent, BatchInHand
  <2>5. RowInHand'
    BY <1>0, <2>1, <2>2 DEF RowInHand, TypeOK
  <2> QED
    BY <2>3, <2>4, <2>5 DEF DoneInv
<1>14. CASE \E i \in Id : StoreFeed(i)
  <2> PICK i \in Id : StoreFeed(i)
    BY <1>14
  <2>1. UNCHANGED <<row, caller, finished>>
    BY DEF StoreFeed
  <2>2. BatchInHand'
    BY <1>0, <2>1, StoreFeedEffect, BatchKept
  <2> QED
    BY <1>0, <2>1, <2>2 DEF DoneInv, RowInHand, DoneMeansSent
<1>15. CASE \E i \in Id : RefreshStored(i)
  <2> PICK i \in Id : RefreshStored(i)
    BY <1>15
  <2>1. UNCHANGED <<row, caller, finished>>
    BY DEF RefreshStored
  <2>2. BatchInHand'
    BY <1>0, <2>1, RefreshStoredEffect, BatchKept
  <2> QED
    BY <1>0, <2>1, <2>2 DEF DoneInv, RowInHand, DoneMeansSent
<1>16. CASE PurgeFeeds \/ UNCHANGED vars
  BY <1>0, <1>16 DEF PurgeFeeds, vars, DoneInv, RowInHand, BatchInHand, DoneMeansSent
<1>17. CASE Tick
  <2>1. finished' = finished
    BY <1>17 DEF Tick
  <2>2. RowInHand'
    BY <1>0, <1>17, <2>1, TickEffect DEF RowInHand, SameHand, TypeOK
  <2>3. BatchInHand'
    BY <1>0, <1>17, <2>1, TickEffect DEF BatchInHand, TypeOK
  <2>4. DoneMeansSent'
    BY <1>0, <1>17, <2>1, TickEffect DEF DoneMeansSent
  <2> QED
    BY <2>2, <2>3, <2>4 DEF DoneInv
<1>18. CASE LoopDies
  <2>1. caller'.pc = "dead" /\ UNCHANGED <<row, sess, finished>>
    <3> PICK a \in Caller : a = Asleep(0)
      BY AsleepType, Times
    <3> QED
      BY <1>18 DEF LoopDies, Caller
  <2> QED
    BY <1>0, <2>1 DEF DoneInv, RowInHand, BatchInHand, DoneMeansSent
<1>19. CASE Restart
  <2>1. finished' = finished
    BY <1>19 DEF Restart
  <2>2. RowInHand'
    BY <1>19, RestartEffect DEF RowInHand
  <2>3. BatchInHand'
    BY <1>0, <1>19, <2>1, RestartEffect DEF BatchInHand
  <2>4. DoneMeansSent'
    BY <1>0, <1>19, <2>1, RestartEffect, NewRowType, NewStateType DEF DoneMeansSent
  <2> QED
    BY <2>2, <2>3, <2>4 DEF DoneInv
<1> QED
  BY StepCases, <1>1, <1>2, <1>3, <1>4, <1>5, <1>6, <1>7, <1>8, <1>9, <1>10, <1>11, <1>12,
     <1>13, <1>14, <1>15, <1>16, <1>17, <1>18, <1>19 DEF SlaveFails

LEMMA DoneInit == Init => DoneInv
<1> SUFFICES ASSUME Init PROVE DoneInv
  OBVIOUS
<1>1. 0 \in 0 .. ReactionTime
  BY Times
<1>2. caller.pc = "asleep" /\ \A i \in Id : sess[i].pc = "none"
  BY <1>1, AsleepType, NoSessionType DEF Init
<1> QED
  BY <1>2, NewRowType, NewStateType DEF Init, DoneInv, RowInHand, BatchInHand, DoneMeansSent

\* The index server marks a feed DONE only when the Primary Storage has sent the batch
\* that says so (UpdateJobs, feed_query_callback), however the steps of the feed loop,
\* of UpdateJobs and of the history feed interleave, and over restarts of the index
\* server, when the calls between the servers do not fail.
THEOREM DoneFeedsAreComplete ==
  ASSUME ~Faults, ~CredFaults
  PROVE  Spec => []DoneMeansSent
<1>1. TypeOK /\ DoneInv /\ [Next]_vars => DoneInv'
  BY DoneStep
<1>2. DoneInv => DoneMeansSent
  BY DEF DoneInv
<1> QED
  BY <1>1, <1>2, DoneInit, TypeCorrect, PTL DEF Spec

-----------------------------------------------------------------------------
(* Refreshing in time.                                                      *)

\* The time after which the IS refreshes a feed.
Quarter == IndexExpires(FeedTTL)

\* u was given feed i, or is about to get it.
Given(u, i) == row[u].feedid = i \/ (caller.pc = "store" /\ caller.u = u /\ caller.id = i)

\* A slave at work is registering the feed for its row, with all of its time left.
Registering ==
  \A i \in Id :
    /\ sess[i].pc # "none" => sess[i].expires = FeedTTL
    /\ sess[i].pc \in {"register", "refresh"} => sess[i].u \in Continuous
    /\ sess[i].pc = "refresh" => i \in registered /\ left[i] >= 0
    /\ \A u \in Feed : Given(u, i) /\ sess[i].pc # "none" => sess[i].u = u

\* Once a feed is due, the loop comes round within ReactionTime.
Late == IF caller.pc = "asleep" THEN ReactionTime - caller.sleep ELSE ReactionTime

\* What a feed has left at least when its refresh is e away, or late by d at most.
Limit(e, d) == FeedTTL - Quarter + (IF e > 0 THEN e ELSE -d)

Timely ==
  /\ \A u \in Continuous, i \in Id : row[u].feedid = i =>
       /\ row[u].expires \in 0 .. Quarter
       /\ sess[i].pc = "none" =>
            i \in registered /\ left[i] >= Limit(row[u].expires, Late)
  /\ \A i \in Id :
       /\ caller.pc = "store" /\ caller.u \in Continuous /\ caller.id = i /\ sess[i].pc = "none"
       => i \in registered /\ left[i] = FeedTTL

TimeInv == LockInv /\ DoneInv /\ Registering /\ Timely

\* Nothing fails.
Calm == ~Faults /\ ~CredFaults /\ ~Crashes

\* Only InitFeed gives a row another feed.
LEMMA FeedidKept ==
  ASSUME Calm, TypeOK, DoneInv, [Next]_vars
  PROVE  InitFeed \/ \A u \in Feed : row'[u].feedid = row[u].feedid
<1>1. CASE CallFault
  BY <1>1, CallFaultEffect DEF RowStep, SameFeed
<1>2. CASE UnlockFeed
  BY <1>2, UnlockEffect DEF RowStep, SameFeed
<1>3. CASE GiveUp
  <2>1. ~caller.init
    BY <1>3 DEF GiveUp, DoneInv, RowInHand
  <2> QED
    BY <1>3, <2>1, GiveUpEffect DEF RowStep
<1>4. CASE \E u \in Feed : LockSearchFeed(u)
  BY <1>4, LockEffect DEF RowStep, SameFeed
<1>5. CASE \E i \in Id : UpdateState(i)
  BY <1>5, UpdateStateEffect DEF RowStep, SameFeed
<1>6. CASE Tick
  BY <1>6, TickEffect
<1>7. CASE Wake \/ NoMoreFeeds \/ Attempt \/ Served \/ PurgeFeeds \/ UNCHANGED vars
  BY <1>7 DEF Wake, NoMoreFeeds, Attempt, Served, PurgeFeeds, vars
<1>8. CASE \E i \in Id : RunFeed(i) \/ DrainFeed(i) \/ UpdateJobs(i)
  BY <1>8 DEF RunFeed, DrainFeed, UpdateJobs
<1>9. CASE \E i \in Id : StoreFeed(i) \/ RefreshStored(i)
  BY <1>9 DEF StoreFeed, RefreshStored
<1> QED
  BY StepCases, <1>1, <1>2, <1>3, <1>4, <1>5, <1>6, <1>7, <1>8, <1>9
     DEF Calm, SlaveFails, LoopDies, Restart

\* Only Served leads to the state in which a feed is stored.
LEMMA StoreKept ==
  ASSUME Calm, TypeOK, [Next]_vars, caller'.pc = "store"
  PROVE  \/ Served
         \/ caller.pc = "store" /\ SameHand /\ caller'.id = caller.id
<1>1. CASE Wake
  BY <1>1, WakeEffect
<1>2. CASE NoMoreFeeds
  BY <1>2, NoMoreEffect
<1>3. CASE Attempt
  BY <1>3, AttemptEffect
<1>4. CASE CallFault
  BY <1>4, CallFaultEffect
<1>5. CASE InitFeed
  BY <1>5, InitFeedEffect
<1>6. CASE UnlockFeed
  BY <1>6, UnlockEffect
<1>7. CASE GiveUp
  BY <1>7, GiveUpEffect
<1>8. CASE \E u \in Feed : LockSearchFeed(u)
  BY <1>8, LockEffect
<1>9. CASE Tick
  BY <1>9, TickEffect
<1>10. CASE caller' = caller
  BY <1>10 DEF SameHand, TypeOK
<1>11. CASE \E i \in Id : RunFeed(i) \/ DrainFeed(i) \/ UpdateJobs(i)
  BY <1>10, <1>11 DEF RunFeed, DrainFeed, UpdateJobs
<1>12. CASE \E i \in Id : UpdateState(i) \/ StoreFeed(i) \/ RefreshStored(i)
  BY <1>10, <1>12 DEF UpdateState, StoreFeed, RefreshStored
<1>13. CASE PurgeFeeds \/ UNCHANGED vars
  BY <1>10, <1>13 DEF PurgeFeeds, vars
<1> QED
  BY StepCases, <1>1, <1>2, <1>3, <1>4, <1>5, <1>6, <1>7, <1>8, <1>9, <1>11, <1>12, <1>13
     DEF Calm, SlaveFails, LoopDies, Restart

\* A row gets its feed from a request.
LEMMA GivenBefore ==
  ASSUME Calm, TypeOK, DoneInv, [Next]_vars, NEW u \in Feed, NEW i \in Id,
         row'[u].feedid = i \/ (caller'.pc = "store" /\ caller'.u = u /\ caller'.id = i)
  PROVE  \/ Given(u, i)
         \/ Served /\ ~caller.init /\ caller.u = u /\ FeedIndex(u, i)
<1>1. CASE row'[u].feedid = i
  <2>1. CASE InitFeed
    BY <1>1, <2>1, InitFeedEffect DEF InitFeed, RowStep, Given
  <2> QED
    BY <1>1, <2>1, FeedidKept DEF Given
<1>2. CASE caller'.pc = "store" /\ caller'.u = u /\ caller'.id = i
  <2>1. CASE Served
    <3>1. caller.u = u
      BY <1>2, <2>1, ServedEffect DEF SameHand
    <3>2. CASE caller.init
      BY <1>2, <2>1, <3>1, <3>2, ServedEffect DEF Served, DoneInv, RowInHand, Given
    <3>3. CASE ~caller.init
      BY <1>2, <2>1, <3>1, <3>3, ServedEffect
    <3> QED
      BY <3>2, <3>3
  <2> QED
    BY <1>2, <2>1, StoreKept DEF Given, SameHand
<1> QED
  BY <1>1, <1>2

\* With a slave at work no time passes.
LEMMA NoTick ==
  ASSUME Prompt, NEW i \in Id, sess[i].pc # "none"
  PROVE  ~Tick
BY DEF Tick, Busy

\* A slave at work goes on with its request.
LEMMA SessKept ==
  ASSUME Calm, Prompt, TypeOK, [Next]_vars, NEW i \in Id, sess'[i].pc # "none"
  PROVE  \/ Served /\ ~caller.init /\ FeedIndex(caller.u, i)
         \/ /\ sess[i].pc # "none" /\ SameRequest(i)
            /\ sess'[i].pc = "register" => sess[i].pc = "register" \/ sess[i].u \in Continuous
            /\ sess'[i].pc = "refresh" => sess[i].pc = "refresh" \/ StoreFeed(i)
<1>1. CASE sess'[i] = sess[i]
  BY <1>1 DEF SameRequest
<1>2. CASE Served
  <2>1. CASE caller.init
    BY <1>1, <1>2, <2>1, ServedEffect DEF FeedIndexRefresh
  <2>2. CASE ~caller.init
    <3> PICK u \in Feed, j \in Id : u = caller.u /\ FeedIndex(u, j)
      BY <1>2, <2>2, ServedEffect
    <3>1. CASE i = j
      BY <1>2, <2>2, <3>1
    <3>2. CASE i # j
      BY <1>1, <3>2, FeedIndexEffect
    <3> QED
      BY <3>1, <3>2
  <2> QED
    BY <2>1, <2>2
<1>3. CASE CallFault
  BY <1>1, <1>3, CallFaultEffect DEF Calm
<1>4. CASE \E j \in Id : RunFeed(j)
  BY <1>1, <1>4, RunFeedEffect DEF SessStep, RunFeed
<1>5. CASE \E j \in Id : DrainFeed(j)
  <2> PICK j \in Id : DrainFeed(j)
    BY <1>5
  <2>1. CASE i = j
    BY <2>1, DrainFeedEffect
  <2>2. CASE i # j
    BY <1>1, <2>2, DrainFeedEffect DEF SessStep
  <2> QED
    BY <2>1, <2>2
<1>6. CASE \E j \in Id : UpdateJobs(j)
  BY <1>1, <1>6, UpdateJobsEffect DEF SessStep
<1>7. CASE \E j \in Id : UpdateState(j)
  BY <1>1, <1>7, UpdateStateEffect DEF SessStep
<1>8. CASE \E j \in Id : StoreFeed(j)
  <2> PICK j \in Id : StoreFeed(j)
    BY <1>8
  <2>1. CASE i = j
    BY <2>1, StoreFeedEffect
  <2>2. CASE i # j
    BY <1>1, <2>2, StoreFeedEffect DEF SessStep
  <2> QED
    BY <2>1, <2>2
<1>9. CASE \E j \in Id : RefreshStored(j)
  BY <1>1, <1>9, RefreshStoredEffect DEF SessStep
<1>10. CASE Tick
  <2>1. sess[i].pc # "none"
    BY <1>10, TickEffect
  <2> QED
    BY <1>10, <2>1, NoTick
<1>11. CASE Wake \/ NoMoreFeeds \/ Attempt \/ InitFeed \/ UnlockFeed \/ GiveUp
  BY <1>1, <1>11 DEF Wake, NoMoreFeeds, Attempt, InitFeed, UnlockFeed, GiveUp
<1>12. CASE (\E u \in Feed : LockSearchFeed(u)) \/ PurgeFeeds \/ UNCHANGED vars
  BY <1>1, <1>12 DEF LockSearchFeed, PurgeFeeds, vars
<1> QED
  BY StepCases, <1>2, <1>3, <1>4, <1>5, <1>6, <1>7, <1>8, <1>9, <1>10, <1>11, <1>12
     DEF Calm, SlaveFails, LoopDies, Restart

\* Unless time passes, a registered feed keeps the time it has left, or gets all of it.
LEMMA LeftKept ==
  ASSUME Calm, TypeOK, [Next]_vars, ~Tick, NEW i \in Id
  PROVE  /\ i \in registered /\ left[i] >= 0 => i \in registered'
         /\ \/ left'[i] = left[i]
            \/ StoreFeed(i)
            \/ i \in registered' /\ left'[i] = FeedTTL
<1>1. CASE UNCHANGED <<registered, left>>
  BY <1>1
<1>2. CASE Served
  <2>1. CASE caller.init
    BY <1>2, <2>1, ServedEffect, RefreshEffect DEF FeedIndexRefresh, TypeOK
  <2>2. CASE ~caller.init
    BY <1>1, <1>2, <2>2, ServedEffect DEF FeedIndex
  <2> QED
    BY <2>1, <2>2
<1>3. CASE CallFault
  BY <1>1, <1>3, CallFaultEffect DEF Calm
<1>4. CASE \E j \in Id : StoreFeed(j)
  BY <1>4, StoreFeedEffect
<1>5. CASE \E j \in Id : RefreshStored(j)
  <2> PICK j \in Id : RefreshStored(j)
    BY <1>5
  <2>1. CASE j \in registered
    BY <2>1, RefreshStoredEffect DEF RefreshStored
  <2>2. CASE j \notin registered
    <3>1. left' = left /\ registered' = registered
      BY <2>2 DEF RefreshStored, TypeOK
    <3> QED
      BY <3>1
  <2> QED
    BY <2>1, <2>2
<1>6. CASE PurgeFeeds
  BY <1>6 DEF PurgeFeeds
<1>7. CASE \E j \in Id : RunFeed(j) \/ DrainFeed(j) \/ UpdateJobs(j) \/ UpdateState(j)
  BY <1>1, <1>7 DEF RunFeed, DrainFeed, UpdateJobs, UpdateState
<1>8. CASE Wake \/ NoMoreFeeds \/ Attempt \/ InitFeed \/ UnlockFeed \/ GiveUp
  BY <1>1, <1>8 DEF Wake, NoMoreFeeds, Attempt, InitFeed, UnlockFeed, GiveUp
<1>9. CASE (\E u \in Feed : LockSearchFeed(u)) \/ UNCHANGED vars
  BY <1>1, <1>9 DEF LockSearchFeed, vars
<1> QED
  BY StepCases, <1>2, <1>3, <1>4, <1>5, <1>6, <1>7, <1>8, <1>9
     DEF Calm, SlaveFails, LoopDies, Restart

LEMMA RegisteringStep ==
  ASSUME Calm, Prompt, TypeOK, DoneInv, Registering, [Next]_vars
  PROVE  Registering'
<1> DEFINE R(x, reg, l, i) ==
      /\ x.pc # "none" => x.expires = FeedTTL
      /\ x.pc \in {"register", "refresh"} => x.u \in Continuous
      /\ x.pc = "refresh" => i \in reg /\ l >= 0
<1>1. ASSUME NEW i \in Id PROVE R(sess'[i], registered', left'[i], i)
  <2>1. CASE sess'[i].pc = "none"
    BY <2>1
  <2>2. CASE Served /\ ~caller.init /\ FeedIndex(caller.u, i)
    <3> PICK u \in Feed : u = caller.u
      BY <2>2, ServedEffect
    <3> QED
      BY <2>2, FeedIndexEffect
  <2>3. CASE /\ sess[i].pc # "none" /\ SameRequest(i)
             /\ sess'[i].pc = "register" => sess[i].pc = "register" \/ sess[i].u \in Continuous
             /\ sess'[i].pc = "refresh" => sess[i].pc = "refresh" \/ StoreFeed(i)
    <3>1. sess'[i].expires = FeedTTL /\ sess'[i].u = sess[i].u
      BY <2>3 DEF SameRequest, Registering
    <3>2. StoreFeed(i) => sess[i].pc = "register" /\ i \in registered' /\ left'[i] = FeedTTL
      BY <2>3, StoreFeedEffect DEF Registering
    <3>3. sess'[i].pc \in {"register", "refresh"} => sess[i].u \in Continuous
      BY <2>3, <3>2 DEF Registering
    <3>4. sess[i].pc = "refresh" => i \in registered' /\ left'[i] >= 0
      BY <2>3, <3>2, NoTick, LeftKept, Times DEF Registering
    <3> QED
      BY <2>3, <3>1, <3>2, <3>3, <3>4, Times
  <2> QED
    BY <2>1, <2>2, <2>3, SessKept
<1>2. ASSUME NEW i \in Id, NEW u \in Feed, sess'[i].pc # "none",
             row'[u].feedid = i \/ (caller'.pc = "store" /\ caller'.u = u /\ caller'.id = i)
      PROVE  sess'[i].u = u
  <2>1. CASE Given(u, i)
    <3>1. ~(Served /\ ~caller.init /\ FeedIndex(caller.u, i))
      BY <2>1 DEF Given, FeedIndex, Unused, Served
    <3>2. sess[i].pc # "none" /\ SameRequest(i)
      BY <1>2, <3>1, SessKept
    <3> QED
      BY <2>1, <3>2 DEF Registering, SameRequest
  <2>2. CASE FeedIndex(u, i)
    BY <2>2, FeedIndexEffect
  <2> QED
    BY <1>2, <2>1, <2>2, GivenBefore
<1> QED
  BY <1>1, <1>2 DEF Registering, Given

\* A slave that ends its work has registered the feed, if it is a continuous one.
LEMMA Ended ==
  ASSUME Calm, TypeOK, Registering, [Next]_vars, NEW i \in Id,
         sess[i].pc # "none", sess'[i].pc = "none"
  PROVE  sess[i].u \notin Continuous \/ (i \in registered' /\ left'[i] = FeedTTL)
<1>1. sess'[i] # sess[i]
  OBVIOUS
<1>2. CASE Served
  <2>1. CASE caller.init
    BY <1>1, <1>2, <2>1, ServedEffect DEF FeedIndexRefresh
  <2>2. CASE ~caller.init
    <3> PICK u \in Feed, j \in Id : u = caller.u /\ FeedIndex(u, j)
      BY <1>2, <2>2, ServedEffect
    <3> QED
      BY <1>1, FeedIndexEffect
  <2> QED
    BY <2>1, <2>2
<1>3. CASE CallFault
  BY <1>1, <1>3, CallFaultEffect DEF Calm
<1>4. CASE \E j \in Id : RunFeed(j) \/ UpdateJobs(j) \/ UpdateState(j) \/ StoreFeed(j)
  BY <1>1, <1>4, RunFeedEffect, UpdateJobsEffect, UpdateStateEffect, StoreFeedEffect DEF SessStep
<1>5. CASE \E j \in Id : DrainFeed(j)
  BY <1>1, <1>5, DrainFeedEffect DEF SessStep
<1>6. CASE \E j \in Id : RefreshStored(j)
  <2> PICK j \in Id : RefreshStored(j)
    BY <1>6
  <2>1. i = j /\ sess[i].pc = "refresh"
    BY <1>1, RefreshStoredEffect DEF SessStep
  <2>2. i \in registered
    BY <2>1 DEF Registering
  <2> QED
    BY <2>1, <2>2, RefreshStoredEffect DEF RefreshStored
<1>7. CASE Tick
  BY <1>7, TickEffect
<1>8. CASE Wake \/ NoMoreFeeds \/ Attempt \/ InitFeed \/ UnlockFeed \/ GiveUp
  BY <1>1, <1>8 DEF Wake, NoMoreFeeds, Attempt, InitFeed, UnlockFeed, GiveUp
<1>9. CASE (\E u \in Feed : LockSearchFeed(u)) \/ PurgeFeeds \/ UNCHANGED vars
  BY <1>1, <1>9 DEF LockSearchFeed, PurgeFeeds, vars
<1> QED
  BY StepCases, <1>2, <1>3, <1>4, <1>5, <1>6, <1>7, <1>8, <1>9
     DEF Calm, SlaveFails, LoopDies, Restart

\* The loop goes to sleep only when it has found nothing to do.
LEMMA ToSleep ==
  ASSUME Calm, TypeOK, [Next]_vars, caller'.pc = "asleep"
  PROVE  caller' = caller \/ NoMoreFeeds \/ Tick
<1>1. CASE Wake
  BY <1>1, WakeEffect
<1>2. CASE Attempt
  BY <1>2, AttemptEffect
<1>3. CASE Served
  BY <1>3, ServedEffect
<1>4. CASE CallFault
  BY <1>4, CallFaultEffect
<1>5. CASE InitFeed
  BY <1>5, InitFeedEffect
<1>6. CASE UnlockFeed
  BY <1>6, UnlockEffect
<1>7. CASE GiveUp
  BY <1>7, GiveUpEffect
<1>8. CASE \E u \in Feed : LockSearchFeed(u)
  BY <1>8, LockEffect
<1>9. CASE \E i \in Id : RunFeed(i) \/ DrainFeed(i) \/ UpdateJobs(i) \/ UpdateState(i)
  BY <1>9 DEF RunFeed, DrainFeed, UpdateJobs, UpdateState
<1>10. CASE (\E i \in Id : StoreFeed(i) \/ RefreshStored(i)) \/ PurgeFeeds \/ UNCHANGED vars
  BY <1>10 DEF StoreFeed, RefreshStored, PurgeFeeds, vars
<1> QED
  BY StepCases, <1>1, <1>2, <1>3, <1>4, <1>5, <1>6, <1>7, <1>8, <1>9, <1>10
     DEF Calm, SlaveFails, LoopDies, Restart

\* Without a new feed, and unless time passes, a row keeps the time of its refresh.
LEMMA ExpiresKept ==
  ASSUME Calm, TypeOK, DoneInv, [Next]_vars, ~Tick, ~InitFeed,
         NEW u \in Feed, row[u].feedid # None
  PROVE  row'[u].feedid = row[u].feedid /\ row'[u].expires = row[u].expires
<1>1. CASE CallFault
  BY <1>1, CallFaultEffect DEF RowStep, SameFeed
<1>2. CASE UnlockFeed
  BY <1>2, UnlockEffect DEF RowStep, SameFeed
<1>3. CASE GiveUp
  <2>1. row[caller.u].feedid = None
    BY <1>3 DEF GiveUp, DoneInv, RowInHand
  <2> QED
    BY <1>3, <2>1, GiveUpEffect DEF RowStep
<1>4. CASE \E v \in Feed : LockSearchFeed(v)
  BY <1>4, LockEffect DEF RowStep, SameFeed
<1>5. CASE \E i \in Id : UpdateState(i)
  BY <1>5, UpdateStateEffect DEF RowStep, SameFeed
<1>6. CASE Wake \/ NoMoreFeeds \/ Attempt \/ Served \/ PurgeFeeds \/ UNCHANGED vars
  BY <1>6 DEF Wake, NoMoreFeeds, Attempt, Served, PurgeFeeds, vars
<1>7. CASE \E i \in Id : RunFeed(i) \/ DrainFeed(i) \/ UpdateJobs(i)
  BY <1>7 DEF RunFeed, DrainFeed, UpdateJobs
<1>8. CASE \E i \in Id : StoreFeed(i) \/ RefreshStored(i)
  BY <1>8 DEF StoreFeed, RefreshStored
<1> QED
  BY StepCases, <1>1, <1>2, <1>3, <1>4, <1>5, <1>6, <1>7, <1>8
     DEF Calm, SlaveFails, LoopDies, Restart

LEMMA LateBounds ==
  ASSUME TypeOK
  PROVE  Late \in 0 .. ReactionTime /\ (caller.pc # "asleep" => Late = ReactionTime)
BY Times DEF Late, TypeOK, Caller

LEMMA QuarterBounds == Quarter \in 0 .. FeedTTL
BY Quarters DEF Quarter

\* The hypothesis on the times: FEED_TTL / 4 + REACTION_TIME <= FEED_TTL.
LEMMA Limits ==
  ASSUME Quarter + ReactionTime <= FeedTTL, NEW e \in 0 .. Quarter, NEW d \in 0 .. ReactionTime
  PROVE  /\ Limit(e, d) >= 0 /\ Limit(e, d) <= FeedTTL
         /\ \A l \in Int, f \in 0 .. ReactionTime :
              l >= Limit(e, d) /\ (f >= d \/ e > 0) => l >= Limit(e, f)
         /\ \A l \in Int, f \in 0 .. ReactionTime :
              l >= Limit(e, d) /\ f = d + 1 => l - 1 >= Limit(Nearer(e), f)
BY Times, QuarterBounds DEF Limit, Nearer

\* Time passes: the loop is asleep, and every feed has one unit less.
LEMMA TickTimely ==
  ASSUME Calm, Prompt, Quarter + ReactionTime <= FeedTTL, TypeOK, TypeOK', LockInv, Timely, Tick
  PROVE  Timely'
<1>1. /\ caller.pc = "asleep" /\ caller.sleep > 0 /\ caller'.pc = "asleep"
      /\ caller'.sleep = caller.sleep - 1
  <2>1. ~Busy
    BY DEF Tick
  <2>2. caller.pc = "asleep" /\ caller.sleep # 0 /\ caller.sleep \in 0 .. ReactionTime
    BY <2>1 DEF Busy, LockInv, TypeOK, Caller
  <2> QED
    BY <2>2, TickEffect, Times DEF Nearer
<1>2. Late' = Late + 1 /\ Late \in 0 .. ReactionTime /\ Late' \in 0 .. ReactionTime
  BY <1>1, Times DEF Late, TypeOK, Caller
<1>3. ASSUME NEW u \in Continuous, NEW i \in Id, row'[u].feedid = i
      PROVE  /\ row'[u].expires \in 0 .. Quarter
             /\ sess'[i].pc = "none" => i \in registered' /\ left'[i] >= Limit(row'[u].expires, Late')
  <2>0. u \in Feed
    BY FeedAssumption
  <2>1. row[u].feedid = i /\ row'[u].expires = Nearer(row[u].expires) /\ sess'[i].pc = sess[i].pc
    BY <1>3, <2>0, TickEffect
  <2>2. row[u].expires \in 0 .. Quarter
    BY <2>1 DEF Timely
  <2>3. row'[u].expires \in 0 .. Quarter
    BY <2>1, <2>2, QuarterBounds DEF Nearer
  <2>4. ASSUME sess[i].pc = "none"
        PROVE  i \in registered' /\ left'[i] >= Limit(row'[u].expires, Late')
    <3>1. i \in registered /\ left[i] >= Limit(row[u].expires, Late) /\ left[i] \in Int
      BY <2>1, <2>4 DEF Timely, TypeOK, NULL
    <3>2. left[i] >= 0
      BY <1>2, <2>2, <3>1, Limits, Times, QuarterBounds DEF Limit
    <3>3. left'[i] = left[i] - 1 /\ registered' = registered
      BY <3>1, <3>2 DEF Tick
    <3>4. left[i] - 1 >= Limit(Nearer(row[u].expires), Late')
      BY <1>2, <2>2, <3>1, Limits
    <3> QED
      BY <2>1, <3>1, <3>3, <3>4
  <2> QED
    BY <2>1, <2>3, <2>4
<1> QED
  BY <1>1, <1>3 DEF Timely

\* The feed of a row in hand is late by ReactionTime at most: when the loop goes to
\* sleep none is due.
LEMMA LateKept ==
  ASSUME Calm, TypeOK, TypeOK', LockInv, [Next]_vars, ~Tick,
         NEW u \in Feed, row[u].feedid # None, row[u].expires \in Nat
  PROVE  Late' >= Late \/ row[u].expires > 0
<1>1. CASE caller'.pc # "asleep"
  <2>1. Late' = ReactionTime
    BY <1>1 DEF Late
  <2> QED
    BY <2>1, LateBounds, Times
<1>2. CASE caller' = caller
  <2>1. Late' = Late /\ Late \in 0 .. ReactionTime
    BY <1>2, LateBounds DEF Late
  <2> QED
    BY <2>1, Times
<1>3. CASE NoMoreFeeds /\ caller'.pc = "asleep"
  <2>1. ~row[u].locked
    BY <1>3 DEF NoMoreFeeds, LockInv, InHand
  <2>2. ~Due(row[u])
    BY <1>3, <2>1, NoMoreEffect
  <2> QED
    BY <2>2 DEF Due, NULL
<1> QED
  BY <1>1, <1>2, <1>3, ToSleep

LEMMA TimelyStep ==
  ASSUME Calm, Prompt, Quarter + ReactionTime <= FeedTTL,
         TypeOK, TypeOK', LockInv, DoneInv, Registering, Timely, [Next]_vars
  PROVE  Timely'
<1>0. Late \in 0 .. ReactionTime /\ Late' \in 0 .. ReactionTime
  BY Times DEF Late, TypeOK, Caller
<1>1. CASE Tick
  BY <1>1, TickTimely
<1>2. CASE ~Tick
  \* The feed of a row that keeps it.
  <2>1. ASSUME NEW u \in Continuous, NEW i \in Id, row[u].feedid = i,
               row'[u].expires = row[u].expires, sess'[i].pc = "none"
        PROVE  i \in registered' /\ left'[i] >= Limit(row'[u].expires, Late')
    <3>0. u \in Feed /\ i # None /\ row[u].expires \in 0 .. Quarter
      BY <2>1, FeedAssumption DEF Timely
    <3>1. Limit(row[u].expires, Late') <= FeedTTL /\ Limit(row[u].expires, Late) >= 0
      BY <1>0, <3>0, Limits
    <3>2. CASE sess[i].pc = "none"
      <4>1. i \in registered /\ left[i] >= Limit(row[u].expires, Late) /\ left[i] \in Int
        BY <2>1, <3>2 DEF Timely, TypeOK, NULL
      <4>2. left[i] >= 0
        BY <1>0, <3>0, <3>1, <4>1, Times, QuarterBounds DEF Limit
      <4>3. ~StoreFeed(i)
        BY <3>2 DEF StoreFeed
      <4>4. i \in registered' /\ (left'[i] = left[i] \/ left'[i] = FeedTTL)
        BY <1>2, <4>1, <4>2, <4>3, LeftKept
      <4>5. Late' >= Late \/ row[u].expires > 0
        BY <1>2, <2>1, <3>0, LateKept, QuarterBounds
      <4>6. left[i] >= Limit(row[u].expires, Late')
        BY <1>0, <3>0, <4>1, <4>5, Limits
      <4> QED
        BY <2>1, <3>1, <4>4, <4>6
    <3>3. CASE sess[i].pc # "none"
      <4>1. sess[i].u = u
        BY <2>1, <3>0, <3>3 DEF Registering, Given
      <4> QED
        BY <2>1, <3>1, <3>3, <4>1, Ended
    <3> QED
      BY <3>2, <3>3
  <2>2. ASSUME NEW u \in Continuous, NEW i \in Id, row'[u].feedid = i
        PROVE  /\ row'[u].expires \in 0 .. Quarter
               /\ sess'[i].pc = "none" =>
                    i \in registered' /\ left'[i] >= Limit(row'[u].expires, Late')
    <3>0. u \in Feed /\ i # None
      BY FeedAssumption
    <3>1. CASE InitFeed /\ caller.u = u
      <4>1. caller.pc = "store" /\ caller.id = i /\ row'[u].expires = Quarter
        BY <2>2, <3>1, InitFeedEffect DEF InitFeed, Quarter
      <4>2. UNCHANGED <<sess, registered, left>>
        BY <3>1 DEF InitFeed
      <4>3. sess'[i].pc = "none" => i \in registered' /\ left'[i] = FeedTTL
        BY <3>1, <4>1, <4>2 DEF Timely
      <4>4. Quarter \in 0 .. Quarter
        BY QuarterBounds
      <4>5. Limit(Quarter, Late') <= FeedTTL
        BY <1>0, <4>4, Limits
      <4>6. Limit(Quarter, Late') \in Int
        BY <1>0, QuarterBounds, Times DEF Limit
      <4> QED
        BY <4>1, <4>3, <4>4, <4>5, <4>6, Times
    <3>2. CASE ~(InitFeed /\ caller.u = u)
      <4>1. CASE InitFeed
        <5>1. row'[u] = row[u]
          BY <3>0, <3>2, <4>1, InitFeedEffect DEF RowStep
        <5> QED
          BY <2>1, <2>2, <5>1 DEF Timely
      <4>2. CASE ~InitFeed
        <5>1. row[u].feedid = i
          BY <2>2, <3>0, <4>2, FeedidKept
        <5>2. row'[u].expires = row[u].expires
          BY <1>2, <3>0, <4>2, <5>1, ExpiresKept
        <5> QED
          BY <2>1, <5>1, <5>2 DEF Timely
      <4> QED
        BY <4>1, <4>2
    <3> QED
      BY <3>1, <3>2
  <2>3. ASSUME NEW i \in Id, caller'.pc = "store", caller'.u \in Continuous, caller'.id = i,
               sess'[i].pc = "none"
        PROVE  i \in registered' /\ left'[i] = FeedTTL
    <3>1. CASE Served
      <4>0. caller'.u = caller.u /\ caller.u \in Feed /\ caller.pc = "call"
        BY <3>1, ServedEffect DEF SameHand, Served
      <4>1. CASE caller.init
        <5>1. caller.id = i /\ FeedIndexRefresh(i)
          BY <2>3, <3>1, <4>1, ServedEffect
        <5>2. row[caller.u].feedid = i
          BY <4>0, <4>1, <5>1 DEF DoneInv, RowInHand
        <5>3. i \in registered
          BY <2>3, <4>0, <5>1, <5>2 DEF FeedIndexRefresh, Timely
        <5> QED
          BY <5>1, <5>3, RefreshEffect DEF FeedIndexRefresh
      <4>2. CASE ~caller.init
        <5> PICK u \in Feed : u = caller.u /\ FeedIndex(u, i)
          BY <2>3, <3>1, <4>0, <4>2, ServedEffect
        <5> QED
          BY <2>3, FeedIndexEffect
      <4> QED
        BY <4>1, <4>2
    <3>2. CASE caller.pc = "store" /\ SameHand /\ caller'.id = caller.id
      <4>0. caller.u \in Continuous /\ caller.u \in Feed /\ caller.id = i
        BY <2>3, <3>2, FeedAssumption DEF SameHand
      <4>1. CASE sess[i].pc = "none"
        <5>1. i \in registered /\ left[i] = FeedTTL
          BY <3>2, <4>0, <4>1 DEF Timely
        <5>2. ~StoreFeed(i)
          BY <4>1 DEF StoreFeed
        <5> QED
          BY <1>2, <5>1, <5>2, LeftKept, Times
      <4>2. CASE sess[i].pc # "none"
        <5>1. sess[i].u = caller.u
          BY <3>2, <4>0, <4>2 DEF Registering, Given
        <5> QED
          BY <2>3, <4>0, <4>2, <5>1, Ended
      <4> QED
        BY <4>1, <4>2
    <3> QED
      BY <2>3, <3>1, <3>2, StoreKept
  <2> QED
    BY <2>2, <2>3 DEF Timely
<1> QED
  BY <1>1, <1>2

LEMMA TimeInit == Init => Registering /\ Timely
<1> SUFFICES ASSUME Init PROVE Registering /\ Timely
  OBVIOUS
<1>1. 0 \in 0 .. ReactionTime
  BY Times
<1>2. caller.pc = "asleep" /\ \A i \in Id : sess[i].pc = "none"
  BY <1>1, AsleepType, NoSessionType DEF Init
<1>3. \A u \in Feed : row[u].feedid = None
  BY NewRowType DEF Init
<1> QED
  BY <1>2, <1>3, FeedAssumption DEF Registering, Timely

\* A continuous feed whose id the index server holds does not expire at the Primary
\* Storage (feed.c, feed_caller, FeedIndexRefresh), whatever the number of feeds and the
\* interleaving of the feed loop, UpdateJobs and the deferred work of the slaves, when
\* nothing fails, calls take no time, and a quarter of FEED_TTL and REACTION_TIME fit
\* into FEED_TTL (360 / 4 + 120 <= 360 in the code).
THEOREM FeedsAreRefreshedInTime ==
  ASSUME ~Faults, ~CredFaults, ~Crashes, Prompt,
         IndexExpires(FeedTTL) + ReactionTime <= FeedTTL
  PROVE  Spec => []RefreshedInTime
<1>0. Calm /\ Quarter + ReactionTime <= FeedTTL
  BY DEF Calm, Quarter
<1>1. Init => TypeOK /\ TimeInv
  BY TypeInit, LockInit, DoneInit, TimeInit DEF TimeInv
<1>2. TypeOK /\ TimeInv /\ [Next]_vars => (TypeOK /\ TimeInv)'
  BY <1>0, TypeStep, LockStep, DoneStep, RegisteringStep, TimelyStep DEF TimeInv
<1>3. TypeOK /\ TimeInv => RefreshedInTime
  <2> SUFFICES ASSUME TypeOK, TimeInv, NEW u \in Continuous, NEW i \in Id, row[u].feedid = i,
                      sess[i].pc = "none"
               PROVE  i \in registered /\ left[i] >= 0
    BY FeedAssumption DEF RefreshedInTime
  <2>1. row[u].expires \in 0 .. Quarter /\ i \in registered /\ left[i] >= Limit(row[u].expires, Late)
    BY DEF TimeInv, Timely
  <2>2. Late \in 0 .. ReactionTime /\ left[i] \in Int
    BY LateBounds DEF TypeOK, NULL
  <2>3. Limit(row[u].expires, Late) >= 0 /\ Limit(row[u].expires, Late) \in Int
    BY <1>0, <2>1, <2>2, Limits, Times, QuarterBounds DEF Limit
  <2> QED
    BY <2>1, <2>2, <2>3
<1> QED
  BY <1>1, <1>2, <1>3, PTL DEF Spec
=============================================================================
