--------------------------- MODULE TagStoreProofs ---------------------------
(***************************************************************************)
(* Proofs about TagStore for every set of slaves, jobs, tags and calls:    *)
(* its types, that calls which do not overlap on a job, without failures,  *)
(* implement the append-only log of TagLog, and that overlaps and failures *)
(* never split the tags a call records for a job.                          *)
(***************************************************************************)
EXTENDS TagStore, SequenceTheorems, TLAPS

\* A step is one of the actions of a slave.
LEMMA StepCases ==
  ASSUME [Next]_vars
  PROVE  \/ \E s \in Slave, r \in Request : RecordTags(s, r)
         \/ \E s \in Slave : OpenFile(s)
         \/ \E s \in Slave : CreateFile(s)
         \/ \E s \in Slave : CloseFile(s)
         \/ \E s \in Slave : RewriteFile(s)
         \/ \E s \in Slave : WriteFile(s)
         \/ \E s \in Slave : Reply(s)
         \/ \E s \in Slave : Abandon(s)
         \/ UNCHANGED vars
BY DEF Next

-----------------------------------------------------------------------------
(* Sequences: tags that are part of a log stay part of it.                  *)

\* t stands in l in one piece; TagLog!Recorded of the log of a job.
Within(t, l) == \E n \in 0 .. (Len(l) - Len(t)) : SubSeq(l, n + 1, n + Len(t)) = t

LEMMA WithinOlder ==
  ASSUME NEW S, NEW l \in Seq(S), NEW t \in Seq(S), NEW a \in Seq(S), Within(t, l)
  PROVE  Within(t, l \o a)
<1>1. PICK n \in 0 .. (Len(l) - Len(t)) : SubSeq(l, n + 1, n + Len(t)) = t
  BY DEF Within
<1>2. Len(l) \in Nat /\ Len(t) \in Nat /\ Len(a) \in Nat /\ n \in Nat /\ n + Len(t) <= Len(l)
  BY <1>1, LenProperties
<1>3. /\ l \o a \in Seq(S) /\ Len(l \o a) = Len(l) + Len(a)
      /\ \A i \in 1 .. Len(l) : (l \o a)[i] = l[i]
  BY <1>2, ConcatProperties
<1> DEFINE m == n + 1
           k == n + Len(t)
<1>4. m \in Int /\ k \in Int /\ \A i \in m .. k : i \in 1 .. Len(l) /\ l[i] \in S
  BY <1>2, ElementOfSeq
<1>5. \A i \in m .. k : (l \o a)[i] = l[i] /\ (l \o a)[i] \in S
  BY <1>3, <1>4
<1>6. /\ SubSeq(l, m, k) \in Seq(S) /\ Len(SubSeq(l, m, k)) = IF m <= k THEN k - m + 1 ELSE 0
      /\ \A i \in 1 .. k - m + 1 : SubSeq(l, m, k)[i] = l[m + i - 1]
  BY <1>4, SubSeqProperties
<1>7. /\ SubSeq(l \o a, m, k) \in Seq(S)
      /\ Len(SubSeq(l \o a, m, k)) = IF m <= k THEN k - m + 1 ELSE 0
      /\ \A i \in 1 .. k - m + 1 : SubSeq(l \o a, m, k)[i] = (l \o a)[m + i - 1]
  BY <1>4, <1>5, SubSeqProperties
<1>8. SubSeq(l \o a, m, k) = SubSeq(l, m, k)
  <2>1. Len(SubSeq(l \o a, m, k)) = Len(SubSeq(l, m, k))
    BY <1>6, <1>7
  <2>2. \A i \in 1 .. Len(SubSeq(l, m, k)) : SubSeq(l \o a, m, k)[i] = SubSeq(l, m, k)[i]
    <3> TAKE i \in 1 .. Len(SubSeq(l, m, k))
    <3>1. i \in 1 .. k - m + 1 /\ m + i - 1 \in m .. k
      BY <1>4, <1>6
    <3> QED
      BY <3>1, <1>5, <1>6, <1>7
  <2> HIDE DEF m, k
  <2> QED
    BY <1>6, <1>7, <2>1, <2>2, SeqEqual
<1>9. n \in 0 .. (Len(l \o a) - Len(t))
  BY <1>2, <1>3
<1> QED
  BY <1>1, <1>8, <1>9 DEF Within

LEMMA WithinAppended ==
  ASSUME NEW S, NEW l \in Seq(S), NEW t \in Seq(S)
  PROVE  Within(t, l \o t)
<1>1. Len(l) \in Nat /\ Len(t) \in Nat
  BY LenProperties
<1>2. /\ l \o t \in Seq(S) /\ Len(l \o t) = Len(l) + Len(t)
      /\ \A i \in 1 .. Len(l) + Len(t) : (l \o t)[i] = IF i <= Len(l) THEN l[i] ELSE t[i - Len(l)]
  BY ConcatProperties
<1> DEFINE m == Len(l) + 1
           k == Len(l) + Len(t)
<1>3. m \in Int /\ k \in Int /\ \A i \in m .. k : (l \o t)[i] = t[i - Len(l)] /\ (l \o t)[i] \in S
  <2>1. \A i \in m .. k : i \in 1 .. Len(l) + Len(t) /\ ~(i <= Len(l)) /\ i - Len(l) \in 1 .. Len(t)
    BY <1>1
  <2> QED
    BY <1>1, <1>2, <2>1, ElementOfSeq
<1>4. /\ SubSeq(l \o t, m, k) \in Seq(S)
      /\ Len(SubSeq(l \o t, m, k)) = IF m <= k THEN k - m + 1 ELSE 0
      /\ \A i \in 1 .. k - m + 1 : SubSeq(l \o t, m, k)[i] = (l \o t)[m + i - 1]
  BY <1>3, SubSeqProperties
<1>5. Len(SubSeq(l \o t, m, k)) = Len(t) /\ k - m + 1 = Len(t)
  BY <1>1, <1>4
<1>6. \A i \in 1 .. Len(t) : m + i - 1 \in m .. k /\ (m + i - 1) - Len(l) = i
  BY <1>1
<1>7. \A i \in 1 .. Len(t) : SubSeq(l \o t, m, k)[i] = t[i]
  BY <1>3, <1>4, <1>5, <1>6
<1>8. SubSeq(l \o t, m, k) = t
  <2> HIDE DEF m, k
  <2> QED
    BY <1>4, <1>5, <1>7, SeqEqual
<1>9. Len(l) \in 0 .. (Len(l \o t) - Len(t))
  BY <1>1, <1>2
<1> QED
  BY <1>8, <1>9 DEF Within

-----------------------------------------------------------------------------
(* Types.                                                                   *)

\* The call a slave is serving has been made.
Serving == \A s \in Slave : ~At(s, "idle") => slave[s].req \in sent

TypeInv == TypeOK /\ Serving

\* A slave that moves; the others do not.
Moved(s) == slave' \in [Slave -> Local] /\ \A t \in Slave : t # s => slave'[t] = slave[t]

LEMMA RequestTypes ==
  ASSUME NEW r \in Request
  PROVE  /\ Len(r) \in Nat /\ DOMAIN r = 1 .. Len(r)
         /\ \A k \in DOMAIN r : r[k] \in Item /\ r[k].job \in Job /\ r[k].tags \in Seq(Tag)
<1>1. r \in Seq(Item)
  BY TagAssumption
<1>2. Len(r) \in Nat /\ DOMAIN r = 1 .. Len(r) /\ \A k \in DOMAIN r : r[k] \in Item
  BY <1>1, LenProperties, ElementOfSeq
<1> QED
  BY <1>2 DEF Item

LEMMA FileTypes ==
  /\ Absent \in File /\ Corrupt \in File /\ <<>> \in Seq(Tag)
  /\ \A t \in Seq(Tag) : Holds(t) \in File /\ Holds(t).kind = "ok" /\ Holds(t).tags = t
<1>1. <<>> \in Seq(Tag)
  BY EmptySeq
<1> QED
  BY <1>1 DEF Absent, Corrupt, Holds, File

LEMMA IdleType == Idle \in Local /\ Idle.pc = "idle"
BY FileTypes DEF Idle, Local

LEMMA AtItem ==
  ASSUME TypeOK, NEW s \in Slave, slave[s].pc \notin {"idle", "reply"}
  PROVE  /\ slave[s].req \in Request /\ slave[s].k \in DOMAIN slave[s].req
         /\ JobOf(s) \in Job /\ TagsOf(s) \in Seq(Tag) /\ slave[s].old \in Seq(Tag)
         /\ Content(s) \in Seq(Tag) /\ JobOf(s) \in Jobs(slave[s].req)
<1>1. slave[s].req \in Request /\ slave[s].k \in DOMAIN slave[s].req /\ slave[s].old \in Seq(Tag)
  BY DEF TypeOK, Local
<1>2. JobOf(s) \in Job /\ TagsOf(s) \in Seq(Tag)
  BY <1>1, RequestTypes DEF JobOf, TagsOf, ItemOf
<1>3. Content(s) \in Seq(Tag)
  BY <1>1, <1>2, ConcatProperties DEF Content
<1> QED
  BY <1>1, <1>2, <1>3 DEF JobOf, ItemOf, Jobs

LEMMA DoneEffect ==
  ASSUME TypeOK, NEW s \in Slave, Done(s)
  PROVE  Moved(s) /\ slave'[s].pc = "idle"
BY IdleType DEF TypeOK, Done, Becomes, Moved

LEMMA GotoEffect ==
  ASSUME TypeOK, NEW s \in Slave,
         NEW label \in {"open", "create", "close", "rewrite", "write", "reply"}, Goto(s, label)
  PROVE  /\ Moved(s) /\ slave'[s].pc = label /\ slave'[s].req = slave[s].req
         /\ slave'[s].k = slave[s].k /\ slave'[s].old = slave[s].old
         /\ slave'[s].created = slave[s].created
BY DEF TypeOK, Goto, Becomes, Moved, Local

\* The next item of the call, not begun yet, or the reply.
Advanced(s) ==
  /\ Moved(s) /\ slave'[s].req = slave[s].req
  /\ \/ /\ slave'[s].pc = "open" /\ slave[s].k < Len(slave[s].req)
        /\ slave'[s].k = slave[s].k + 1 /\ slave'[s].old = <<>> /\ slave'[s].created = FALSE
     \/ slave'[s].pc = "reply" /\ slave'[s].k = slave[s].k /\ ~(slave[s].k < Len(slave[s].req))

LEMMA NextItemEffect ==
  ASSUME TypeOK, NEW s \in Slave, slave[s].pc \notin {"idle", "reply"}, NextItem(s)
  PROVE  Advanced(s)
<1> DEFINE n == slave[s].k + 1
           l == [Idle EXCEPT !.pc = "open", !.req = slave[s].req, !.k = n]
<1>1. n \in Nat /\ slave[s].req \in Request
  BY DEF TypeOK, Local
<1>2. CASE slave[s].k < Len(slave[s].req)
  <2>1. slave' = [slave EXCEPT ![s] = l]
    BY <1>2 DEF NextItem, Becomes
  <2> HIDE DEF n
  <2>2. /\ l \in Local /\ l.pc = "open" /\ l.req = slave[s].req /\ l.k = n
        /\ l.old = <<>> /\ l.created = FALSE
    BY <1>1, FileTypes DEF Idle, Local
  <2> HIDE DEF l
  <2>3. Moved(s) /\ slave'[s] = l
    BY <2>1, <2>2 DEF TypeOK, Moved
  <2> QED
    BY <1>2, <2>2, <2>3 DEF Advanced, n
<1>3. CASE ~(slave[s].k < Len(slave[s].req))
  BY <1>3, GotoEffect DEF NextItem, Advanced
<1> QED
  BY <1>2, <1>3

LEMMA RecordTagsEffect ==
  ASSUME TypeOK, NEW s \in Slave, NEW r \in Request, RecordTags(s, r)
  PROVE  /\ Moved(s) /\ slave'[s].req = r /\ slave'[s].old = <<>> /\ slave'[s].created = FALSE
         /\ \/ slave'[s].pc = "open" /\ slave'[s].k = 1 /\ 1 \in DOMAIN r
            \/ slave'[s].pc = "reply" /\ DOMAIN r = {}
<1> DEFINE label == IF Len(r) = 0 THEN "reply" ELSE "open"
           n == IF Len(r) = 0 THEN 0 ELSE 1
           l == [Idle EXCEPT !.pc = label, !.req = r, !.k = n]
<1>1. slave' = [slave EXCEPT ![s] = l]
  BY DEF RecordTags, Becomes
<1>2. \/ label = "open" /\ n = 1 /\ 1 \in DOMAIN r
      \/ label = "reply" /\ n = 0 /\ DOMAIN r = {}
  <2>1. Len(r) \in Nat /\ DOMAIN r = 1 .. Len(r)
    BY RequestTypes
  <2>2. Len(r) = 0 => DOMAIN r = {}
    BY <2>1
  <2>3. Len(r) # 0 => 1 \in DOMAIN r
    BY <2>1
  <2> QED
    BY <2>2, <2>3
<1> HIDE DEF label, n
<1>3. /\ l \in Local /\ l.pc = label /\ l.req = r /\ l.k = n /\ l.old = <<>>
      /\ l.created = FALSE
  <2>1. label \in {"open", "reply"} /\ n \in Nat
    BY <1>2
  <2> QED
    BY <2>1, FileTypes DEF Idle, Local
<1> HIDE DEF l
<1>4. Moved(s) /\ slave'[s] = l
  BY <1>1, <1>3 DEF TypeOK, Moved
<1> QED
  BY <1>2, <1>3, <1>4

LEMMA OpenFileEffect ==
  ASSUME TypeOK, NEW s \in Slave, OpenFile(s)
  PROVE  /\ Moved(s) /\ file' = file
         /\ \/ slave'[s].pc = "idle"
            \/ /\ slave'[s].req = slave[s].req /\ slave'[s].k = slave[s].k
               /\ slave'[s].created = slave[s].created
               /\ \/ /\ slave'[s].pc = "create" /\ file[JobOf(s)].kind = "absent"
                     /\ slave'[s].old = slave[s].old
                  \/ /\ slave'[s].pc = "close" /\ file[JobOf(s)].kind = "ok"
                     /\ slave'[s].old = file[JobOf(s)].tags
<1>1. slave[s].pc \notin {"idle", "reply"} /\ file' = file
  BY DEF OpenFile, At
<1>2. file[JobOf(s)].tags \in Seq(Tag)
  BY <1>1, AtItem DEF TypeOK, File
<1> DEFINE l == [slave[s] EXCEPT !.pc = "close", !.old = file[JobOf(s)].tags]
<1>3. CASE file[JobOf(s)].kind = "ok" /\ Becomes(s, l)
  <2>1. /\ l \in Local /\ l.pc = "close" /\ l.req = slave[s].req /\ l.k = slave[s].k
        /\ l.created = slave[s].created /\ l.old = file[JobOf(s)].tags
    BY <1>2 DEF TypeOK, Local
  <2> HIDE DEF l
  <2>2. Moved(s) /\ slave'[s] = l
    BY <1>3, <2>1 DEF TypeOK, Moved, Becomes
  <2> QED
    BY <1>1, <1>3, <2>1, <2>2
<1>4. CASE file[JobOf(s)].kind = "absent" /\ Goto(s, "create")
  BY <1>1, <1>4, GotoEffect
<1>5. CASE Done(s)
  BY <1>1, <1>5, DoneEffect
<1> QED
  BY <1>3, <1>4, <1>5 DEF OpenFile

LEMMA CreateFileEffect ==
  ASSUME TypeOK, NEW s \in Slave, CreateFile(s)
  PROVE  /\ Moved(s) /\ slave'[s].pc = "close" /\ slave'[s].req = slave[s].req
         /\ slave'[s].k = slave[s].k /\ slave'[s].created = TRUE /\ slave'[s].old = slave[s].old
<1> DEFINE l == [slave[s] EXCEPT !.pc = "close", !.created = TRUE]
<1>1. /\ l \in Local /\ l.pc = "close" /\ l.req = slave[s].req /\ l.k = slave[s].k
      /\ l.created = TRUE /\ l.old = slave[s].old
  BY DEF TypeOK, Local
<1>2. slave' = [slave EXCEPT ![s] = l]
  BY DEF CreateFile, Becomes
<1> HIDE DEF l
<1> QED
  BY <1>1, <1>2 DEF TypeOK, Moved

LEMMA CloseFileEffect ==
  ASSUME TypeOK, NEW s \in Slave, CloseFile(s)
  PROVE  \/ TagsOf(s) = <<>> /\ Advanced(s)
         \/ /\ Moved(s) /\ slave'[s].pc = "rewrite" /\ slave'[s].req = slave[s].req
            /\ slave'[s].k = slave[s].k /\ slave'[s].old = slave[s].old
<1>1. CASE TagsOf(s) = <<>>
  BY <1>1, NextItemEffect DEF CloseFile, At
<1>2. CASE TagsOf(s) # <<>>
  BY <1>2, GotoEffect DEF CloseFile
<1> QED
  BY <1>1, <1>2

\* A slave that has moved is well typed when its call and its item are.
LEMMA SlavesStep ==
  ASSUME TypeInv, NEW s \in Slave, Moved(s), sent \subseteq sent',
         slave'[s].pc # "idle" => slave'[s].req \in sent',
         slave'[s].pc \notin {"idle", "reply"} =>
           slave'[s].req \in Request /\ slave'[s].k \in DOMAIN slave'[s].req
  PROVE  /\ Serving' /\ slave' \in [Slave -> Local]
         /\ \A t \in Slave : slave'[t].pc \notin {"idle", "reply"} =>
              slave'[t].req \in Request /\ slave'[t].k \in DOMAIN slave'[t].req
BY DEF TypeInv, TypeOK, Serving, Moved, At

\* Advancing keeps to the items of the call.
LEMMA AdvancedItem ==
  ASSUME TypeOK, NEW s \in Slave, slave[s].pc \notin {"idle", "reply"}, Advanced(s)
  PROVE  /\ Moved(s) /\ slave'[s].pc # "idle"
         /\ slave'[s].req \in Request /\ slave'[s].req = slave[s].req
         /\ slave'[s].pc # "reply" => slave'[s].k \in DOMAIN slave'[s].req
<1>1. slave[s].req \in Request /\ slave[s].k \in DOMAIN slave[s].req
  BY AtItem
<1>2. slave[s].k < Len(slave[s].req) => slave[s].k + 1 \in DOMAIN slave[s].req
  BY <1>1, RequestTypes
<1> QED
  BY <1>1, <1>2 DEF Advanced

LEMMA TypeStep == TypeInv /\ [Next]_vars => TypeInv'
<1> SUFFICES ASSUME TypeInv, [Next]_vars PROVE TypeInv'
  OBVIOUS
<1>0. TypeOK
  BY DEF TypeInv
<1>1. CASE \E s \in Slave, r \in Request : RecordTags(s, r)
  <2> PICK s \in Slave, r \in Request : RecordTags(s, r)
    BY <1>1
  <2>1. sent' = sent \cup {r} /\ UNCHANGED <<file, acked>>
    BY DEF RecordTags
  <2>2. Moved(s) /\ slave'[s].req = r /\ slave'[s].pc \in {"open", "reply"}
        /\ (slave'[s].pc # "reply" => slave'[s].k \in DOMAIN r)
    BY <1>0, RecordTagsEffect
  <2> QED
    BY <1>0, <2>1, <2>2, SlavesStep DEF TypeInv, TypeOK
<1>2. CASE \E s \in Slave : OpenFile(s)
  <2> PICK s \in Slave : OpenFile(s)
    BY <1>2
  <2>1. UNCHANGED <<file, sent, acked>> /\ slave[s].pc = "open"
    BY DEF OpenFile, At
  <2>2. slave[s].req \in sent /\ slave[s].req \in Request /\ slave[s].k \in DOMAIN slave[s].req
    BY <1>0, <2>1, AtItem DEF TypeInv, Serving, At
  <2> QED
    BY <1>0, <2>1, <2>2, OpenFileEffect, SlavesStep DEF TypeInv, TypeOK
<1>3. CASE \E s \in Slave : CreateFile(s)
  <2> PICK s \in Slave : CreateFile(s)
    BY <1>3
  <2>1. /\ UNCHANGED <<sent, acked>> /\ slave[s].pc = "create"
        /\ file' = [file EXCEPT ![JobOf(s)] = Holds(<<>>)]
    BY DEF CreateFile, At
  <2>2. slave[s].req \in sent /\ slave[s].req \in Request /\ slave[s].k \in DOMAIN slave[s].req
    BY <1>0, <2>1, AtItem DEF TypeInv, Serving, At
  <2>3. file' \in [Job -> File]
    BY <1>0, <2>1, FileTypes DEF TypeOK
  <2> QED
    BY <1>0, <2>1, <2>2, <2>3, CreateFileEffect, SlavesStep DEF TypeInv, TypeOK
<1>4. CASE \E s \in Slave : CloseFile(s)
  <2> PICK s \in Slave : CloseFile(s)
    BY <1>4
  <2>1. /\ UNCHANGED <<sent, acked>> /\ slave[s].pc = "close"
        /\ file' = file \/ file' = [file EXCEPT ![JobOf(s)] = Corrupt]
    BY DEF CloseFile, At
  <2>2. slave[s].req \in sent /\ slave[s].req \in Request /\ slave[s].k \in DOMAIN slave[s].req
    BY <1>0, <2>1, AtItem DEF TypeInv, Serving, At
  <2>3. file' \in [Job -> File]
    BY <1>0, <2>1, FileTypes DEF TypeOK
  <2>4. CASE Advanced(s)
    BY <1>0, <2>1, <2>2, <2>3, <2>4, AdvancedItem, SlavesStep DEF TypeInv, TypeOK
  <2>5. CASE /\ Moved(s) /\ slave'[s].pc = "rewrite" /\ slave'[s].req = slave[s].req
             /\ slave'[s].k = slave[s].k
    BY <1>0, <2>1, <2>2, <2>3, <2>5, SlavesStep DEF TypeInv, TypeOK
  <2> QED
    BY <1>0, <2>4, <2>5, CloseFileEffect
<1>5. CASE \E s \in Slave : RewriteFile(s)
  <2> PICK s \in Slave : RewriteFile(s)
    BY <1>5
  <2>1. /\ UNCHANGED <<sent, acked>> /\ slave[s].pc = "rewrite" /\ Goto(s, "write")
        /\ file' = [file EXCEPT ![JobOf(s)] = Holds(<<>>)]
    BY DEF RewriteFile, At
  <2>2. slave[s].req \in sent /\ slave[s].req \in Request /\ slave[s].k \in DOMAIN slave[s].req
    BY <1>0, <2>1, AtItem DEF TypeInv, Serving, At
  <2>3. file' \in [Job -> File]
    BY <1>0, <2>1, FileTypes DEF TypeOK
  <2> QED
    BY <1>0, <2>1, <2>2, <2>3, GotoEffect, SlavesStep DEF TypeInv, TypeOK
<1>6. CASE \E s \in Slave : WriteFile(s)
  <2> PICK s \in Slave : WriteFile(s)
    BY <1>6
  <2>1. /\ UNCHANGED <<sent, acked>> /\ slave[s].pc = "write" /\ NextItem(s)
        /\ \/ file' = [file EXCEPT ![JobOf(s)] = Holds(Content(s))]
           \/ file' = [file EXCEPT ![JobOf(s)] = Corrupt]
    BY DEF WriteFile, At
  <2>2. slave[s].req \in sent /\ slave[s].req \in Request /\ slave[s].k \in DOMAIN slave[s].req
        /\ Content(s) \in Seq(Tag)
    BY <1>0, <2>1, AtItem DEF TypeInv, Serving, At
  <2>3. file' \in [Job -> File]
    BY <1>0, <2>1, <2>2, FileTypes DEF TypeOK
  <2>4. Advanced(s)
    BY <1>0, <2>1, NextItemEffect
  <2> QED
    BY <1>0, <2>1, <2>2, <2>3, <2>4, AdvancedItem, SlavesStep DEF TypeInv, TypeOK
<1>7. CASE \E s \in Slave : Reply(s)
  <2> PICK s \in Slave : Reply(s)
    BY <1>7
  <2>1. UNCHANGED <<file, sent>> /\ acked' = acked \cup {slave[s].req} /\ slave[s].req \in sent
    BY DEF Reply, TypeInv, Serving, At
  <2>2. Moved(s) /\ slave'[s].pc = "idle"
    BY <1>0, DoneEffect DEF Reply
  <2> QED
    BY <1>0, <2>1, <2>2, SlavesStep DEF TypeInv, TypeOK
<1>8. CASE \E s \in Slave : Abandon(s)
  <2> PICK s \in Slave : Abandon(s)
    BY <1>8
  <2>1. UNCHANGED <<file, sent, acked>> /\ Moved(s) /\ slave'[s].pc = "idle"
    BY <1>0, DoneEffect DEF Abandon
  <2> QED
    BY <1>0, <2>1, SlavesStep DEF TypeInv, TypeOK
<1>9. CASE UNCHANGED vars
  BY <1>0, <1>9 DEF TypeInv, TypeOK, Serving, At, vars
<1> QED
  BY StepCases, <1>1, <1>2, <1>3, <1>4, <1>5, <1>6, <1>7, <1>8, <1>9

LEMMA TypeInit == Init => TypeInv
  BY IdleType, FileTypes DEF Init, TypeInv, TypeOK, Serving, At

LEMMA TypeInvariant == Spec => []TypeInv
  BY TypeInit, TypeStep, PTL DEF Spec

\* The files of tags, the calls and the slaves are always well typed, and a slave in
\* the middle of a call is at one of its items, also when calls overlap and slaves
\* are killed.
THEOREM TypeCorrect == Spec => []TypeOK
<1>1. TypeInv => TypeOK
  BY DEF TypeInv
<1> QED
  BY <1>1, TypeInvariant, PTL

-----------------------------------------------------------------------------
(* The refinement of TagLog: what a slave holds is what the file has.       *)

\* Calls that are served at the same time are for different jobs.
Apart ==
  \A s, t \in Slave :
    s # t /\ ~At(s, "idle") /\ ~At(t, "idle") => Jobs(slave[s].req) \cap Jobs(slave[t].req) = {}

\* No file is damaged, and one that is not there has no tags.
FilesOK ==
  \A j \in Job : file[j].kind # "corrupt" /\ (file[j].kind = "absent" => file[j].tags = <<>>)

\* The handle of a slave and the file it has been opened from.
Held(s) ==
  /\ slave[s].pc \in {"open", "create"} => slave[s].old = <<>>
  /\ At(s, "open") => slave[s].created = FALSE
  /\ At(s, "create") => file[JobOf(s)].kind = "absent"
  /\ At(s, "close") /\ slave[s].created => slave[s].old = <<>>
  /\ slave[s].pc \in {"close", "rewrite"} => file[JobOf(s)] = Holds(slave[s].old)
  /\ At(s, "write") => file[JobOf(s)] = Holds(<<>>)

\* The items a call has been through are in the log.
Before(s) ==
  ~At(s, "idle") =>
    \A m \in DOMAIN slave[s].req, j \in Job :
      (m < slave[s].k \/ At(s, "reply")) /\ slave[s].req[m].job = j =>
        Within(slave[s].req[m].tags, LogOf(j))

LogInv == TypeInv /\ Apart /\ FilesOK /\ \A s \in Slave : Held(s) /\ Before(s)

\* The log of a job whose file is being rewritten, and of any other job.
LEMMA LogWritten ==
  TypeInv /\ Apart => \A s \in Slave : At(s, "write") => LogOf(JobOf(s)) = slave[s].old
<1> SUFFICES ASSUME TypeInv, Apart, NEW s \in Slave, At(s, "write")
             PROVE  LogOf(JobOf(s)) = slave[s].old
  OBVIOUS
<1>0. TypeOK
  BY DEF TypeInv
<1>1. \A t \in Slave : At(t, "write") => JobOf(t) \in Jobs(slave[t].req)
  BY <1>0, AtItem DEF At
<1>2. \A t \in Slave : At(t, "write") /\ JobOf(t) = JobOf(s) => t = s
  BY <1>1 DEF Apart, At
<1>3. (CHOOSE t \in Slave : At(t, "write") /\ JobOf(t) = JobOf(s)) = s
  BY <1>2
<1> QED
  BY <1>3 DEF LogOf

LEMMA LogRead ==
  \A j \in Job : (\A s \in Slave : ~(At(s, "write") /\ JobOf(s) = j)) => LogOf(j) = TagsRead(file[j])
BY DEF LogOf

\* The same after a step.
LEMMA LogAfter ==
  /\ (TypeInv /\ Apart => \A s \in Slave : At(s, "write") => LogOf(JobOf(s)) = slave[s].old)'
  /\ (\A j \in Job : (\A s \in Slave : ~(At(s, "write") /\ JobOf(s) = j))
                        => LogOf(j) = TagsRead(file[j]))'
BY LogWritten, LogRead, PTL

LEMMA LogType == TypeInv /\ Apart => \A j \in Job : LogOf(j) \in Seq(Tag)
<1> SUFFICES ASSUME TypeInv, Apart, NEW j \in Job PROVE LogOf(j) \in Seq(Tag)
  OBVIOUS
<1>0. TypeOK
  BY DEF TypeInv
<1>1. CASE \E s \in Slave : At(s, "write") /\ JobOf(s) = j
  BY <1>0, <1>1, LogWritten, AtItem DEF At
<1>2. CASE \A s \in Slave : ~(At(s, "write") /\ JobOf(s) = j)
  <2>1. LogOf(j) = TagsRead(file[j]) /\ file[j] \in File
    BY <1>0, <1>2, LogRead DEF TypeOK
  <2> QED
    BY <2>1, FileTypes DEF TagsRead, File
<1> QED
  BY <1>1, <1>2

\* A step that leaves the file of a job alone and does not write it leaves its log.
LEMMA SameLog ==
  ASSUME TypeInv, Apart, TypeInv', Apart', NEW s \in Slave, Moved(s), NEW j \in Job,
         file'[j] = file[j], ~(At(s, "write") /\ JobOf(s) = j), ~(At(s, "write") /\ JobOf(s) = j)'
  PROVE  LogOf(j)' = LogOf(j)
<1>1. \A t \in Slave : t # s => (At(t, "write")' <=> At(t, "write")) /\ JobOf(t)' = JobOf(t)
  BY DEF Moved, At, JobOf, ItemOf
<1>2. (\A t \in Slave : At(t, "write") => LogOf(JobOf(t)) = slave[t].old)'
  BY LogAfter
<1>3. CASE \E t \in Slave : At(t, "write") /\ JobOf(t) = j
  <2> PICK t \in Slave : At(t, "write") /\ JobOf(t) = j
    BY <1>3
  <2>1. t # s /\ slave'[t] = slave[t] /\ At(t, "write")' /\ JobOf(t)' = j
    BY <1>1 DEF Moved
  <2>2. LogOf(j) = slave[t].old
    BY LogWritten
  <2>3. LogOf(j)' = slave'[t].old
    <3>1. LogOf(JobOf(t))' = slave'[t].old
      BY <1>2, <2>1
    <3> QED
      BY <2>1, <3>1 DEF LogOf
  <2> QED
    BY <2>1, <2>2, <2>3
<1>4. CASE \A t \in Slave : ~(At(t, "write") /\ JobOf(t) = j)
  <2>1. \A t \in Slave : ~(At(t, "write") /\ JobOf(t) = j)'
    BY <1>1, <1>4
  <2>2. LogOf(j) = TagsRead(file[j])
    BY <1>4, LogRead
  <2>3. LogOf(j)' = TagsRead(file[j])'
    BY <2>1, LogAfter
  <2> QED
    BY <2>2, <2>3 DEF TagsRead
<1> QED
  BY <1>3, <1>4

LEMMA ApartStep ==
  ASSUME ~Overlap, TypeInv, Apart, [Next]_vars
  PROVE  Apart'
<1>0. TypeOK
  BY DEF TypeInv
<1>1. ASSUME NEW s \in Slave, Moved(s), slave[s].pc # "idle",
             slave'[s].pc # "idle" => slave'[s].req = slave[s].req
      PROVE  Apart'
  BY <1>1 DEF Apart, Moved, At
<1>2. CASE \E s \in Slave, r \in Request : RecordTags(s, r)
  <2> PICK s \in Slave, r \in Request : RecordTags(s, r)
    BY <1>2
  <2>1. Moved(s) /\ slave'[s].req = r
    BY <1>0, RecordTagsEffect
  <2>2. \A t \in Slave : ~At(t, "idle") => Jobs(slave[t].req) \cap Jobs(r) = {}
    BY DEF RecordTags
  <2> QED
    BY <2>1, <2>2 DEF Apart, Moved, At
<1>3. CASE \E s \in Slave : OpenFile(s)
  BY <1>0, <1>1, <1>3, OpenFileEffect DEF OpenFile, At
<1>4. CASE \E s \in Slave : CreateFile(s)
  BY <1>0, <1>1, <1>4, CreateFileEffect DEF CreateFile, At
<1>5. CASE \E s \in Slave : CloseFile(s)
  <2> PICK s \in Slave : CloseFile(s)
    BY <1>5
  <2>1. Moved(s) /\ slave'[s].req = slave[s].req /\ slave[s].pc # "idle"
    BY <1>0, CloseFileEffect DEF Advanced, CloseFile, At
  <2> QED
    BY <2>1, <1>1
<1>6. CASE \E s \in Slave : RewriteFile(s)
  BY <1>0, <1>1, <1>6, GotoEffect DEF RewriteFile, At
<1>7. CASE \E s \in Slave : WriteFile(s)
  <2> PICK s \in Slave : WriteFile(s)
    BY <1>7
  <2>1. slave[s].pc = "write" /\ NextItem(s)
    BY DEF WriteFile, At
  <2> QED
    BY <1>0, <2>1, <1>1, NextItemEffect DEF Advanced
<1>8. CASE \E s \in Slave : Reply(s) \/ Abandon(s)
  BY <1>0, <1>1, <1>8, DoneEffect DEF Reply, Abandon, At
<1>9. CASE UNCHANGED vars
  BY <1>9 DEF Apart, At, vars
<1> QED
  BY StepCases, <1>2, <1>3, <1>4, <1>5, <1>6, <1>7, <1>8, <1>9

\* The step of a slave does not touch the file another slave is working on.
LEMMA HeldOther ==
  ASSUME TypeInv, Apart, NEW s \in Slave, NEW t \in Slave, t # s, Moved(s), Held(t),
         \/ file' = file
         \/ /\ slave[s].pc \notin {"idle", "reply"}
            /\ \A i \in Job : i # JobOf(s) => file'[i] = file[i]
  PROVE  Held(t)'
<1>0. TypeOK
  BY DEF TypeInv
<1>1. slave'[t] = slave[t] /\ JobOf(t)' = JobOf(t)
  BY DEF Moved, JobOf, ItemOf
<1>2. slave[t].pc \notin {"idle", "reply"} => file'[JobOf(t)] = file[JobOf(t)]
  BY <1>0, AtItem DEF Apart, At
<1> QED
  BY <1>1, <1>2 DEF Held, At

\* A file that is there and not damaged.
LEMMA WholeFile ==
  ASSUME NEW f \in File, f.kind = "ok"
  PROVE  f = Holds(f.tags)
BY DEF File, Holds

LEMMA HeldStep ==
  ASSUME ~Failures, TypeInv, Apart, FilesOK, \A s \in Slave : Held(s), [Next]_vars
  PROVE  FilesOK' /\ \A s \in Slave : Held(s)'
<1>0. TypeOK
  BY DEF TypeInv
<1>1. ASSUME NEW s \in Slave, Moved(s), file' = file, Held(s)'
      PROVE  FilesOK' /\ \A t \in Slave : Held(t)'
  BY <1>1, HeldOther DEF FilesOK
<1>2. ASSUME NEW s \in Slave, slave[s].pc \notin {"idle", "reply"}, Moved(s), NEW c \in Seq(Tag),
             file' = [file EXCEPT ![JobOf(s)] = Holds(c)], Held(s)'
      PROVE  FilesOK' /\ \A t \in Slave : Held(t)'
  <2>1. JobOf(s) \in Job /\ \A i \in Job : file'[i] = IF i = JobOf(s) THEN Holds(c) ELSE file[i]
    BY <1>0, <1>2, AtItem DEF TypeOK
  <2> QED
    BY <1>2, <2>1, HeldOther, FileTypes DEF FilesOK
<1>3. CASE \E s \in Slave, r \in Request : RecordTags(s, r)
  <2> PICK s \in Slave, r \in Request : RecordTags(s, r)
    BY <1>3
  <2>1. /\ Moved(s) /\ slave'[s].old = <<>> /\ slave'[s].created = FALSE
        /\ slave'[s].pc \in {"open", "reply"}
    BY <1>0, RecordTagsEffect
  <2>2. Held(s)' /\ file' = file
    BY <2>1 DEF Held, At, RecordTags
  <2> QED
    BY <2>1, <2>2, <1>1
<1>4. CASE \E s \in Slave : OpenFile(s)
  <2> PICK s \in Slave : OpenFile(s)
    BY <1>4
  <2>1. slave[s].pc = "open" /\ slave[s].old = <<>> /\ slave[s].created = FALSE
    BY DEF OpenFile, Held, At
  <2>2. file[JobOf(s)] \in File
    BY <1>0, <2>1, AtItem DEF TypeOK
  <2>3. CASE slave'[s].pc = "idle"
    BY <1>0, <1>1, <2>3, OpenFileEffect DEF Held, At
  <2>4. CASE slave'[s].pc # "idle"
    <3>1. /\ Moved(s) /\ file' = file /\ JobOf(s)' = JobOf(s) /\ slave'[s].created = FALSE
          /\ \/ /\ slave'[s].pc = "create" /\ file[JobOf(s)].kind = "absent"
                /\ slave'[s].old = <<>>
             \/ /\ slave'[s].pc = "close" /\ file[JobOf(s)].kind = "ok"
                /\ slave'[s].old = file[JobOf(s)].tags
      BY <1>0, <2>1, <2>4, OpenFileEffect DEF JobOf, ItemOf
    <3>2. Held(s)'
      BY <2>2, <3>1, WholeFile DEF Held, At
    <3> QED
      BY <3>1, <3>2, <1>1
  <2> QED
    BY <2>3, <2>4
<1>5. CASE \E s \in Slave : CreateFile(s)
  <2> PICK s \in Slave : CreateFile(s)
    BY <1>5
  <2>1. /\ slave[s].pc = "create" /\ slave[s].old = <<>>
        /\ file' = [file EXCEPT ![JobOf(s)] = Holds(<<>>)]
    BY DEF CreateFile, Held, At
  <2>2. /\ Moved(s) /\ slave'[s].pc = "close" /\ slave'[s].old = <<>> /\ JobOf(s)' = JobOf(s)
    BY <1>0, <2>1, CreateFileEffect DEF JobOf, ItemOf
  <2>3. file'[JobOf(s)] = Holds(<<>>)
    BY <1>0, <2>1, AtItem DEF TypeOK
  <2>4. Held(s)'
    BY <2>2, <2>3 DEF Held, At
  <2> QED
    BY <2>1, <2>2, <2>4, <1>2, FileTypes
<1>6. CASE \E s \in Slave : CloseFile(s)
  <2> PICK s \in Slave : CloseFile(s)
    BY <1>6
  <2>1. /\ slave[s].pc = "close" /\ file[JobOf(s)] = Holds(slave[s].old)
        /\ slave[s].created => slave[s].old = <<>>
    BY DEF CloseFile, Held, At
  <2>2. slave[s].created => file[JobOf(s)].tags = <<>>
    BY <2>1 DEF Holds
  <2>3. file' = file
    BY <2>2 DEF CloseFile
  <2>4. CASE Advanced(s)
    <3>1. Held(s)' /\ Moved(s)
      BY <2>4 DEF Advanced, Held, At
    <3> QED
      BY <2>3, <3>1, <1>1
  <2>5. CASE /\ Moved(s) /\ slave'[s].pc = "rewrite" /\ slave'[s].req = slave[s].req
             /\ slave'[s].k = slave[s].k /\ slave'[s].old = slave[s].old
    <3>1. JobOf(s)' = JobOf(s)
      BY <2>5 DEF JobOf, ItemOf
    <3>2. Held(s)'
      BY <2>1, <2>3, <2>5, <3>1 DEF Held, At
    <3> QED
      BY <2>3, <2>5, <3>2, <1>1
  <2> QED
    BY <1>0, <2>4, <2>5, CloseFileEffect
<1>7. CASE \E s \in Slave : RewriteFile(s)
  <2> PICK s \in Slave : RewriteFile(s)
    BY <1>7
  <2>1. /\ slave[s].pc = "rewrite" /\ file' = [file EXCEPT ![JobOf(s)] = Holds(<<>>)]
    BY DEF RewriteFile, At
  <2>2. /\ Moved(s) /\ slave'[s].pc = "write" /\ JobOf(s)' = JobOf(s)
    BY <1>0, <2>1, GotoEffect DEF RewriteFile, JobOf, ItemOf
  <2>3. file'[JobOf(s)] = Holds(<<>>)
    BY <1>0, <2>1, AtItem DEF TypeOK
  <2>4. Held(s)'
    BY <2>2, <2>3 DEF Held, At
  <2> QED
    BY <2>1, <2>2, <2>4, <1>2, FileTypes
<1>8. CASE \E s \in Slave : WriteFile(s)
  <2> PICK s \in Slave : WriteFile(s)
    BY <1>8
  <2>1. slave[s].pc = "write" /\ file[JobOf(s)] = Holds(<<>>) /\ NextItem(s)
    BY DEF WriteFile, Held, At
  <2>2. file' = [file EXCEPT ![JobOf(s)] = Holds(Content(s))]
    BY <2>1 DEF WriteFile
  <2>3. Content(s) \in Seq(Tag)
    BY <1>0, <2>1, AtItem
  <2>4. Moved(s) /\ Held(s)'
    BY <1>0, <2>1, NextItemEffect DEF Advanced, Held, At
  <2> QED
    BY <2>1, <2>2, <2>3, <2>4, <1>2
<1>9. CASE \E s \in Slave : Reply(s)
  <2> PICK s \in Slave : Reply(s)
    BY <1>9
  <2>1. Moved(s) /\ slave'[s].pc = "idle" /\ file' = file
    BY <1>0, DoneEffect DEF Reply
  <2> QED
    BY <2>1, <1>1 DEF Held, At
<1>10. CASE UNCHANGED vars
  BY <1>10 DEF FilesOK, Held, At, JobOf, ItemOf, vars
<1> QED
  BY StepCases, <1>3, <1>4, <1>5, <1>6, <1>7, <1>8, <1>9, <1>10 DEF Abandon

\* A slave writes back what it has read and the tags of its item: the log of the job
\* has grown by them.
Appends(s, j, t) ==
  /\ WriteFile(s) /\ j = JobOf(s) /\ t = TagsOf(s)
  /\ LogOf(j)' = LogOf(j) \o t
  /\ \A i \in Job \ {j} : LogOf(i)' = LogOf(i)

LEMMA AppendsStep ==
  ASSUME TypeInv, Apart, \A v \in Slave : Held(v), TypeInv', Apart', NEW s \in Slave, WriteFile(s)
  PROVE  \E j \in Job, t \in Seq(Tag) : Appends(s, j, t)
<1>0. TypeOK
  BY DEF TypeInv
<1>1. slave[s].pc = "write" /\ file[JobOf(s)] = Holds(<<>>) /\ NextItem(s)
  BY DEF WriteFile, Held, At
<1>2. file' = [file EXCEPT ![JobOf(s)] = Holds(Content(s))]
  BY <1>1 DEF WriteFile
<1>3. Moved(s) /\ slave'[s].pc # "write"
  BY <1>0, <1>1, NextItemEffect DEF Advanced
<1> PICK j \in Job, t \in Seq(Tag) : j = JobOf(s) /\ t = TagsOf(s)
  BY <1>0, <1>1, AtItem
<1>4. \A i \in Job \ {j} : LogOf(i)' = LogOf(i)
  BY <1>0, <1>1, <1>2, <1>3, SameLog DEF At, TypeOK
<1>5. LogOf(j) = slave[s].old
  BY <1>1, LogWritten DEF At
<1>6. \A v \in Slave : v # s /\ slave[v].pc = "write" => JobOf(v) # j
  BY <1>0, <1>1, AtItem DEF Apart, At
<1>7. \A v \in Slave : ~(At(v, "write") /\ JobOf(v) = j)'
  BY <1>3, <1>6 DEF Moved, At, JobOf, ItemOf
<1>8. LogOf(j)' = TagsRead(file[j])'
  BY <1>7, LogAfter
<1>9. file'[j] = Holds(Content(s))
  BY <1>0, <1>2 DEF TypeOK
<1>10. LogOf(j)' = Content(s)
  BY <1>8, <1>9 DEF TagsRead, Holds
<1>11. Appends(s, j, t)
  BY <1>4, <1>5, <1>10 DEF Appends, Content
<1> QED
  BY <1>11

\* No other step changes a log.
LEMMA LogSteps ==
  ASSUME ~Failures, TypeInv, Apart, FilesOK, \A s \in Slave : Held(s), TypeInv', Apart', [Next]_vars
  PROVE  \/ \A j \in Job : LogOf(j)' = LogOf(j)
         \/ \E s \in Slave, j \in Job, t \in Seq(Tag) : Appends(s, j, t)
<1>0. TypeOK
  BY DEF TypeInv
<1>1. CASE \E s \in Slave, r \in Request : RecordTags(s, r)
  <2> PICK s \in Slave, r \in Request : RecordTags(s, r)
    BY <1>1
  <2>1. Moved(s) /\ slave[s].pc # "write" /\ slave'[s].pc # "write" /\ file' = file
    BY <1>0, RecordTagsEffect DEF RecordTags, At
  <2> QED
    BY <2>1, SameLog DEF At
<1>2. CASE \E s \in Slave : OpenFile(s)
  <2> PICK s \in Slave : OpenFile(s)
    BY <1>2
  <2>1. Moved(s) /\ slave[s].pc # "write" /\ slave'[s].pc # "write" /\ file' = file
    BY <1>0, OpenFileEffect DEF OpenFile, At
  <2> QED
    BY <2>1, SameLog DEF At
<1>3. CASE \E s \in Slave : CreateFile(s)
  <2> PICK s \in Slave : CreateFile(s)
    BY <1>3
  <2>1. /\ Moved(s) /\ slave[s].pc = "create" /\ slave'[s].pc = "close"
        /\ file' = [file EXCEPT ![JobOf(s)] = Holds(<<>>)]
    BY <1>0, CreateFileEffect DEF CreateFile, At
  <2> PICK j \in Job : j = JobOf(s)
    BY <1>0, <2>1, AtItem
  <2>2. \A i \in Job \ {j} : LogOf(i)' = LogOf(i)
    BY <1>0, <2>1, SameLog DEF At, TypeOK
  <2>3. \A t \in Slave : ~(At(t, "write") /\ JobOf(t) = j)
    BY <1>0, <2>1, AtItem DEF Apart, At
  <2>4. \A t \in Slave : ~(At(t, "write") /\ JobOf(t) = j)'
    BY <2>1, <2>3 DEF Moved, At, JobOf, ItemOf
  <2>5. LogOf(j) = TagsRead(file[j]) /\ LogOf(j)' = TagsRead(file[j])'
    BY <2>3, <2>4, LogRead, LogAfter
  <2>6. TagsRead(file[j]) = <<>> /\ TagsRead(file[j])' = <<>>
    <3>1. file[j].kind = "absent"
      BY <2>1 DEF Held, At
    <3>2. file'[j] = Holds(<<>>)
      BY <1>0, <2>1 DEF TypeOK
    <3> QED
      BY <3>1, <3>2 DEF TagsRead, Holds
  <2> QED
    BY <2>2, <2>5, <2>6
<1>4. CASE \E s \in Slave : CloseFile(s)
  <2> PICK s \in Slave : CloseFile(s)
    BY <1>4
  <2>1. /\ slave[s].pc = "close" /\ file[JobOf(s)] = Holds(slave[s].old)
        /\ slave[s].created => slave[s].old = <<>>
    BY DEF CloseFile, Held, At
  <2>2. slave[s].created => file[JobOf(s)].tags = <<>>
    BY <2>1 DEF Holds
  <2>3. file' = file
    BY <2>2 DEF CloseFile
  <2>4. Moved(s) /\ slave'[s].pc # "write"
    BY <1>0, CloseFileEffect DEF Advanced
  <2> QED
    BY <2>1, <2>3, <2>4, SameLog DEF At
<1>5. CASE \E s \in Slave : RewriteFile(s)
  <2> PICK s \in Slave : RewriteFile(s)
    BY <1>5
  <2>1. /\ Moved(s) /\ slave[s].pc = "rewrite" /\ slave'[s].pc = "write"
        /\ slave'[s].old = slave[s].old /\ JobOf(s)' = JobOf(s)
        /\ file' = [file EXCEPT ![JobOf(s)] = Holds(<<>>)]
    BY <1>0, GotoEffect DEF RewriteFile, At, JobOf, ItemOf
  <2> PICK j \in Job : j = JobOf(s)
    BY <1>0, <2>1, AtItem
  <2>2. \A i \in Job \ {j} : LogOf(i)' = LogOf(i)
    BY <1>0, <2>1, SameLog DEF At, TypeOK
  <2>3. \A t \in Slave : ~(At(t, "write") /\ JobOf(t) = j)
    BY <1>0, <2>1, AtItem DEF Apart, At
  <2>4. LogOf(j) = slave[s].old
    <3>1. file[j] = Holds(slave[s].old)
      BY <2>1 DEF Held, At
    <3>2. LogOf(j) = TagsRead(file[j])
      BY <2>3, LogRead
    <3> QED
      BY <3>1, <3>2 DEF TagsRead, Holds
  <2>5. LogOf(j)' = slave'[s].old
    <3>1. LogOf(JobOf(s))' = slave'[s].old
      BY <2>1, LogAfter DEF At
    <3> QED
      BY <2>1, <3>1 DEF LogOf
  <2> QED
    BY <2>1, <2>2, <2>4, <2>5
<1>6. CASE \E s \in Slave : WriteFile(s)
  BY <1>6, AppendsStep
<1>7. CASE \E s \in Slave : Reply(s)
  <2> PICK s \in Slave : Reply(s)
    BY <1>7
  <2>1. Moved(s) /\ slave[s].pc # "write" /\ slave'[s].pc # "write" /\ file' = file
    BY <1>0, DoneEffect DEF Reply, At
  <2> QED
    BY <2>1, SameLog DEF At
<1>8. CASE UNCHANGED vars
  BY <1>8 DEF LogOf, TagsRead, At, JobOf, ItemOf, vars
<1> QED
  BY StepCases, <1>1, <1>2, <1>3, <1>4, <1>5, <1>6, <1>7, <1>8 DEF Abandon

\* Tags that are in a log stay in it.
LEMMA WithinStep ==
  ASSUME TypeInv, Apart, NEW j \in Job, NEW x \in Seq(Tag), Within(x, LogOf(j)),
         \/ \A i \in Job : LogOf(i)' = LogOf(i)
         \/ \E s \in Slave, i \in Job, t \in Seq(Tag) : Appends(s, i, t)
  PROVE  Within(x, LogOf(j)')
<1>1. LogOf(j) \in Seq(Tag)
  BY LogType
<1>2. CASE LogOf(j)' = LogOf(j)
  BY <1>2
<1>3. CASE \E t \in Seq(Tag) : LogOf(j)' = LogOf(j) \o t
  <2> PICK t \in Seq(Tag) : LogOf(j)' = LogOf(j) \o t
    BY <1>3
  <2>1. Within(x, LogOf(j) \o t)
    BY <1>1, WithinOlder
  <2> QED
    BY <2>1
<1> QED
  BY <1>2, <1>3 DEF Appends

LEMMA BeforeStep ==
  ASSUME ~Failures, TypeInv, Apart, FilesOK, \A s \in Slave : Held(s) /\ Before(s),
         TypeInv', Apart', [Next]_vars
  PROVE  \A s \in Slave : Before(s)'
<1>0. TypeOK
  BY DEF TypeInv
<1>1. \/ \A j \in Job : LogOf(j)' = LogOf(j)
      \/ \E s \in Slave, j \in Job, t \in Seq(Tag) : Appends(s, j, t)
  BY LogSteps
<1>2. \A s \in Slave : slave[s].pc # "idle" => slave[s].req \in Request
  BY <1>0 DEF TypeInv, Serving, At, TypeOK
\* A call at the same item, or with more of its items in the log.
<1>3. ASSUME NEW s \in Slave, slave[s].pc # "idle", slave'[s].req = slave[s].req,
             \A m \in DOMAIN slave[s].req : m < slave'[s].k \/ slave'[s].pc = "reply" =>
               \/ m < slave[s].k \/ slave[s].pc = "reply"
               \/ \E j \in Job, t \in Seq(Tag) :
                    /\ j = slave[s].req[m].job /\ t = slave[s].req[m].tags
                    /\ Within(t, LogOf(j)')
      PROVE  Before(s)'
  <2>1. ASSUME NEW m \in DOMAIN slave[s].req, m < slave'[s].k \/ slave'[s].pc = "reply",
               NEW j \in Job, NEW t, j = slave[s].req[m].job, t = slave[s].req[m].tags
        PROVE  Within(t, LogOf(j)')
    <3>1. t \in Seq(Tag)
      BY <1>2, <1>3, <2>1, RequestTypes
    <3>2. CASE m < slave[s].k \/ slave[s].pc = "reply"
      <4>1. Within(t, LogOf(j))
        BY <1>3, <2>1, <3>2 DEF Before, At
      <4> QED
        BY <1>1, <3>1, <4>1, WithinStep
    <3> QED
      BY <1>3, <2>1, <3>2
  <2>2. \A m \in DOMAIN slave'[s].req, j \in Job :
          (m < slave'[s].k \/ slave'[s].pc = "reply") /\ slave'[s].req[m].job = j =>
            Within(slave'[s].req[m].tags, LogOf(j)')
    BY <1>3, <2>1
  <2> QED
    BY <2>2 DEF Before, At
<1>4. ASSUME NEW s \in Slave, Moved(s), Before(s)'
      PROVE  \A t \in Slave : Before(t)'
  <2> SUFFICES ASSUME NEW t \in Slave, t # s PROVE Before(t)'
    BY <1>4
  <2>1. slave'[t] = slave[t]
    BY <1>4 DEF Moved
  <2>2. CASE slave[t].pc = "idle"
    BY <2>1, <2>2 DEF Before, At
  <2>3. CASE slave[t].pc # "idle"
    BY <2>1, <2>3, <1>3
  <2> QED
    BY <2>2, <2>3
\* An item more, whose tags the log has got.
<1>5. ASSUME NEW s \in Slave, slave[s].pc \notin {"idle", "reply"}, Advanced(s),
             NEW j \in Job, NEW t \in Seq(Tag), j = JobOf(s), t = TagsOf(s), Within(t, LogOf(j)')
      PROVE  \A u \in Slave : Before(u)'
  <2>1. slave[s].req \in Request /\ slave[s].k \in DOMAIN slave[s].req /\ slave[s].k \in Nat
    BY <1>0, <1>5, AtItem DEF TypeOK, Local
  <2>2. \A m \in DOMAIN slave[s].req : m < slave'[s].k \/ slave'[s].pc = "reply" =>
          m < slave[s].k \/ m = slave[s].k
    BY <1>5, <2>1, RequestTypes DEF Advanced
  <2>3. Before(s)'
    BY <1>3, <1>5, <2>2 DEF Advanced, JobOf, TagsOf, ItemOf
  <2> QED
    BY <1>4, <1>5, <2>3 DEF Advanced
<1>6. CASE \E s \in Slave, r \in Request : RecordTags(s, r)
  <2> PICK s \in Slave, r \in Request : RecordTags(s, r)
    BY <1>6
  <2>1. /\ Moved(s) /\ slave'[s].req = r
        /\ \/ slave'[s].pc = "open" /\ slave'[s].k = 1
           \/ DOMAIN r = {}
    BY <1>0, RecordTagsEffect
  <2>2. \A m \in DOMAIN r : ~(m < 1)
    BY RequestTypes
  <2>3. Before(s)'
    BY <2>1, <2>2 DEF Before, At
  <2> QED
    BY <2>1, <2>3, <1>4
<1>7. CASE \E s \in Slave : OpenFile(s)
  <2> PICK s \in Slave : OpenFile(s)
    BY <1>7
  <2>1. slave[s].pc = "open" /\ Moved(s)
    BY <1>0, OpenFileEffect DEF OpenFile, At
  <2>2. CASE slave'[s].pc = "idle"
    BY <2>1, <2>2, <1>4 DEF Before, At
  <2>3. CASE slave'[s].pc # "idle"
    <3>1. /\ slave'[s].req = slave[s].req /\ slave'[s].k = slave[s].k
          /\ slave'[s].pc \in {"create", "close"}
      BY <1>0, <2>3, OpenFileEffect
    <3>2. Before(s)'
      BY <1>3, <2>1, <3>1
    <3> QED
      BY <2>1, <3>2, <1>4
  <2> QED
    BY <2>2, <2>3
<1>8. CASE \E s \in Slave : CreateFile(s)
  <2> PICK s \in Slave : CreateFile(s)
    BY <1>8
  <2>1. /\ slave[s].pc = "create" /\ Moved(s) /\ slave'[s].pc = "close"
        /\ slave'[s].req = slave[s].req /\ slave'[s].k = slave[s].k
    BY <1>0, CreateFileEffect DEF CreateFile, At
  <2>2. Before(s)'
    BY <2>1, <1>3
  <2> QED
    BY <2>1, <2>2, <1>4
<1>9. CASE \E s \in Slave : CloseFile(s)
  <2> PICK s \in Slave : CloseFile(s)
    BY <1>9
  <2>1. slave[s].pc = "close"
    BY DEF CloseFile, At
  <2>2. CASE TagsOf(s) = <<>> /\ Advanced(s)
    <3> PICK j \in Job : j = JobOf(s)
      BY <1>0, <2>1, AtItem
    <3>1. Within(<<>>, LogOf(j))
      <4>1. LogOf(j) \in Seq(Tag)
        BY LogType
      <4>2. Len(LogOf(j)) \in Nat /\ Len(<<>>) = 0
        BY <4>1, LenProperties
      <4>3. SubSeq(LogOf(j), 0 + 1, 0 + 0) = <<>>
        BY SubSeqEmpty
      <4> QED
        BY <4>2, <4>3 DEF Within
    <3>2. Within(<<>>, LogOf(j)')
      BY <1>1, <3>1, WithinStep, FileTypes
    <3> QED
      BY <1>5, <2>1, <2>2, <3>2, FileTypes
  <2>3. CASE /\ Moved(s) /\ slave'[s].pc = "rewrite" /\ slave'[s].req = slave[s].req
             /\ slave'[s].k = slave[s].k
    <3>1. Before(s)'
      BY <2>1, <2>3, <1>3
    <3> QED
      BY <2>3, <3>1, <1>4
  <2> QED
    BY <1>0, <2>2, <2>3, CloseFileEffect
<1>10. CASE \E s \in Slave : RewriteFile(s)
  <2> PICK s \in Slave : RewriteFile(s)
    BY <1>10
  <2>1. /\ slave[s].pc = "rewrite" /\ Moved(s) /\ slave'[s].pc = "write"
        /\ slave'[s].req = slave[s].req /\ slave'[s].k = slave[s].k
    BY <1>0, GotoEffect DEF RewriteFile, At
  <2>2. Before(s)'
    BY <2>1, <1>3
  <2> QED
    BY <2>1, <2>2, <1>4
<1>11. CASE \E s \in Slave, j \in Job, t \in Seq(Tag) : Appends(s, j, t)
  <2> PICK s \in Slave, j \in Job, t \in Seq(Tag) : Appends(s, j, t)
    BY <1>11
  <2>1. slave[s].pc = "write" /\ NextItem(s)
    BY DEF Appends, WriteFile, At
  <2>2. Advanced(s)
    BY <1>0, <2>1, NextItemEffect
  <2>3. LogOf(j) \in Seq(Tag) /\ LogOf(j)' = LogOf(j) \o t
    BY LogType DEF Appends
  <2>4. Within(t, LogOf(j)')
    BY <2>3, WithinAppended
  <2> QED
    BY <1>5, <2>1, <2>2, <2>4 DEF Appends
<1>12. CASE \E s \in Slave : Reply(s)
  <2> PICK s \in Slave : Reply(s)
    BY <1>12
  <2>1. Moved(s) /\ slave'[s].pc = "idle"
    BY <1>0, DoneEffect DEF Reply
  <2> QED
    BY <2>1, <1>4 DEF Before, At
<1>13. CASE UNCHANGED vars
  <2> SUFFICES ASSUME NEW s \in Slave PROVE Before(s)'
    OBVIOUS
  <2>1. CASE slave[s].pc = "idle"
    BY <1>13, <2>1 DEF Before, At, vars
  <2>2. CASE slave[s].pc # "idle"
    BY <1>13, <2>2, <1>3 DEF vars
  <2> QED
    BY <2>1, <2>2
<1>14. CASE \E s \in Slave : WriteFile(s)
  BY <1>11, <1>14, AppendsStep
<1> QED
  BY StepCases, <1>6, <1>7, <1>8, <1>9, <1>10, <1>12, <1>13, <1>14 DEF Abandon

LEMMA LogInvInit == Init => LogInv
<1> SUFFICES ASSUME Init PROVE LogInv
  OBVIOUS
<1>1. TypeInv
  BY TypeInit
<1>2. \A s \in Slave : slave[s].pc = "idle"
  BY IdleType DEF Init
<1>3. FilesOK
  BY DEF Init, FilesOK, Absent
<1> QED
  BY <1>1, <1>2, <1>3 DEF LogInv, Apart, Held, Before, At

LEMMA LogInvStep ==
  ASSUME ~Overlap, ~Failures, LogInv, [Next]_vars
  PROVE  LogInv'
<1>1. TypeInv' /\ Apart'
  BY TypeStep, ApartStep DEF LogInv
<1>2. FilesOK' /\ \A s \in Slave : Held(s)'
  BY HeldStep DEF LogInv
<1>3. \A s \in Slave : Before(s)'
  BY <1>1, BeforeStep DEF LogInv
<1> QED
  BY <1>1, <1>2, <1>3 DEF LogInv

\* Under the mapping the system starts with empty logs.
LEMMA LogInit == Init => Log!Init
<1> SUFFICES ASSUME Init PROVE Log!Init
  OBVIOUS
<1>1. \A s \in Slave : ~At(s, "write")
  BY IdleType DEF Init, At
<1>2. ASSUME NEW j \in Job PROVE LogOf(j) = <<>>
  BY <1>1 DEF LogOf, TagsRead, Init, Absent
<1>3. [j \in Job |-> LogOf(j)] = [j \in Job |-> <<>>]
  BY <1>2
<1> QED
  BY <1>3 DEF Log!Init, Init

\* A slave that closes a rewritten file takes the step Append1 of the log, one that
\* replies takes Acknowledge, and nothing else is seen in the log.
LEMMA LogNext ==
  ASSUME ~Overlap, ~Failures, LogInv, [Next]_vars
  PROVE  [Log!Next]_<<[j \in Job |-> LogOf(j)], acked>>
<1>0. TypeOK /\ TypeInv /\ Apart /\ TypeInv' /\ Apart'
  BY LogInvStep DEF LogInv, TypeInv
<1>1. \/ \A j \in Job : LogOf(j)' = LogOf(j)
      \/ \E s \in Slave, j \in Job, t \in Seq(Tag) : Appends(s, j, t)
  BY <1>0, LogSteps DEF LogInv
<1> DEFINE L == [j \in Job |-> LogOf(j)]
<1>2. CASE \E s \in Slave, j \in Job, t \in Seq(Tag) : Appends(s, j, t)
  <2> PICK s \in Slave, j \in Job, t \in Seq(Tag) : Appends(s, j, t)
    BY <1>2
  <2>1. slave[s].pc = "write" /\ acked' = acked
    BY DEF Appends, WriteFile, At
  <2> PICK r \in Request : r = slave[s].req /\ slave[s].k \in DOMAIN r
    BY <1>0, <2>1 DEF TypeOK
  <2> PICK k \in DOMAIN r : r[k].job = j /\ r[k].tags = t
    BY DEF Appends, JobOf, TagsOf, ItemOf
  <2>2. LogOf(j)' = LogOf(j) \o t /\ \A i \in Job \ {j} : LogOf(i)' = LogOf(i)
    BY DEF Appends
  <2>3. L' = [L EXCEPT ![j] = L[j] \o t]
    BY <2>2
  <2>4. Log!Append1(r[k])
    BY <2>1, <2>3 DEF Log!Append1
  <2> QED
    BY <2>4 DEF Log!Next
<1>3. CASE /\ \A j \in Job : LogOf(j)' = LogOf(j)
           /\ \E s \in Slave : Reply(s)
  <2> PICK s \in Slave : Reply(s)
    BY <1>3
  <2>1. L' = L
    BY <1>3
  <2>2. slave[s].pc = "reply" /\ acked' = acked \cup {slave[s].req}
    BY DEF Reply, At
  <2> PICK r \in Request : r = slave[s].req
    BY <1>0, <2>2 DEF TypeInv, Serving, At, TypeOK
  <2>3. ASSUME NEW k \in DOMAIN r PROVE Log!Recorded(r[k])
    <3>1. r[k].job \in Job
      BY RequestTypes
    <3>2. Within(r[k].tags, LogOf(r[k].job))
      BY <2>2, <3>1 DEF LogInv, Before, At
    <3> QED
      BY <3>1, <3>2 DEF Log!Recorded, Within
  <2>4. Log!Acknowledge(r)
    BY <2>1, <2>2, <2>3 DEF Log!Acknowledge
  <2> QED
    BY <2>4 DEF Log!Next
<1>4. CASE (\A j \in Job : LogOf(j)' = LogOf(j)) /\ acked' = acked
  BY <1>4
<1>5. \/ \E s \in Slave : Reply(s)
      \/ acked' = acked
  BY StepCases DEF RecordTags, OpenFile, CreateFile, CloseFile, RewriteFile, WriteFile, Abandon, vars
<1> QED
  BY <1>1, <1>2, <1>3, <1>4, <1>5

\* Calls that do not overlap on a job, served by slaves that do not fail, implement
\* the append-only log, for any number of slaves, jobs and calls (RecordTag and
\* RecordMultiTags through open_file, close_file): no step loses, repeats or reorders
\* the tags of a job, and a call that is answered OK has all of its tags in the logs.
THEOREM ImplementsTheLog ==
  ASSUME ~Overlap, ~Failures
  PROVE  Spec => ImplementsLog
<1>1. LogInv /\ [Next]_vars => LogInv'
  BY LogInvStep
<1>2. LogInv /\ [Next]_vars => [Log!Next]_<<[j \in Job |-> LogOf(j)], acked>>
  BY LogNext
<1> QED
  BY <1>1, <1>2, LogInvInit, LogInit, PTL DEF Spec, ImplementsLog, Log!Spec

-----------------------------------------------------------------------------
(* Whole items: whatever calls overlap and whatever fails.                  *)

\* Tags recorded for a job can be told apart, so that it makes sense to say where
\* one of them is and how many times.
DistinctTags ==
  \A q, r \in Request : \A k \in DOMAIN q, l \in DOMAIN r :
    \A m \in DOMAIN q[k].tags, n \in DOMAIN r[l].tags :
      q[k].job = r[l].job /\ q[k].tags[m] = r[l].tags[n] => q = r /\ k = l /\ m = n

\* Item k of call r may be written yet.
Pending(r, k) ==
  \/ r \notin sent
  \/ \E s \in Slave : slave[s].pc \notin {"idle", "reply"} /\ slave[s].req = r /\ slave[s].k <= k

Stands(a, t, p) == p + Len(a) <= Len(t) /\ \A m \in 1 .. Len(a) : t[p + m] = a[m]

\* Item k of call r, written by now, stands in t around place n.
Around(j, t, n, r, k) ==
  /\ r[k].job = j /\ ~Pending(r, k)
  /\ \E p \in Nat : Stands(r[k].tags, t, p) /\ n \in (p + 1) .. (p + Len(r[k].tags))

\* t is put together from such items of job j, and has no tag twice.
Built(j, t) ==
  /\ \A n \in DOMAIN t : \E r \in Request : \E k \in DOMAIN r : Around(j, t, n, r, k)
  /\ \A m, n \in DOMAIN t : t[m] = t[n] => m = n

\* A call is served by one slave.
Solo == \A s, t \in Slave : ~At(s, "idle") /\ ~At(t, "idle") /\ slave[s].req = slave[t].req => s = t

WholeInv ==
  /\ TypeInv /\ Solo
  /\ \A j \in Job : Built(j, TagsRead(file[j]))
  /\ \A s \in Slave : slave[s].pc \notin {"idle", "reply"} => Built(JobOf(s), slave[s].old)

LEMMA SubSeqStands ==
  ASSUME NEW t \in Seq(Tag), NEW a \in Seq(Tag), NEW p \in Nat, p + Len(a) <= Len(t)
  PROVE  SubSeq(t, p + 1, p + Len(a)) = a <=> Stands(a, t, p)
<1>1. Len(t) \in Nat /\ Len(a) \in Nat
  BY LenProperties
<1> DEFINE m == p + 1
           k == p + Len(a)
<1>2. m \in Int /\ k \in Int /\ \A i \in m .. k : i \in 1 .. Len(t) /\ t[i] \in Tag
  BY <1>1, ElementOfSeq
<1>3. /\ SubSeq(t, m, k) \in Seq(Tag) /\ Len(SubSeq(t, m, k)) = IF m <= k THEN k - m + 1 ELSE 0
      /\ \A i \in 1 .. k - m + 1 : SubSeq(t, m, k)[i] = t[m + i - 1]
  BY <1>2, SubSeqProperties, SMTT(30)
<1>4. Len(SubSeq(t, m, k)) = Len(a) /\ k - m + 1 = Len(a) /\ \A i \in 1 .. Len(a) : m + i - 1 = p + i
  BY <1>1, <1>3
<1>5. \A i \in 1 .. Len(a) : SubSeq(t, m, k)[i] = t[p + i]
  BY <1>3, <1>4
<1>6. SubSeq(t, m, k) = a => Stands(a, t, p)
  BY <1>5 DEF Stands
<1>7. Stands(a, t, p) => SubSeq(t, m, k) = a
  <2> HIDE DEF m, k
  <2> QED
    BY <1>3, <1>4, <1>5, SeqEqual DEF Stands
<1> QED
  BY <1>6, <1>7

\* What a reader of a file put together so finds of an item.
LEMMA BuiltWhole ==
  ASSUME DistinctTags, NEW r \in Request, NEW k \in DOMAIN r, NEW t \in Seq(Tag),
         t = TagsRead(file[r[k].job]), Built(r[k].job, t),
         NEW n \in DOMAIN t, NEW m \in DOMAIN r[k].tags, r[k].tags[m] = t[n]
  PROVE  \E p \in 0 .. Len(t) : Places(r[k]) = {p} /\ n \in (p + 1) .. (p + Len(r[k].tags))
<1> PICK a \in Seq(Tag) : a = r[k].tags
  BY RequestTypes
<1>0. Len(t) \in Nat /\ DOMAIN t = 1 .. Len(t) /\ Len(a) \in Nat /\ DOMAIN a = 1 .. Len(a)
  BY LenProperties
<1> PICK q \in Request : \E l \in DOMAIN q : Around(r[k].job, t, n, q, l)
  BY DEF Built
<1> PICK l \in DOMAIN q : Around(r[k].job, t, n, q, l)
  OBVIOUS
<1> PICK b \in Seq(Tag) : b = q[l].tags
  BY RequestTypes
<1> PICK p \in Nat : Stands(b, t, p) /\ n \in (p + 1) .. (p + Len(b))
  BY DEF Around
<1>1. Len(b) \in Nat /\ DOMAIN b = 1 .. Len(b)
  BY LenProperties
<1>2. n - p \in 1 .. Len(b) /\ p + (n - p) = n
  BY <1>0, <1>1
<1>3. b[n - p] = t[n]
  BY <1>2 DEF Stands
<1>4. q = r /\ l = k
  <2> PICK i \in DOMAIN q[l].tags : i = n - p
    BY <1>1, <1>2
  <2>1. q[l].tags[i] = r[k].tags[m] /\ q[l].job = r[k].job
    BY <1>3 DEF Around
  <2> QED
    BY <2>1 DEF DistinctTags
<1>5. Stands(a, t, p) /\ p + Len(a) <= Len(t) /\ n \in (p + 1) .. (p + Len(a))
  BY <1>4 DEF Stands
<1>6. p \in 0 .. (Len(t) - Len(a)) /\ p \in 0 .. Len(t)
  BY <1>0, <1>5
<1>7. p \in Places(r[k])
  <2>1. SubSeq(t, p + 1, p + Len(a)) = a
    BY <1>5, SubSeqStands
  <2> QED
    BY <1>6, <2>1 DEF Places
<1>8. ASSUME NEW o \in Places(r[k]) PROVE o = p
  <2>1. o \in 0 .. (Len(t) - Len(a)) /\ SubSeq(t, o + 1, o + Len(a)) = a
    BY DEF Places
  <2>2. o \in Nat /\ o + Len(a) <= Len(t)
    BY <1>0, <2>1
  <2>3. Stands(a, t, o)
    BY <2>1, <2>2, SubSeqStands
  <2>4. m \in 1 .. Len(a) /\ t[o + m] = a[m] /\ t[p + m] = a[m]
    BY <1>0, <1>5, <2>3 DEF Stands
  <2>5. o + m \in DOMAIN t /\ p + m \in DOMAIN t
    <3>1. m \in Nat /\ 1 <= m /\ m <= Len(a)
      BY <1>0, <2>4
    <3>2. o + m \in 1 .. Len(t) /\ p + m \in 1 .. Len(t)
      BY <1>0, <1>5, <2>2, <3>1
    <3> QED
      BY <1>0, <3>2
  <2>6. o + m = p + m
    BY <2>4, <2>5 DEF Built
  <2> QED
    BY <1>0, <2>2, <2>4, <2>6
<1> QED
  BY <1>5, <1>6, <1>7, <1>8

\* An item is written once: one that cannot be written any more stays so.
LEMMA PendingStep ==
  ASSUME TypeInv, [Next]_vars, NEW r \in Request, NEW k \in DOMAIN r, Pending(r, k)'
  PROVE  Pending(r, k)
<1> USE DEF TypeInv
<1>0. r \in Request /\ k \in Nat /\ \A s \in Slave : slave[s].k \in Nat
  BY RequestTypes DEF TypeOK, Local
<1>1. ASSUME NEW s \in Slave, Moved(s), sent' = sent,
             slave'[s].pc \in {"idle", "reply"} \/
               (slave[s].pc \notin {"idle", "reply"} /\ slave'[s].req = slave[s].req /\ slave'[s].k >= slave[s].k)
      PROVE  Pending(r, k)
  <2>1. CASE r \notin sent'
    BY <1>1, <2>1 DEF Pending
  <2>2. CASE \E t \in Slave : slave'[t].pc \notin {"idle", "reply"} /\ slave'[t].req = r /\ slave'[t].k <= k
    <3> PICK t \in Slave : slave'[t].pc \notin {"idle", "reply"} /\ slave'[t].req = r /\ slave'[t].k <= k
      BY <2>2
    <3>0. slave'[t].k \in Nat
      BY <1>1 DEF Moved, Local
    <3>1. slave[t].pc \notin {"idle", "reply"} /\ slave[t].req = r /\ slave[t].k <= k
      BY <1>0, <1>1, <3>0 DEF Moved
    <3> QED
      BY <3>1 DEF Pending
  <2> QED
    BY <2>1, <2>2 DEF Pending
<1>2. ASSUME NEW s \in Slave, NEW q \in Request, RecordTags(s, q) PROVE Pending(r, k)
  <2>1. sent' = sent \cup {q} /\ q \notin sent /\ Moved(s) /\ slave'[s].req = q
    BY <1>2, RecordTagsEffect DEF RecordTags
  <2>2. CASE r \in sent
    <3> PICK t \in Slave : slave'[t].pc \notin {"idle", "reply"} /\ slave'[t].req = r /\ slave'[t].k <= k
      BY <2>1, <2>2 DEF Pending
    <3>1. t # s
      BY <2>1, <2>2
    <3> QED
      BY <2>1, <3>1 DEF Moved, Pending
  <2> QED
    BY <2>2 DEF Pending
<1>3. ASSUME NEW s \in Slave, OpenFile(s) PROVE Pending(r, k)
  <2>1. slave[s].pc = "open" /\ sent' = sent
    BY <1>3 DEF OpenFile, At
  <2>2. /\ Moved(s)
        /\ slave'[s].pc = "idle" \/ (slave'[s].req = slave[s].req /\ slave'[s].k = slave[s].k)
    BY <1>3, OpenFileEffect
  <2> QED
    BY <1>0, <1>1, <2>1, <2>2
<1>4. ASSUME NEW s \in Slave, CreateFile(s) PROVE Pending(r, k)
  <2>1. slave[s].pc = "create" /\ sent' = sent
    BY <1>4 DEF CreateFile, At
  <2>2. Moved(s) /\ slave'[s].req = slave[s].req /\ slave'[s].k = slave[s].k
    BY <1>4, CreateFileEffect
  <2> QED
    BY <1>0, <1>1, <2>1, <2>2
<1>5. ASSUME NEW s \in Slave, Advanced(s), sent' = sent, slave[s].pc \notin {"idle", "reply"}
      PROVE  Pending(r, k)
  BY <1>0, <1>1, <1>5 DEF Advanced
<1>6. ASSUME NEW s \in Slave, CloseFile(s) PROVE Pending(r, k)
  <2>1. slave[s].pc = "close" /\ sent' = sent
    BY <1>6 DEF CloseFile, At
  <2> QED
    BY <1>0, <1>1, <1>5, <1>6, <2>1, CloseFileEffect
<1>7. ASSUME NEW s \in Slave, RewriteFile(s) PROVE Pending(r, k)
  BY <1>0, <1>1, <1>7, GotoEffect DEF RewriteFile, At
<1>8. ASSUME NEW s \in Slave, WriteFile(s) PROVE Pending(r, k)
  BY <1>5, <1>8, NextItemEffect DEF WriteFile, At
<1>9. ASSUME NEW s \in Slave, Reply(s) \/ Abandon(s) PROVE Pending(r, k)
  BY <1>1, <1>9, DoneEffect DEF Reply, Abandon
<1>10. CASE UNCHANGED vars
  BY <1>10 DEF vars, Pending
<1> QED
  BY StepCases, <1>2, <1>3, <1>4, <1>6, <1>7, <1>8, <1>9, <1>10

LEMMA BuiltStays ==
  ASSUME TypeInv, [Next]_vars, NEW j, NEW t, Built(j, t)
  PROVE  Built(j, t)'
<1> SUFFICES ASSUME NEW n \in DOMAIN t
             PROVE  \E r \in Request : \E k \in DOMAIN r : Around(j, t, n, r, k)'
  BY DEF Built
<1> PICK r \in Request : \E k \in DOMAIN r : Around(j, t, n, r, k)
  BY DEF Built
<1> PICK k \in DOMAIN r : Around(j, t, n, r, k)
  OBVIOUS
<1> QED
  BY PendingStep DEF Around

LEMMA NothingBuilt == \A j : Built(j, <<>>) /\ Built(j, <<>>)'
BY DEF Built

LEMMA SoloStep ==
  ASSUME TypeInv, Solo, [Next]_vars
  PROVE  Solo'
<1>0. TypeOK /\ Serving
  BY DEF TypeInv
<1>1. ASSUME NEW s \in Slave, Moved(s),
             slave'[s].pc = "idle" \/ (slave[s].pc # "idle" /\ slave'[s].req = slave[s].req)
      PROVE  Solo'
  BY <1>1 DEF Solo, Moved, At
<1>2. ASSUME NEW s \in Slave, NEW r \in Request, RecordTags(s, r) PROVE Solo'
  <2>1. Moved(s) /\ slave'[s].req = r /\ r \notin sent
    BY <1>0, <1>2, RecordTagsEffect DEF RecordTags
  <2> QED
    BY <1>0, <2>1 DEF Solo, Moved, At, Serving
<1>3. ASSUME NEW s \in Slave, OpenFile(s) PROVE Solo'
  <2>1. slave[s].pc = "open"
    BY <1>3 DEF OpenFile, At
  <2>2. Moved(s) /\ (slave'[s].pc = "idle" \/ slave'[s].req = slave[s].req)
    BY <1>0, <1>3, OpenFileEffect
  <2> QED
    BY <1>1, <2>1, <2>2
<1>4. ASSUME NEW s \in Slave, CreateFile(s) PROVE Solo'
  <2>1. slave[s].pc = "create" /\ Moved(s) /\ slave'[s].req = slave[s].req
    BY <1>0, <1>4, CreateFileEffect DEF CreateFile, At
  <2> QED
    BY <1>1, <2>1
<1>5. ASSUME NEW s \in Slave, CloseFile(s) PROVE Solo'
  <2>1. slave[s].pc = "close" /\ Moved(s) /\ slave'[s].req = slave[s].req
    BY <1>0, <1>5, CloseFileEffect DEF CloseFile, At, Advanced
  <2> QED
    BY <1>1, <2>1
<1>6. ASSUME NEW s \in Slave, RewriteFile(s) PROVE Solo'
  <2>1. slave[s].pc = "rewrite" /\ Moved(s) /\ slave'[s].req = slave[s].req
    BY <1>0, <1>6, GotoEffect DEF RewriteFile, At
  <2> QED
    BY <1>1, <2>1
<1>7. ASSUME NEW s \in Slave, WriteFile(s) PROVE Solo'
  <2>1. slave[s].pc = "write" /\ NextItem(s)
    BY <1>7 DEF WriteFile, At
  <2>2. Moved(s) /\ slave'[s].req = slave[s].req
    BY <1>0, <2>1, NextItemEffect DEF Advanced
  <2> QED
    BY <1>1, <2>1, <2>2
<1>8. ASSUME NEW s \in Slave, Reply(s) \/ Abandon(s) PROVE Solo'
  BY <1>0, <1>1, <1>8, DoneEffect DEF Reply, Abandon
<1>9. CASE UNCHANGED vars
  BY <1>9 DEF vars, Solo, At
<1> QED
  BY StepCases, <1>2, <1>3, <1>4, <1>5, <1>6, <1>7, <1>8, <1>9

\* A slave keeps what it holds, drops it, or takes what the file holds.
LEMMA OldsStep ==
  ASSUME WholeInv, [Next]_vars, NEW s \in Slave, Moved(s),
         \/ slave'[s].pc \in {"idle", "reply"}
         \/ slave'[s].old = <<>>
         \/ /\ slave[s].pc \notin {"idle", "reply"}
            /\ slave'[s].req = slave[s].req /\ slave'[s].k = slave[s].k
            /\ slave'[s].old = slave[s].old \/ slave'[s].old = TagsRead(file[JobOf(s)])
  PROVE  \A t \in Slave : slave'[t].pc \notin {"idle", "reply"} => Built(JobOf(t), slave[t].old)'
<1>0. TypeInv /\ TypeOK
  BY DEF WholeInv, TypeInv
<1> SUFFICES ASSUME NEW t \in Slave, slave'[t].pc \notin {"idle", "reply"}
             PROVE  Built(JobOf(t), slave[t].old)'
  OBVIOUS
<1>1. ASSUME NEW j, NEW o, Built(j, o), JobOf(t)' = j, slave'[t].old = o
      PROVE  Built(JobOf(t), slave[t].old)'
  BY <1>0, <1>1, BuiltStays
<1>2. CASE t # s
  <2>1. slave'[t] = slave[t]
    BY <1>2 DEF Moved
  <2> PICK j, o : j = JobOf(t) /\ o = slave[t].old
    OBVIOUS
  <2>2. Built(j, o) /\ JobOf(t)' = j /\ slave'[t].old = o
    BY <2>1 DEF WholeInv, JobOf, ItemOf
  <2> QED
    BY <1>1, <2>2
<1>3. CASE t = s /\ slave'[s].old = <<>>
  <2> PICK j : j = JobOf(t)'
    OBVIOUS
  <2> QED
    BY <1>1, <1>3, NothingBuilt
<1>4. CASE /\ t = s /\ slave[s].pc \notin {"idle", "reply"}
           /\ slave'[s].req = slave[s].req /\ slave'[s].k = slave[s].k
           /\ slave'[s].old = slave[s].old \/ slave'[s].old = TagsRead(file[JobOf(s)])
  <2> PICK j, o : j = JobOf(s) /\ o = slave'[s].old
    OBVIOUS
  <2>1. j \in Job
    BY <1>0, <1>4, AtItem
  <2>2. Built(j, o)
    BY <1>4, <2>1 DEF WholeInv
  <2>3. JobOf(t)' = j
    BY <1>4 DEF JobOf, ItemOf
  <2> QED
    BY <1>1, <1>4, <2>2, <2>3
<1> QED
  BY <1>2, <1>3, <1>4

\* What is written over a file is put together from whole items.
LEMMA WriteBuilt ==
  ASSUME DistinctTags, WholeInv, [Next]_vars, NEW s \in Slave, WriteFile(s),
         NEW j, j = JobOf(s), NEW c, c = Content(s)
  PROVE  Built(j, c)'
<1>0. TypeInv /\ TypeOK /\ Solo /\ slave[s].pc = "write" /\ sent' = sent
  BY DEF WholeInv, TypeInv, WriteFile, At
<1> PICK r \in Request : r = slave[s].req
  BY <1>0, AtItem
<1> PICK k \in DOMAIN r : k = slave[s].k
  BY <1>0, AtItem
<1> PICK o \in Seq(Tag), a \in Seq(Tag) : o = slave[s].old /\ a = TagsOf(s)
  BY <1>0, AtItem
<1>1. a = r[k].tags /\ j = r[k].job /\ Built(j, o) /\ c = o \o a /\ k \in Nat /\ r \in sent
  BY <1>0, RequestTypes, SMTT(30) DEF TagsOf, JobOf, ItemOf, WholeInv, Content, TypeInv, Serving, At
<1>2. Pending(r, k) /\ ~Pending(r, k)'
  <2>0. k <= k /\ ~(k + 1 <= k)
    <3>1. \A i \in Nat : i <= i /\ ~(i + 1 <= i)
      OBVIOUS
    <3> QED
      BY <1>1, <3>1
  <2>1. Pending(r, k)
    <3>1. slave[s].pc \notin {"idle", "reply"} /\ slave[s].req = r /\ slave[s].k <= k
      BY <1>0, <2>0
    <3> QED
      BY <3>1 DEF Pending
  <2>2. Advanced(s)
    BY <1>0, NextItemEffect DEF WriteFile
  <2>3. ASSUME NEW t \in Slave, slave'[t].pc \notin {"idle", "reply"}, slave'[t].req = r, slave'[t].k <= k
        PROVE  FALSE
    <3>1. CASE t = s
      <4>1. slave'[s].k = k + 1
        BY <2>2, <2>3, <3>1 DEF Advanced
      <4> QED
        BY <2>0, <2>3, <3>1, <4>1
    <3>2. CASE t # s
      BY <1>0, <2>2, <2>3, <3>2 DEF Advanced, Moved, Solo, At
    <3> QED
      BY <3>1, <3>2
  <2> QED
    BY <1>0, <1>1, <2>1, <2>3 DEF Pending
<1>3. /\ Len(o) \in Nat /\ DOMAIN o = 1 .. Len(o) /\ Len(a) \in Nat /\ DOMAIN a = 1 .. Len(a)
      /\ Len(c) = Len(o) + Len(a) /\ DOMAIN c = 1 .. (Len(o) + Len(a))
      /\ \A i \in 1 .. Len(o) + Len(a) : c[i] = IF i <= Len(o) THEN o[i] ELSE a[i - Len(o)]
  <2>1. /\ c \in Seq(Tag) /\ Len(c) = Len(o) + Len(a)
        /\ \A i \in 1 .. Len(o) + Len(a) : c[i] = IF i <= Len(o) THEN o[i] ELSE a[i - Len(o)]
    <3>1. /\ o \o a \in Seq(Tag) /\ Len(o \o a) = Len(o) + Len(a)
          /\ \A i \in 1 .. Len(o) + Len(a) : (o \o a)[i] = IF i <= Len(o) THEN o[i] ELSE a[i - Len(o)]
      BY ConcatProperties
    <3> QED
      BY <1>1, <3>1
  <2> QED
    BY <2>1, LenProperties
<1>4. \A i \in 1 .. Len(o) : c[i] = o[i]
  BY <1>3
<1>5. \A i \in 1 .. Len(a) : c[Len(o) + i] = a[i]
  <2> TAKE i \in 1 .. Len(a)
  <2>1. Len(o) + i \in 1 .. Len(o) + Len(a) /\ ~(Len(o) + i <= Len(o)) /\ (Len(o) + i) - Len(o) = i
    BY <1>3
  <2> QED
    BY <1>3, <2>1
<1>6. ASSUME NEW n \in 1 .. Len(o)
      PROVE  \E q \in Request : \E l \in DOMAIN q : Around(j, o, n, q, l) /\ Around(j, c, n, q, l)'
  <2> PICK q \in Request : \E l \in DOMAIN q : Around(j, o, n, q, l)
    BY <1>1, <1>3 DEF Built
  <2> PICK l \in DOMAIN q : Around(j, o, n, q, l)
    OBVIOUS
  <2> PICK b \in Seq(Tag) : b = q[l].tags
    BY RequestTypes
  <2> PICK p \in Nat : Stands(b, o, p) /\ n \in (p + 1) .. (p + Len(b))
    BY DEF Around
  <2>1. Len(b) \in Nat
    BY LenProperties
  <2>2. \A m \in 1 .. Len(b) : p + m \in 1 .. Len(o)
    BY <1>3, <2>1 DEF Stands
  <2>3. Stands(b, c, p)
    BY <1>3, <1>4, <2>1, <2>2 DEF Stands
  <2>4. ~Pending(q, l)'
    BY <1>0, PendingStep DEF Around
  <2> QED
    BY <2>3, <2>4 DEF Around
<1>7. ASSUME NEW n \in 1 .. Len(a) PROVE Around(j, c, Len(o) + n, r, k)'
  <2>1. Stands(a, c, Len(o)) /\ Len(o) + n \in (Len(o) + 1) .. (Len(o) + Len(a))
    BY <1>3, <1>5 DEF Stands
  <2> QED
    BY <1>1, <1>2, <1>3, <2>1 DEF Around
<1>8. ASSUME NEW m \in 1 .. Len(o), NEW n \in 1 .. Len(a) PROVE o[m] # a[n]
  <2> PICK q \in Request : \E l \in DOMAIN q : Around(j, o, m, q, l)
    BY <1>6
  <2> PICK l \in DOMAIN q : Around(j, o, m, q, l)
    OBVIOUS
  <2> PICK b \in Seq(Tag) : b = q[l].tags
    BY RequestTypes
  <2> PICK p \in Nat : Stands(b, o, p) /\ m \in (p + 1) .. (p + Len(b))
    BY DEF Around
  <2>1. Len(b) \in Nat /\ DOMAIN b = 1 .. Len(b)
    BY LenProperties
  <2> PICK i \in DOMAIN b : i = m - p /\ p + i = m
    BY <1>3, <2>1
  <2>2. b[i] = o[m]
    BY <2>1 DEF Stands
  <2>3. ~Pending(q, l) /\ q[l].job = r[k].job
    BY <1>1 DEF Around
  <2>4. i \in DOMAIN q[l].tags /\ n \in DOMAIN r[k].tags /\ a[n] = r[k].tags[n] /\ o[m] = q[l].tags[i]
    BY <1>1, <1>3, <2>2
  <2>5. ~(q = r /\ l = k)
    BY <1>2, <2>3
  <2> QED
    BY <2>3, <2>4, <2>5 DEF DistinctTags
<1>9. \A n \in 1 .. Len(o) + Len(a) :
        n \in 1 .. Len(o) \/ \E i \in 1 .. Len(a) : n = Len(o) + i
  <2> TAKE n \in 1 .. Len(o) + Len(a)
  <2>1. CASE n <= Len(o)
    BY <1>3, <2>1
  <2>2. CASE ~(n <= Len(o))
    <3>1. n - Len(o) \in 1 .. Len(a) /\ n = Len(o) + (n - Len(o))
      BY <1>3, <2>2
    <3> QED
      BY <3>1
  <2> QED
    BY <2>1, <2>2
<1>10. \A n \in DOMAIN c : \E q \in Request : \E l \in DOMAIN q : Around(j, c, n, q, l)'
  <2> TAKE n \in DOMAIN c
  <2>1. CASE n \in 1 .. Len(o)
    BY <1>6, <2>1
  <2>2. CASE \E i \in 1 .. Len(a) : n = Len(o) + i
    BY <1>7, <2>2
  <2> QED
    BY <1>3, <1>9, <2>1, <2>2
<1>11. \A m, n \in 1 .. Len(o) : c[m] = c[n] => m = n
  <2>1. \A m, n \in DOMAIN o : o[m] = o[n] => m = n
    BY <1>1 DEF Built
  <2>2. \A m, n \in 1 .. Len(o) : o[m] = o[n] => m = n
    BY <1>3, <2>1
  <2> QED
    BY <1>4, <2>2
<1>12. \A m, n \in 1 .. Len(a) : c[Len(o) + m] = c[Len(o) + n] => m = n
  <2> SUFFICES ASSUME NEW m \in 1 .. Len(a), NEW n \in 1 .. Len(a), a[m] = a[n] PROVE m = n
    BY <1>5
  <2>1. m \in DOMAIN r[k].tags /\ n \in DOMAIN r[k].tags /\ r[k].tags[m] = r[k].tags[n]
    BY <1>1, <1>3
  <2> QED
    BY <2>1 DEF DistinctTags
<1>13. \A m, n \in DOMAIN c : c[m] = c[n] => m = n
  <2> TAKE m, n \in DOMAIN c
  <2>1. CASE m \in 1 .. Len(o) /\ n \in 1 .. Len(o)
    BY <1>11, <2>1
  <2>2. CASE \E x, y \in 1 .. Len(a) : m = Len(o) + x /\ n = Len(o) + y
    BY <1>12, <2>2
  <2>3. CASE m \in 1 .. Len(o) /\ \E y \in 1 .. Len(a) : n = Len(o) + y
    BY <1>4, <1>5, <1>8, <2>3
  <2>4. CASE n \in 1 .. Len(o) /\ \E y \in 1 .. Len(a) : m = Len(o) + y
    BY <1>4, <1>5, <1>8, <2>4
  <2> QED
    BY <1>3, <1>9, <2>1, <2>2, <2>3, <2>4
<1> QED
  BY <1>10, <1>13 DEF Built

\* Files that a step leaves alone, empties, spoils or writes.
LEMMA FilesStep ==
  ASSUME WholeInv, [Next]_vars, NEW i \in Job, NEW f \in File,
         file' = file \/ file' = [file EXCEPT ![i] = f], Built(i, TagsRead(f))'
  PROVE  \A j \in Job : Built(j, TagsRead(file[j]))'
<1>0. TypeInv /\ file \in [Job -> File]
  BY DEF WholeInv, TypeInv, TypeOK
<1> SUFFICES ASSUME NEW j \in Job PROVE Built(j, TagsRead(file[j]))'
  OBVIOUS
<1>1. CASE file'[j] = file[j]
  <2> PICK t : t = TagsRead(file[j])
    OBVIOUS
  <2>1. Built(j, t)
    BY DEF WholeInv
  <2>2. Built(j, t)'
    BY <1>0, <2>1, BuiltStays
  <2>3. TagsRead(file[j])' = t
    BY <1>1 DEF TagsRead
  <2> QED
    BY <2>2, <2>3
<1>2. CASE j = i /\ file'[j] = f
  <2>1. TagsRead(file[j])' = TagsRead(f)
    BY <1>2 DEF TagsRead
  <2> QED
    BY <1>2, <2>1
<1> QED
  BY <1>0, <1>1, <1>2

LEMMA Spoilt == TagsRead(Holds(<<>>)) = <<>> /\ TagsRead(Corrupt) = <<>> /\ TagsRead(Absent) = <<>>
BY FileTypes DEF TagsRead, Corrupt, Absent

LEMMA AdvancedOld ==
  ASSUME NEW s \in Slave, Advanced(s)
  PROVE  Moved(s) /\ (slave'[s].pc \in {"idle", "reply"} \/ slave'[s].old = <<>>)
BY DEF Advanced

LEMMA WholeStep == DistinctTags /\ WholeInv /\ [Next]_vars => WholeInv'
<1> SUFFICES ASSUME DistinctTags, WholeInv, [Next]_vars PROVE WholeInv'
  OBVIOUS
<1>0. TypeInv /\ TypeOK /\ Solo /\ file \in [Job -> File]
  BY DEF WholeInv, TypeInv, TypeOK
<1>1. TypeInv' /\ Solo'
  BY <1>0, TypeStep, SoloStep
<1> DEFINE Files == \A j \in Job : Built(j, TagsRead(file[j]))
           Olds == \A s \in Slave : slave[s].pc \notin {"idle", "reply"} => Built(JobOf(s), slave[s].old)
<1>2. ASSUME file' = file PROVE Files'
  <2> SUFFICES ASSUME NEW j \in Job PROVE Built(j, TagsRead(file[j]))'
    OBVIOUS
  <2> PICK t : t = TagsRead(file[j])
    OBVIOUS
  <2>1. Built(j, t)
    BY DEF WholeInv
  <2>2. Built(j, t)'
    BY <1>0, <2>1, BuiltStays
  <2>3. TagsRead(file[j])' = t
    BY <1>2 DEF TagsRead
  <2> QED
    BY <2>2, <2>3
<1>3. ASSUME NEW s \in Slave, NEW r \in Request, RecordTags(s, r) PROVE Files' /\ Olds'
  <2>1. Moved(s) /\ slave'[s].old = <<>> /\ file' = file
    BY <1>0, <1>3, RecordTagsEffect DEF RecordTags
  <2> QED
    BY <1>2, <2>1, OldsStep
<1>4. ASSUME NEW s \in Slave, OpenFile(s) PROVE Files' /\ Olds'
  <2>1. slave[s].pc = "open" /\ file' = file
    BY <1>4 DEF OpenFile, At
  <2>2. /\ Moved(s)
        /\ \/ slave'[s].pc = "idle"
           \/ /\ slave'[s].req = slave[s].req /\ slave'[s].k = slave[s].k
              /\ slave'[s].old = slave[s].old \/ slave'[s].old = TagsRead(file[JobOf(s)])
    BY <1>0, <1>4, OpenFileEffect DEF TagsRead
  <2>3. Olds'
    BY <2>1, <2>2, OldsStep
  <2> QED
    BY <1>2, <2>1, <2>3
<1>5. ASSUME NEW s \in Slave, CreateFile(s) PROVE Files' /\ Olds'
  <2>1. /\ slave[s].pc = "create" /\ Moved(s) /\ slave'[s].req = slave[s].req /\ slave'[s].k = slave[s].k
        /\ slave'[s].old = slave[s].old
    BY <1>0, <1>5, CreateFileEffect DEF CreateFile, At
  <2>2. Olds'
    BY <2>1, OldsStep
  <2> PICK i \in Job, f \in File : i = JobOf(s) /\ f = Holds(<<>>)
    BY <1>0, <2>1, AtItem, FileTypes
  <2>3. file' = [file EXCEPT ![i] = f] /\ Built(i, TagsRead(f))'
    BY <1>5, Spoilt, NothingBuilt DEF CreateFile
  <2>4. Files'
    BY <2>3, FilesStep
  <2> QED
    BY <2>2, <2>4
<1>6. ASSUME NEW s \in Slave, CloseFile(s) PROVE Files' /\ Olds'
  <2>1. slave[s].pc = "close" /\ (file' = file \/ file' = [file EXCEPT ![JobOf(s)] = Corrupt])
    BY <1>6 DEF CloseFile, At
  <2>2. Olds'
    <3>1. CASE Advanced(s)
      BY <3>1, AdvancedOld, OldsStep
    <3>2. CASE /\ Moved(s) /\ slave'[s].req = slave[s].req
               /\ slave'[s].k = slave[s].k /\ slave'[s].old = slave[s].old
      BY <2>1, <3>2, OldsStep
    <3> QED
      BY <1>0, <1>6, <3>1, <3>2, CloseFileEffect
  <2> PICK i \in Job, f \in File : i = JobOf(s) /\ f = Corrupt
    BY <1>0, <2>1, AtItem, FileTypes
  <2>3. Built(i, TagsRead(f))'
    BY Spoilt, NothingBuilt
  <2>4. Files'
    BY <2>1, <2>3, FilesStep
  <2> QED
    BY <2>2, <2>4
<1>7. ASSUME NEW s \in Slave, RewriteFile(s) PROVE Files' /\ Olds'
  <2>1. /\ slave[s].pc = "rewrite" /\ Moved(s) /\ slave'[s].req = slave[s].req /\ slave'[s].k = slave[s].k
        /\ slave'[s].old = slave[s].old
    BY <1>0, <1>7, GotoEffect DEF RewriteFile, At
  <2>2. Olds'
    BY <2>1, OldsStep
  <2> PICK i \in Job, f \in File : i = JobOf(s) /\ f = Holds(<<>>)
    BY <1>0, <2>1, AtItem, FileTypes
  <2>3. file' = [file EXCEPT ![i] = f] /\ Built(i, TagsRead(f))'
    BY <1>7, Spoilt, NothingBuilt DEF RewriteFile
  <2>4. Files'
    BY <2>3, FilesStep
  <2> QED
    BY <2>2, <2>4
<1>8. ASSUME NEW s \in Slave, WriteFile(s) PROVE Files' /\ Olds'
  <2>1. slave[s].pc = "write" /\ NextItem(s)
    BY <1>8 DEF WriteFile, At
  <2>2. Advanced(s)
    BY <1>0, <2>1, NextItemEffect
  <2>3. Olds'
    BY <2>2, AdvancedOld, OldsStep
  <2> PICK i \in Job, c \in Seq(Tag) : i = JobOf(s) /\ c = Content(s)
    BY <1>0, <2>1, AtItem
  <2> PICK g \in File, h \in File : g = Holds(c) /\ h = Corrupt
    BY FileTypes
  <2>4. TagsRead(g) = c /\ Built(i, c)'
    BY <1>8, WriteBuilt, FileTypes DEF TagsRead
  <2>5. Built(i, TagsRead(g))' /\ Built(i, TagsRead(h))'
    BY <2>4, Spoilt, NothingBuilt
  <2>6. file' = [file EXCEPT ![i] = g] \/ file' = [file EXCEPT ![i] = h]
    BY <1>8 DEF WriteFile
  <2>7. Files'
    BY <2>5, <2>6, FilesStep
  <2> QED
    BY <2>3, <2>7
<1>9. ASSUME NEW s \in Slave, Reply(s) \/ Abandon(s) PROVE Files' /\ Olds'
  <2>1. Moved(s) /\ slave'[s].pc = "idle" /\ file' = file
    BY <1>0, <1>9, DoneEffect DEF Reply, Abandon
  <2> QED
    BY <1>2, <2>1, OldsStep
<1>10. ASSUME UNCHANGED vars PROVE Files' /\ Olds'
  <2>1. file' = file /\ slave' = slave
    BY <1>10 DEF vars
  <2>2. Olds'
    <3> SUFFICES ASSUME NEW s \in Slave, slave[s].pc \notin {"idle", "reply"}
                 PROVE  Built(JobOf(s), slave[s].old)'
      BY <2>1
    <3> PICK j, o : j = JobOf(s) /\ o = slave[s].old
      OBVIOUS
    <3>1. Built(j, o)
      BY DEF WholeInv
    <3>2. Built(j, o)' /\ JobOf(s)' = j /\ slave'[s].old = o
      BY <1>0, <2>1, <3>1, BuiltStays DEF JobOf, ItemOf
    <3> QED
      BY <3>2
  <2>3. Files'
    BY <1>2, <2>1
  <2> QED
    BY <2>2, <2>3
<1> HIDE DEF Files, Olds
<1>11. Files' /\ Olds'
  BY StepCases, <1>3, <1>4, <1>5, <1>6, <1>7, <1>8, <1>9, <1>10
<1> QED
  BY <1>1, <1>11 DEF WholeInv, Files, Olds

LEMMA WholeInit == Init => WholeInv
<1> SUFFICES ASSUME Init PROVE WholeInv
  OBVIOUS
<1>1. TypeInv
  BY TypeInit
<1>2. \A s \in Slave : slave[s].pc = "idle"
  BY IdleType DEF Init
<1>3. \A j \in Job : Built(j, TagsRead(file[j]))
  BY Spoilt, NothingBuilt DEF Init
<1> QED
  BY <1>1, <1>2, <1>3 DEF WholeInv, Solo, At

\* Whatever calls for the same job overlap, whatever statements fail and wherever
\* slaves are killed (RecordTag and RecordMultiTags rewrite the file without a lock),
\* a file that can be read holds the tags of one call for one job all together, in
\* their order and once, or none of them, when the tags of a job can be told apart.
THEOREM ItemsAreWhole ==
  ASSUME DistinctTags
  PROVE  Spec => []WholeItems
<1>1. WholeInv => WholeItems
  <2> SUFFICES ASSUME WholeInv, NEW r \in Request, NEW k \in DOMAIN r,
                      NEW t, t = TagsRead(file[r[k].job]), NEW n \in DOMAIN t,
                      NEW m \in DOMAIN r[k].tags, r[k].tags[m] = t[n]
               PROVE  \E p \in 0 .. Len(t) : Places(r[k]) = {p} /\ n \in (p + 1) .. (p + Len(r[k].tags))
    BY DEF WholeItems
  <2>1. r[k].job \in Job
    BY RequestTypes
  <2>2. t \in Seq(Tag) /\ Built(r[k].job, t)
    BY <2>1, FileTypes DEF WholeInv, TypeInv, TypeOK, File, TagsRead
  <2> QED
    BY <2>2, BuiltWhole
<1>2. WholeInv /\ [Next]_vars => WholeInv'
  BY WholeStep
<1> QED
  BY <1>1, <1>2, WholeInit, PTL DEF Spec
=============================================================================
