------------------------------ MODULE TagStore ------------------------------
(***************************************************************************)
(* The file of user tags that the Primary Storage keeps for every job, and *)
(* the slaves that serve RecordTag and RecordMultiTags.  The file is read  *)
(* whole when it is opened, appended to in memory, and written whole when  *)
(* it is closed; there is no lock.  Every gzopen and gzclose is a step: a  *)
(* file is small, and its data reach the disk when it is closed.           *)
(***************************************************************************)
EXTENDS Integers, Sequences

CONSTANTS Slave,      \* forked server processes
          Job, Tag,
          Allowed,    \* registered jobs the client may add tags to
          Request,    \* calls: sequences of a job and its tags
          Overlap,    \* can calls for the same job overlap?
          Failures,   \* can slaves be killed and writes fail?
          None

Item == [job: Job, tags: Seq(Tag)]

ASSUME TagAssumption ==
  /\ Allowed \subseteq Job
  /\ Request \subseteq Seq(Item)
  /\ None \notin Request
  /\ {Overlap, Failures} \subseteq BOOLEAN

VARIABLES
  file,    \* the file of tags of every job
  slave,   \* the call every slave is serving
  sent,    \* calls that have been made
  acked    \* history: calls answered OK

vars == <<file, slave, sent, acked>>

File == [kind: {"absent", "ok", "corrupt"}, tags: Seq(Tag)]

Absent == [kind |-> "absent", tags |-> <<>>]
Corrupt == [kind |-> "corrupt", tags |-> <<>>]
Holds(t) == [kind |-> "ok", tags |-> t]

Local == [pc: {"idle", "open", "create", "close", "rewrite", "write", "reply"},
          req: Request \cup {None},
          k: Nat,               \* the item of the call
          created: BOOLEAN,     \* handle: opened with w+
          old: Seq(Tag)]        \* handle: what the file held when it was read

Idle == [pc |-> "idle", req |-> None, k |-> 0, created |-> FALSE, old |-> <<>>]

Init ==
  /\ file = [j \in Job |-> Absent]
  /\ slave = [s \in Slave |-> Idle]
  /\ sent = {}
  /\ acked = {}

At(s, label) == slave[s].pc = label
Becomes(s, l) == slave' = [slave EXCEPT ![s] = l]
Goto(s, label) == Becomes(s, [slave[s] EXCEPT !.pc = label])
Done(s) == Becomes(s, Idle)

ItemOf(s) == slave[s].req[slave[s].k]
JobOf(s) == ItemOf(s).job
TagsOf(s) == ItemOf(s).tags

\* Mutant: one job too many.
NextItem_Off(s) ==
  IF slave[s].k <= Len(slave[s].req)
  THEN Becomes(s, [Idle EXCEPT !.pc = "open", !.req = slave[s].req, !.k = slave[s].k + 1])
  ELSE Goto(s, "reply")

\* The next job of the call, or the reply.
NextItem(s) ==
  IF slave[s].k < Len(slave[s].req)
  THEN Becomes(s, [Idle EXCEPT !.pc = "open", !.req = slave[s].req, !.k = slave[s].k + 1])
  ELSE Goto(s, "reply")

Jobs(r) == {r[k].job : k \in DOMAIN r}

\* RecordTag is a call with one item, RecordMultiTags one with any number.
RecordTags(s, r) ==
  /\ At(s, "idle")
  /\ r \notin sent
  /\ ~Overlap => \A t \in Slave : ~At(t, "idle") => Jobs(slave[t].req) \cap Jobs(r) = {}
  /\ sent' = sent \cup {r}
  /\ Becomes(s, [Idle EXCEPT !.pc = IF Len(r) = 0 THEN "reply" ELSE "open",
                             !.req = r, !.k = IF Len(r) = 0 THEN 0 ELSE 1])
  /\ UNCHANGED <<file, acked>>

\* get_job_metadata and authz, then open_file, which reads the file.  Garbage
\* fails in gzread or has no magic number; the items before it stay recorded.
OpenFile(s) ==
  LET j == JobOf(s) IN
  /\ At(s, "open")
  /\ \/ j \notin Allowed /\ Done(s)
     \/ j \in Allowed /\ file[j].kind = "corrupt" /\ Done(s)
     \/ j \in Allowed /\ file[j].kind = "absent" /\ Goto(s, "create")
     \/ /\ j \in Allowed /\ file[j].kind = "ok"
        /\ Becomes(s, [slave[s] EXCEPT !.pc = "close", !.old = file[j].tags])
  /\ UNCHANGED <<file, sent, acked>>

\* gzopen "w+" empties a file that has appeared in the meantime.
CreateFile(s) ==
  /\ At(s, "create")
  /\ file' = [file EXCEPT ![JobOf(s)] = Holds(<<>>)]
  /\ Becomes(s, [slave[s] EXCEPT !.pc = "close", !.created = TRUE])
  /\ UNCHANGED <<sent, acked>>

\* Every tag is appended to the data of the handle (the first one after the
\* magic number); close_file closes the descriptor.  One opened with w+ writes
\* its empty stream over the beginning of whatever is there.
CloseFile(s) ==
  LET j == JobOf(s) IN
  /\ At(s, "close")
  /\ file' = IF slave[s].created /\ file[j].tags # <<>>
             THEN [file EXCEPT ![j] = Corrupt] ELSE file
  /\ IF TagsOf(s) = <<>> THEN NextItem(s) ELSE Goto(s, "rewrite")
  /\ UNCHANGED <<sent, acked>>

\* gzopen "w" of a modified file.
RewriteFile(s) ==
  /\ At(s, "rewrite")
  /\ file' = [file EXCEPT ![JobOf(s)] = Holds(<<>>)]
  /\ Goto(s, "write")
  /\ UNCHANGED <<sent, acked>>

\* Mutant: the data read before are not written back.
Content_New(s) == TagsOf(s)

Content(s) == slave[s].old \o TagsOf(s)

\* Mutant: the file was opened for appending.
WriteFile_Append(s) ==
  LET j == JobOf(s) IN
  /\ At(s, "write")
  /\ file' = [file EXCEPT ![j] = Holds(file[j].tags \o Content(s))]
  /\ NextItem(s)
  /\ UNCHANGED <<sent, acked>>

\* gzwrite and gzclose.  Over what another slave has written since, a shorter
\* stream leaves the tail of the longer one.
WriteFile(s) ==
  LET j == JobOf(s) IN
  /\ At(s, "write")
  /\ \/ file' = [file EXCEPT ![j] = Holds(Content(s))]
     \/ /\ file[j] # Holds(<<>>)
        /\ file' = [file EXCEPT ![j] = Corrupt]
  /\ NextItem(s)
  /\ UNCHANGED <<sent, acked>>

\* The feeds are matched after the reply.
Reply(s) ==
  /\ At(s, "reply")
  /\ acked' = acked \cup {slave[s].req}
  /\ Done(s)
  /\ UNCHANGED <<file, sent>>

\* A call of the file system fails and the client gets a fault, or the slave
\* is killed.
Abandon(s) ==
  /\ Failures
  /\ ~At(s, "idle")
  /\ Done(s)
  /\ UNCHANGED <<file, sent, acked>>

Next ==
  \E s \in Slave :
    \/ \E r \in Request : RecordTags(s, r)
    \/ OpenFile(s) \/ CreateFile(s) \/ CloseFile(s) \/ RewriteFile(s) \/ WriteFile(s)
    \/ Reply(s) \/ Abandon(s)

Spec == Init /\ [][Next]_vars

\* read_tag: what a reader that opens the file gets; anything but a whole file
\* with its magic number is an error, and so is an empty one.
TagsRead(f) == IF f.kind = "ok" THEN f.tags ELSE <<>>

-----------------------------------------------------------------------------
(* Properties *)

\* Every variable holds a value of its type, and a slave in the middle of a
\* call is at one of its items.
TypeOK ==
  /\ file \in [Job -> File]
  /\ slave \in [Slave -> Local]
  /\ \A s \in Slave : slave[s].pc \notin {"idle", "reply"} =>
       slave[s].req \in Request /\ slave[s].k \in DOMAIN slave[s].req
  /\ sent \subseteq Request
  /\ acked \subseteq sent

\* While a file is being rewritten its tags are in the memory of the slave.
LogOf(j) ==
  IF \E s \in Slave : At(s, "write") /\ JobOf(s) = j
  THEN slave[CHOOSE s \in Slave : At(s, "write") /\ JobOf(s) = j].old
  ELSE TagsRead(file[j])

Log == INSTANCE TagLog WITH log <- [j \in Job |-> LogOf(j)]

\* Calls that do not overlap on a job implement the append-only log: no step
\* of a call loses, repeats or reorders tags, and an answer OK means that all
\* its tags are there.
ImplementsLog == Log!Spec

\* The places where a file holds the tags of an item.
Places(item) ==
  LET t == TagsRead(file[item.job]) IN
  {n \in 0..(Len(t) - Len(item.tags)) :
     SubSeq(t, n + 1, n + Len(item.tags)) = item.tags}

\* Whatever overlaps or fails, a file that can be read holds the tags of one
\* call for one job all together, in their order and once, or none of them.
WholeItems ==
  \A r \in Request : \A k \in DOMAIN r :
    LET t == TagsRead(file[r[k].job]) IN
    \A n \in DOMAIN t : (\E m \in DOMAIN r[k].tags : r[k].tags[m] = t[n]) =>
      \E p \in 0..Len(t) : Places(r[k]) = {p} /\ n \in (p + 1)..(p + Len(r[k].tags))
=============================================================================
