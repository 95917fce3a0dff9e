------------------------------ MODULE FileData ------------------------------
(***************************************************************************)
(* The contents of one uploaded file of the Primary Storage: transfers the *)
(* FTP server lets through (primary/src/jp_callouts.c), the compression at *)
(* the end of CommitUpload and readers of the file (primary/src/           *)
(* new_ftp_backend.c, soap_ops.c, attrs.c).                                *)
(*                                                                         *)
(* A file on the disk has two cells, written one after the other, so that  *)
(* every file can be found half written.  Handles refer to the file itself *)
(* and not to its name: a transfer goes on into a file that has lost its   *)
(* name.  The statements on the tables are in PSStore; here StartUpload is *)
(* one step and its deadline may have passed at any time.                  *)
(***************************************************************************)
EXTENDS Integers, FiniteSets

CONSTANTS
  Upload,      \* uploads of the file, one StartUpload each
  Client,
  ClientOf,    \* who makes an upload: [Upload -> Client]
  Big,         \* uploads of more than SIZE_TO_COMPRESS bytes
  Slave,
  MaxInode,    \* bound: files on the disk at a time
  MaxCrashes,  \* bound: slaves that die in a behaviour
  MaxCalls,    \* bound: CommitUpload calls of an upload
  Late,        \* do clients use an upload after its deadline or its commit?
  None

ASSUME FileDataAssumption ==
  /\ ClientOf \in [Upload -> Client]
  /\ Big \subseteq Upload
  /\ Late \in BOOLEAN
  /\ {MaxInode, MaxCrashes, MaxCalls} \subseteq Nat
  /\ None \notin Upload \cup Client \cup Nat

VARIABLES
  row,      \* row of the file in table files
  src,      \* what the name of the file refers to
  gz,       \* what the name with ".gz" refers to
  disk,     \* files on the disk
  up,       \* uploads as their clients see them
  slave,    \* slaves serving CommitUpload
  reader,   \* a slave reading attributes from the file
  crashes,  \* slaves that died so far
  overlap   \* history: a commit was accepted while another one was served

vars == <<row, src, gz, disk, up, slave, reader, crashes, overlap>>
history == <<crashes, overlap>>

Cells == 1 .. 2
Inode == 1 .. MaxInode

\* What was uploaded, compressed gz times; damaged data; a cell not written yet.
Payload == [of: Upload, gz: Nat]
Damaged == [of |-> None, gz |-> 0]
Blank == [of |-> None, gz |-> 1]
Cell == Payload \cup {Damaged, Blank}
Empty == [c \in Cells |-> Blank]

Row == [st: {"absent", "uploading", "committed"}, up: Upload \cup {None}]
NoRow == [st |-> "absent", up |-> None]

Up == [pc: {"idle", "started", "writing", "written", "calling", "over"},
       inode: Inode \cup {None}, pos: 1 .. 3, calls: 0 .. MaxCalls]
Local == [pc: {"idle", "update", "info", "stat", "fopen", "gzopen", "copy", "rename"},
          up: Upload \cup {None}, from: Inode \cup {None}, to: Inode \cup {None},
          pos: 1 .. 3]
Idle == [pc |-> "idle", up |-> None, from |-> None, to |-> None, pos |-> 1]
NotReading == [inode |-> None, seen |-> None]

Init ==
  /\ row = NoRow /\ src = None /\ gz = None
  /\ disk = [i \in Inode |-> Empty]
  /\ up = [u \in Upload |-> [pc |-> "idle", inode |-> None, pos |-> 1, calls |-> 0]]
  /\ slave = [s \in Slave |-> Idle]
  /\ reader = NotReading
  /\ crashes = 0 /\ overlap = FALSE

-----------------------------------------------------------------------------
(* Files on the disk *)

Open == {src, gz, reader.inode} \cup {up[u].inode : u \in Upload}
        \cup {slave[s].from : s \in Slave} \cup {slave[s].to : s \in Slave}
NewInode == CHOOSE i \in Inode : i \notin Open

\* Opening a name for writing creates the file or empties it.
Opened(name) == IF name = None THEN NewInode ELSE name

\* gzopen and gzread: a compressed file is decompressed, any other one is passed as
\* it is; an incomplete one is an error or gives too little.
Reading(i) ==
  LET first == disk[i][1] IN
  IF first \in Payload /\ \A c \in Cells : disk[i][c] = first
  THEN [first EXCEPT !.gz = IF @ = 0 THEN 0 ELSE @ - 1]
  ELSE Damaged

-----------------------------------------------------------------------------
(* Uploads *)

\* A client that has started another upload of the file since.
Stale(u) == row.up # u /\ row.up # None /\ ClientOf[row.up] = ClientOf[u]

AtWork(u) == up[u].pc = "writing" \/ \E s \in Slave : slave[s].up = u

\* StartUpload of any file of the job deletes the row of an upload whose deadline
\* has passed.
Expire ==
  /\ row.st = "uploading"
  /\ row' = NoRow
  /\ Late \/ ~AtWork(row.up)
  /\ UNCHANGED <<src, gz, disk, up, slave, reader, crashes, overlap>>

StartUpload(u) ==
  /\ up[u].pc \in {"idle", "started", "written"}
  /\ row.st = "absent"
  /\ row' = [st |-> "uploading", up |-> u]
  /\ up' = [up EXCEPT ![u].pc = "started"]
  /\ UNCHANGED <<src, gz, disk, slave, reader, history>>

\* Mutant: any client may write to an upload in progress.
AuthzWrite_AnyClient(c) == row.st = "uploading"

\* The FTP server lets a client write while an upload it has started is in progress.
\* Nobody may read (the owner is a hash, compared with a subject) or delete.
AuthzWrite(c) == row.st = "uploading" /\ ClientOf[row.up] = c

StartTransfer(u) ==
  /\ up[u].pc \in {"started", "written"}
  /\ AuthzWrite(ClientOf[u])
  /\ src' = Opened(src)
  /\ disk' = [disk EXCEPT ![Opened(src)] = Empty]
  /\ up' = [up EXCEPT ![u].pc = "writing", ![u].inode = Opened(src), ![u].pos = 1]
  /\ Late \/ (~Stale(u) /\ \A s \in Slave : slave[s].up # u)
  /\ UNCHANGED <<row, gz, slave, reader, crashes, overlap>>

Transfer(u) ==
  /\ up[u].pc = "writing" /\ up[u].pos \in Cells
  /\ disk' = [disk EXCEPT ![up[u].inode][up[u].pos] = [of |-> u, gz |-> 0]]
  /\ up' = [up EXCEPT ![u].pos = @ + 1]
  /\ UNCHANGED <<row, src, gz, slave, reader, history>>

\* A transfer ends, or breaks and may be started again.
EndTransfer(u) ==
  /\ up[u].pc = "writing"
  /\ up' = [up EXCEPT ![u].pc = IF up[u].pos \in Cells THEN "started" ELSE "written",
                      ![u].inode = None, ![u].pos = 1]
  /\ UNCHANGED <<row, src, gz, disk, slave, reader, history>>

-----------------------------------------------------------------------------
(* CommitUpload *)

Becomes(s, l) == slave' = [slave EXCEPT ![s] = l]
To(s, label) == Becomes(s, [slave[s] EXCEPT !.pc = label])

\* The client calls, a slave selects the row and checks who has started the upload.
CommitUpload(u, s) ==
  /\ up[u].pc = "written" /\ up[u].calls < MaxCalls
  /\ slave[s] = Idle
  /\ Late \/ ~Stale(u)
  /\ IF AuthzWrite(ClientOf[u])
     THEN /\ up' = [up EXCEPT ![u].pc = "calling", ![u].calls = @ + 1]
          /\ Becomes(s, [Idle EXCEPT !.pc = "update", !.up = u])
          /\ overlap' = (overlap \/ \E t \in Slave : slave[t] # Idle)
     ELSE /\ up' = [up EXCEPT ![u].pc = "idle"]
          /\ UNCHANGED <<slave, overlap>>
  /\ UNCHANGED <<row, src, gz, disk, reader, crashes>>

\* The client does not wait for the answer any longer, and may repeat the call.
Timeout(u) ==
  /\ up[u].pc = "calling"
  /\ up' = [up EXCEPT ![u].pc = "written"]
  /\ UNCHANGED <<row, src, gz, disk, slave, reader, history>>

Update(s) ==
  /\ slave[s].pc = "update"
  /\ row' = IF row.st = "absent" THEN row ELSE [row EXCEPT !.st = "committed"]
  /\ To(s, "info")
  /\ UNCHANGED <<src, gz, disk, up, reader, history>>

\* destination_info is asserted to find the row.
Info(s) ==
  /\ slave[s].pc = "info"
  /\ Becomes(s, IF row.st = "absent" THEN Idle ELSE [slave[s] EXCEPT !.pc = "stat"])
  /\ UNCHANGED <<row, src, gz, disk, up, reader, history>>

\* The call ends; a client that still waits gets the answer.
Answer(s) == up' = [up EXCEPT ![slave[s].up].pc = IF @ = "calling" THEN "over" ELSE @]

\* The plugins of the class have read the file and been told (filecom).  Its size on
\* the disk decides what comes next; that of a compressed or incomplete
\* file may be either side of the limit.
Large ==
  IF src = None THEN {FALSE}
  ELSE LET p == disk[src][1] IN
       IF p \in Payload /\ p.gz = 0 /\ disk[src][2] = p THEN {p.of \in Big} ELSE BOOLEAN

Stat(s) ==
  /\ slave[s].pc = "stat"
  /\ \E large \in Large :
       \/ large /\ To(s, "fopen") /\ UNCHANGED up
       \/ ~large /\ Becomes(s, Idle) /\ Answer(s)
  /\ UNCHANGED <<row, src, gz, disk, reader, history>>

FOpen(s) ==
  /\ slave[s].pc = "fopen"
  /\ Becomes(s, [slave[s] EXCEPT !.pc = "gzopen", !.from = src])
  /\ UNCHANGED <<row, src, gz, disk, up, reader, history>>

GzOpen(s) ==
  /\ slave[s].pc = "gzopen"
  /\ gz' = Opened(gz)
  /\ disk' = [disk EXCEPT ![Opened(gz)] = Empty]
  /\ Becomes(s, [slave[s] EXCEPT !.pc = "copy", !.to = Opened(gz)])
  /\ UNCHANGED <<row, src, up, reader, history>>

Compressed(p) == IF p \in Payload THEN [p EXCEPT !.gz = @ + 1] ELSE Damaged

\* Mutant: one cell too many is copied.
Copy_OneMore(s) ==
  LET l == slave[s] IN
  /\ l.pc = "copy"
  /\ disk' = [disk EXCEPT ![l.to][l.pos] = Compressed(disk[l.from][l.pos])]
  /\ Becomes(s, IF l.pos \in Cells THEN [l EXCEPT !.pos = @ + 1]
                ELSE [Idle EXCEPT !.pc = "rename", !.up = l.up])
  /\ UNCHANGED <<row, src, gz, up, reader, history>>

\* Both files are closed after the last cell.
Copy(s) ==
  LET l == slave[s] IN
  /\ l.pc = "copy"
  /\ disk' = [disk EXCEPT ![l.to][l.pos] = Compressed(disk[l.from][l.pos])]
  /\ Becomes(s, IF l.pos + 1 \in Cells THEN [l EXCEPT !.pos = @ + 1]
                ELSE [Idle EXCEPT !.pc = "rename", !.up = l.up])
  /\ UNCHANGED <<row, src, gz, up, reader, history>>

\* Mutant: the original is removed first.
Rename_Removes(s) ==
  /\ slave[s].pc = "rename"
  /\ src' = gz /\ gz' = None
  /\ Becomes(s, Idle) /\ Answer(s)
  /\ UNCHANGED <<row, disk, reader, history>>

\* Fails, which nobody looks at, when another slave has renamed the file already.
Rename(s) ==
  /\ slave[s].pc = "rename"
  /\ src' = (IF gz = None THEN src ELSE gz) /\ gz' = None
  /\ Becomes(s, Idle) /\ Answer(s)
  /\ UNCHANGED <<row, disk, reader, history>>

\* A slave dies; the client gets no answer.
Crash(s) ==
  /\ slave[s] # Idle
  /\ crashes < MaxCrashes /\ crashes' = crashes + 1
  /\ Becomes(s, Idle)
  /\ UNCHANGED <<row, src, gz, disk, up, reader, overlap>>

-----------------------------------------------------------------------------
(* Readers *)

\* get_names finds the file when it is committed, then it is opened.
OpenFile ==
  /\ reader = NotReading
  /\ row.st = "committed" /\ src # None
  /\ reader' = [NotReading EXCEPT !.inode = src]
  /\ UNCHANGED <<row, src, gz, disk, up, slave, history>>

ReadFile ==
  /\ reader.inode # None /\ reader.seen = None
  /\ reader' = [reader EXCEPT !.seen = Reading(reader.inode)]
  /\ UNCHANGED <<row, src, gz, disk, up, slave, history>>

CloseFile ==
  /\ reader.seen # None
  /\ reader' = NotReading
  /\ UNCHANGED <<row, src, gz, disk, up, slave, history>>

Next ==
  \/ \E u \in Upload :
       \/ StartUpload(u) \/ StartTransfer(u) \/ Transfer(u) \/ EndTransfer(u)
       \/ Timeout(u)
       \/ \E s \in Slave : CommitUpload(u, s)
  \/ \E s \in Slave :
       \/ Update(s) \/ Info(s) \/ Stat(s) \/ FOpen(s) \/ GzOpen(s)
       \/ Copy(s) \/ Rename(s) \/ Crash(s)
  \/ Expire \/ OpenFile \/ ReadFile \/ CloseFile

Spec == Init /\ [][Next]_vars

-----------------------------------------------------------------------------
(* Properties *)

\* Every variable holds a value of its type, a slave that copies has both files
\* open, and there is always room on the disk for one more file.
TypeOK ==
  /\ row \in Row /\ src \in Inode \cup {None} /\ gz \in Inode \cup {None}
  /\ disk \in [Inode -> [Cells -> Cell]]
  /\ up \in [Upload -> Up]
  /\ slave \in [Slave -> Local]
  /\ \A s \in Slave : slave[s].pc = "copy" =>
       None \notin {slave[s].from, slave[s].to} /\ slave[s].pos \in Cells
  /\ reader \in [inode: Inode \cup {None}, seen: Payload \cup {Damaged, None}]
  /\ crashes \in 0 .. MaxCrashes /\ overlap \in BOOLEAN
  /\ Inode \ Open # {}

Uploaded(u) == [of |-> u, gz |-> 0]

\* What a reader gets of a committed file is what was uploaded, whole, while the
\* file is compressed and wherever a slave dies meanwhile, provided that the
\* upload was over before its deadline and before its commit, which is not repeated
\* while it is served (__jpsrv__CommitUpload, glite_jppsbe_compress_and_remove_file).
CommittedReadable ==
  ~Late /\ row.st = "committed" /\ ~overlap =>
    /\ src # None /\ Reading(src) = Uploaded(row.up)
    /\ reader.seen \in {None, Uploaded(row.up)}

\* Two slaves that compress the same file at once may hide its data from readers,
\* but do not lose them: once all slaves are done without a crash the file is
\* complete, compressed once or twice.  (Three may: the third compresses what the
\* second has not written yet, when the first has renamed it.)
DataKept ==
  ~Late /\ row.st = "committed" /\ crashes = 0 /\ (\A s \in Slave : slave[s] = Idle) =>
    /\ src # None
    /\ \E n \in 0 .. Cardinality(Slave) : \A c \in Cells : disk[src][c] = [of |-> row.up, gz |-> n]
=============================================================================
