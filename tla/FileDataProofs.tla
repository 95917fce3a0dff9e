--------------------------- MODULE FileDataProofs ---------------------------
(***************************************************************************)
(* Proofs about FileData for any number of uploads, clients and slaves:    *)
(* its types, that a reader of a committed file gets what was uploaded,    *)
(* while the file is compressed and wherever slaves die, and that two      *)
(* commits that overlap do not lose the data.                              *)
(***************************************************************************)
EXTENDS FileData, FiniteSetTheorems, TLAPS

LEMMA StepCases ==
  ASSUME [Next]_vars
  PROVE  \/ UNCHANGED vars
         \/ \E u \in Upload : StartUpload(u) \/ StartTransfer(u) \/ Transfer(u) \/ EndTransfer(u)
                              \/ Timeout(u)
         \/ \E u \in Upload, s \in Slave : CommitUpload(u, s)
         \/ \E s \in Slave : Update(s) \/ Info(s) \/ Stat(s) \/ FOpen(s) \/ GzOpen(s)
                             \/ Copy(s) \/ Rename(s) \/ Crash(s)
         \/ Expire \/ OpenFile \/ ReadFile \/ CloseFile
BY DEF Next

Tables ==
  /\ row \in Row /\ src \in Inode \cup {None} /\ gz \in Inode \cup {None}
  /\ disk \in [Inode -> [Cells -> Cell]]
  /\ reader \in [inode: Inode \cup {None}, seen: Payload \cup {Damaged, None}]
  /\ crashes \in 0 .. MaxCrashes /\ overlap \in BOOLEAN
  /\ row.st # "absent" => row.up \in Upload

\* A client that transfers has the file open.
Sending(y) == y.pc = "writing" => y.inode # None

\* A slave with a call serves an upload, and has the files open that it copies.
Serving(x, name) ==
  /\ x.pc = "idle" => x = Idle
  /\ x.pc # "idle" => x.up \in Upload
  /\ x.pc = "fopen" => name # None
  /\ x.pc \in {"gzopen", "copy"} => x.from # None
  /\ x.pc = "copy" => x.to # None /\ x.pos \in Cells
  /\ x.pc # "copy" => x.pos = 1

TypeInv ==
  /\ Tables
  /\ up \in [Upload -> Up] /\ \A u \in Upload : Sending(up[u])
  /\ slave \in [Slave -> Local] /\ \A s \in Slave : Serving(slave[s], src)

\* There are more files on the disk than handles and names.
Room ==
  /\ IsFiniteSet(Upload) /\ IsFiniteSet(Slave)
  /\ MaxInode > Cardinality(Upload) + Cardinality(Slave) + Cardinality(Slave) + 3

-----------------------------------------------------------------------------
(* Files on the disk.                                                       *)

LEMMA UnionBound ==
  ASSUME NEW S, IsFiniteSet(S), NEW T, IsFiniteSet(T), NEW m \in Nat, NEW n \in Nat,
         Cardinality(S) <= m, Cardinality(T) <= n
  PROVE  IsFiniteSet(S \cup T) /\ Cardinality(S \cup T) <= m + n
<1>1. /\ IsFiniteSet(S \cup T) /\ IsFiniteSet(S \cap T)
      /\ Cardinality(S \cup T) = Cardinality(S) + Cardinality(T) - Cardinality(S \cap T)
  BY FS_Union, FS_Intersection
<1>2. Cardinality(S) \in Nat /\ Cardinality(T) \in Nat /\ Cardinality(S \cap T) \in Nat
  BY <1>1, FS_CardinalityType
<1> QED
  BY <1>1, <1>2

LEMMA Three ==
  ASSUME NEW a, NEW b, NEW c
  PROVE  IsFiniteSet({a, b, c}) /\ Cardinality({a, b, c}) <= 3
<1> PICK A : A = {a} /\ IsFiniteSet(A) /\ Cardinality(A) = 1
  BY FS_Singleton
<1> PICK B : B = {b} /\ IsFiniteSet(B) /\ Cardinality(B) = 1
  BY FS_Singleton
<1> PICK C : C = {c} /\ IsFiniteSet(C) /\ Cardinality(C) = 1
  BY FS_Singleton
<1>1. 1 \in Nat /\ 2 \in Nat /\ 1 <= 1 /\ 1 + 1 = 2 /\ 2 + 1 = 3
  OBVIOUS
<1>2. IsFiniteSet(A \cup B) /\ Cardinality(A \cup B) <= 1 + 1
  BY <1>1, UnionBound
<1>3. IsFiniteSet(A \cup B \cup C) /\ Cardinality(A \cup B \cup C) <= 2 + 1
  <2> PICK D : D = A \cup B /\ IsFiniteSet(D) /\ Cardinality(D) <= 2
    BY <1>1, <1>2
  <2>1. IsFiniteSet(D \cup C) /\ Cardinality(D \cup C) <= 2 + 1
    BY <1>1, UnionBound
  <2> QED
    BY <2>1
<1>4. {a, b, c} = A \cup B \cup C
  OBVIOUS
<1> QED
  BY <1>1, <1>3, <1>4

LEMMA ImageBound ==
  ASSUME NEW S, IsFiniteSet(S), NEW f, f = [x \in S |-> f[x]], NEW T, T = {f[x] : x \in S}
  PROVE  IsFiniteSet(T) /\ Cardinality(T) <= Cardinality(S)
<1>1. f \in Surjection(S, T)
  BY DEF Surjection
<1> QED
  BY <1>1, FS_Surjection

\* A file that nobody has open and that has no name.
LEMMA FreeInode ==
  ASSUME Room
  PROVE  Inode \ Open # {} /\ NewInode \in Inode /\ NewInode \notin Open
<1> DEFINE A == {src, gz, reader.inode}
           U == {up[u].inode : u \in Upload}
           F == {slave[s].from : s \in Slave}
           T == {slave[s].to : s \in Slave}
           f == [u \in Upload |-> up[u].inode]
           g == [s \in Slave |-> slave[s].from]
           h == [s \in Slave |-> slave[s].to]
<1>0. IsFiniteSet(Upload) /\ IsFiniteSet(Slave) /\ Cardinality(Upload) \in Nat /\ Cardinality(Slave) \in Nat
  BY FS_CardinalityType DEF Room
<1>1. IsFiniteSet(A) /\ Cardinality(A) <= 3
  BY Three
<1>2. IsFiniteSet(U) /\ Cardinality(U) <= Cardinality(Upload)
  <2>1. f = [u \in Upload |-> f[u]] /\ U = {f[u] : u \in Upload}
    OBVIOUS
  <2> HIDE DEF f, U
  <2> QED
    BY <1>0, <2>1, ImageBound
<1>3. IsFiniteSet(F) /\ Cardinality(F) <= Cardinality(Slave)
  <2>1. g = [s \in Slave |-> g[s]] /\ F = {g[s] : s \in Slave}
    OBVIOUS
  <2> HIDE DEF g, F
  <2> QED
    BY <1>0, <2>1, ImageBound
<1>4. IsFiniteSet(T) /\ Cardinality(T) <= Cardinality(Slave)
  <2>1. h = [s \in Slave |-> h[s]] /\ T = {h[s] : s \in Slave}
    OBVIOUS
  <2> HIDE DEF h, T
  <2> QED
    BY <1>0, <2>1, ImageBound
<1>5. Open = A \cup U \cup F \cup T
  BY DEF Open
<1> HIDE DEF A, U, F, T
<1>6. IsFiniteSet(A \cup U) /\ Cardinality(A \cup U) <= 3 + Cardinality(Upload)
  BY <1>0, <1>1, <1>2, UnionBound
<1>7. /\ IsFiniteSet(A \cup U \cup F)
      /\ Cardinality(A \cup U \cup F) <= 3 + Cardinality(Upload) + Cardinality(Slave)
  <2>1. 3 + Cardinality(Upload) \in Nat
    BY <1>0
  <2> QED
    BY <1>0, <1>3, <1>6, <2>1, UnionBound
<1>8. /\ IsFiniteSet(Open)
      /\ Cardinality(Open) <= 3 + Cardinality(Upload) + Cardinality(Slave) + Cardinality(Slave)
  <2>1. 3 + Cardinality(Upload) + Cardinality(Slave) \in Nat
    BY <1>0
  <2> QED
    BY <1>0, <1>4, <1>5, <1>7, <2>1, UnionBound
<1>9. Cardinality(Inode) = MaxInode /\ MaxInode \in Nat /\ MaxInode > Cardinality(Open)
  <2>1. MaxInode \in Nat /\ MaxInode > 0 /\ MaxInode > Cardinality(Open) /\ Cardinality(Open) \in Nat
    BY <1>0, <1>8, FS_CardinalityType, FileDataAssumption DEF Room
  <2>2. Cardinality(1 .. MaxInode) = MaxInode
    BY <2>1, FS_Interval
  <2> QED
    BY <2>1, <2>2 DEF Inode
<1>10. ~(Inode \subseteq Open)
  <2>1. ASSUME Inode \subseteq Open PROVE Cardinality(Inode) <= Cardinality(Open)
    BY <1>8, <2>1, FS_Subset
  <2>2. Cardinality(Open) \in Nat
    BY <1>8, FS_CardinalityType
  <2> QED
    BY <1>9, <2>1, <2>2
<1> QED
  BY <1>10 DEF NewInode

LEMMA CellType ==
  /\ Blank \in Cell /\ Damaged \in Cell /\ Blank \notin Payload /\ Damaged \notin Payload
  /\ Empty \in [Cells -> Cell] /\ \A c \in Cells : Empty[c] = Blank
  /\ \A u \in Upload, n \in Nat : [of |-> u, gz |-> n] \in Payload /\ [of |-> u, gz |-> n] \in Cell
BY FileDataAssumption DEF Cell, Payload, Blank, Damaged, Empty

LEMMA Emptied ==
  ASSUME TypeInv, NEW i \in Inode, disk' = [disk EXCEPT ![i] = Empty]
  PROVE  /\ disk' \in [Inode -> [Cells -> Cell]] /\ disk'[i] = Empty
         /\ \A k \in Inode \ {i} : disk'[k] = disk[k]
BY CellType DEF TypeInv, Tables

Writes(i, c, v) == disk' = [disk EXCEPT ![i][c] = v]

LEMMA Written ==
  ASSUME TypeInv, NEW i \in Inode, NEW c \in Cells, NEW v \in Cell, Writes(i, c, v)
  PROVE  /\ disk' \in [Inode -> [Cells -> Cell]] /\ disk'[i][c] = v
         /\ \A d \in Cells \ {c} : disk'[i][d] = disk[i][d]
         /\ \A k \in Inode \ {i} : disk'[k] = disk[k]
<1> PICK e \in [Cells -> Cell] : e = [disk[i] EXCEPT ![c] = v]
  BY DEF TypeInv, Tables
<1>1. e[c] = v /\ \A d \in Cells \ {c} : e[d] = disk[i][d]
  BY DEF TypeInv, Tables
<1>2. disk' = [disk EXCEPT ![i] = e]
  BY DEF Writes, TypeInv, Tables
<1>3. /\ disk' \in [Inode -> [Cells -> Cell]] /\ disk'[i] = e
      /\ \A k \in Inode \ {i} : disk'[k] = disk[k]
  BY <1>2 DEF TypeInv, Tables
<1> QED
  BY <1>1, <1>3

\* The file a name is opened for writing is its own or a new one.
LEMMA OpenedInode ==
  ASSUME Room, TypeInv, NEW name, name \in {src, gz}
  PROVE  /\ Opened(name) \in Inode
         /\ name # None => Opened(name) = name
         /\ name = None => Opened(name) \notin Open
BY FreeInode DEF Opened, TypeInv, Tables

LEMMA CompressedType ==
  ASSUME NEW p
  PROVE  /\ Compressed(p) \in Cell
         /\ \A u \in Upload : p = Uploaded(u) => Compressed(p) = [of |-> u, gz |-> 1]
<1>1. CASE p \in Payload
  <2>1. p.of \in Upload /\ p.gz \in Nat /\ p = [of |-> p.of, gz |-> p.gz]
    BY <1>1 DEF Payload
  <2> PICK n \in Nat : n = p.gz + 1
    BY <2>1
  <2>2. Compressed(p) = [p EXCEPT !.gz = n]
    BY <1>1 DEF Compressed
  <2>3. Compressed(p) = [of |-> p.of, gz |-> n]
    BY <2>1, <2>2
  <2>4. \A u \in Upload : p = Uploaded(u) => p.of = u /\ n = 1
    BY <2>1 DEF Uploaded
  <2> QED
    BY <2>1, <2>3, <2>4, CellType
<1>2. CASE p \notin Payload
  <2>1. \A u \in Upload : p # Uploaded(u)
    BY <1>2, CellType DEF Uploaded
  <2> QED
    BY <1>2, <2>1, CellType DEF Compressed
<1> QED
  BY <1>1, <1>2

-----------------------------------------------------------------------------
(* Steps of clients and slaves.                                             *)

Moves(s, x) ==
  /\ slave' \in [Slave -> Local] /\ slave'[s] = x
  /\ \A t \in Slave \ {s} : slave'[t] = slave[t]

UpMoves(u, y) ==
  /\ up' \in [Upload -> Up] /\ up'[u] = y
  /\ \A v \in Upload \ {u} : up'[v] = up[v]

LEMMA Moving ==
  ASSUME TypeInv, NEW s \in Slave, NEW x \in Local, Becomes(s, x)
  PROVE  Moves(s, x)
BY DEF TypeInv, Becomes, Moves

LEMMA UpMoving ==
  ASSUME TypeInv, NEW u \in Upload, NEW y \in Up, up' = [up EXCEPT ![u] = y]
  PROVE  UpMoves(u, y)
BY DEF TypeInv, UpMoves

LEMMA IdleType ==
  /\ Idle \in Local /\ Idle.pc = "idle" /\ Idle.up = None /\ Idle.from = None /\ Idle.to = None
  /\ Idle.pos = 1
BY DEF Idle, Local

LEMMA LocalType ==
  ASSUME TypeInv, NEW s \in Slave
  PROVE  /\ slave[s] \in Local /\ Serving(slave[s], src)
         /\ slave[s].up \in Upload \cup {None} /\ slave[s].from \in Inode \cup {None}
         /\ slave[s].to \in Inode \cup {None} /\ slave[s].pos \in 1 .. 3
BY DEF TypeInv, Local

LEMMA UpType ==
  ASSUME TypeInv, NEW u \in Upload
  PROVE  /\ up[u] \in Up /\ Sending(up[u]) /\ up[u].inode \in Inode \cup {None}
         /\ up[u].pos \in 1 .. 3 /\ up[u].calls \in 0 .. MaxCalls
BY DEF TypeInv, Up

\* A slave at another label.
LEMMA ToEffect ==
  ASSUME TypeInv, NEW s \in Slave, NEW l, To(s, l),
         l \in {"idle", "update", "info", "stat", "fopen", "gzopen", "copy", "rename"}
  PROVE  \E x \in Local :
           /\ Moves(s, x) /\ x.pc = l /\ x.up = slave[s].up /\ x.from = slave[s].from
           /\ x.to = slave[s].to /\ x.pos = slave[s].pos
<1> PICK p \in Local : p = slave[s]
  BY DEF TypeInv
<1> PICK x : x = [p EXCEPT !.pc = l]
  OBVIOUS
<1>1. /\ x \in Local /\ x.pc = l /\ x.up = p.up /\ x.from = p.from
      /\ x.to = p.to /\ x.pos = p.pos
  BY DEF Local
<1>2. Moves(s, x)
  BY <1>1, Moving DEF To
<1> QED
  BY <1>1, <1>2

\* A client at another label.
LEMMA UpToEffect ==
  ASSUME TypeInv, NEW u \in Upload, NEW l, up' = [up EXCEPT ![u].pc = l],
         l \in {"idle", "started", "writing", "written", "calling", "over"}
  PROVE  \E y \in Up :
           /\ UpMoves(u, y) /\ y.pc = l /\ y.inode = up[u].inode /\ y.pos = up[u].pos
<1> PICK p \in Up : p = up[u]
  BY DEF TypeInv
<1> PICK y : y = [p EXCEPT !.pc = l]
  OBVIOUS
<1>1. y \in Up /\ y.pc = l /\ y.inode = p.inode /\ y.pos = p.pos
  BY DEF Up
<1>2. up' = [up EXCEPT ![u] = y]
  BY DEF TypeInv
<1>3. UpMoves(u, y)
  BY <1>1, <1>2, UpMoving
<1> QED
  BY <1>1, <1>3

\* The client of the call of slave s gets the answer if it still waits for it.
LEMMA AnswerEffect ==
  ASSUME TypeInv, NEW s \in Slave, slave[s].pc # "idle", Answer(s)
  PROVE  \E y \in Up :
           /\ UpMoves(slave[s].up, y) /\ slave[s].up \in Upload
           /\ y.pc = IF up[slave[s].up].pc = "calling" THEN "over" ELSE up[slave[s].up].pc
           /\ y.inode = up[slave[s].up].inode /\ y.pos = up[slave[s].up].pos
<1> PICK u \in Upload : u = slave[s].up
  BY LocalType DEF Serving
<1> PICK l : l = IF up[u].pc = "calling" THEN "over" ELSE up[u].pc
  OBVIOUS
<1>1. up' = [up EXCEPT ![u].pc = l]
  BY DEF Answer
<1>2. l \in {"idle", "started", "writing", "written", "calling", "over"}
  BY DEF TypeInv, Up
<1> QED
  BY <1>1, <1>2, UpToEffect, ZenonT(30)

LEMMA StartTransferEffect ==
  ASSUME Room, TypeInv, NEW u \in Upload, StartTransfer(u)
  PROVE  /\ src' \in Inode /\ src' = Opened(src) /\ disk' \in [Inode -> [Cells -> Cell]]
         /\ disk'[src'] = Empty /\ \A k \in Inode \ {src'} : disk'[k] = disk[k]
         /\ \E y \in Up : UpMoves(u, y) /\ y.pc = "writing" /\ y.inode = src' /\ y.pos = 1
<1> PICK i \in Inode : i = Opened(src)
  BY OpenedInode
<1>1. src' = i /\ disk' = [disk EXCEPT ![i] = Empty]
  BY DEF StartTransfer
<1>2. /\ disk' \in [Inode -> [Cells -> Cell]] /\ disk'[i] = Empty
      /\ \A k \in Inode \ {i} : disk'[k] = disk[k]
  BY <1>1, Emptied
<1> PICK p \in Up : p = up[u]
  BY DEF TypeInv
<1> PICK l : l = "writing"
  OBVIOUS
<1> PICK n \in 1 .. 3 : n = 1
  OBVIOUS
<1> PICK y : y = [p EXCEPT !.pc = l, !.inode = i, !.pos = n]
  OBVIOUS
<1>3. y \in Up /\ y.pc = l /\ y.inode = i /\ y.pos = n
  BY DEF Up
<1>4. up' = [up EXCEPT ![u].pc = l, ![u].inode = i, ![u].pos = n]
  BY DEF StartTransfer
<1>5. up' = [up EXCEPT ![u] = y]
  BY <1>4 DEF TypeInv
<1>6. UpMoves(u, y)
  BY <1>3, <1>5, UpMoving
<1> QED
  BY <1>1, <1>2, <1>3, <1>6

LEMMA TransferEffect ==
  ASSUME TypeInv, NEW u \in Upload, Transfer(u)
  PROVE  /\ up[u].pc = "writing" /\ up[u].inode \in Inode /\ up[u].pos \in Cells
         /\ disk' \in [Inode -> [Cells -> Cell]] /\ disk'[up[u].inode][up[u].pos] = Uploaded(u)
         /\ \A d \in Cells \ {up[u].pos} : disk'[up[u].inode][d] = disk[up[u].inode][d]
         /\ \A k \in Inode \ {up[u].inode} : disk'[k] = disk[k]
         /\ \E y \in Up : /\ UpMoves(u, y) /\ y.pc = "writing" /\ y.inode = up[u].inode
                          /\ y.pos = up[u].pos + 1
<1> PICK p \in Up : p = up[u]
  BY DEF TypeInv
<1>1. p.pc = "writing" /\ p.inode \in Inode /\ p.pos \in Cells
  BY UpType DEF Transfer, Sending
<1> PICK i \in Inode, c \in Cells : i = p.inode /\ c = p.pos
  BY <1>1
<1> PICK v \in Cell : v = Uploaded(u)
  BY CellType DEF Uploaded
<1>2. Writes(i, c, v)
  BY DEF Transfer, Uploaded, Writes
<1>3. /\ disk' \in [Inode -> [Cells -> Cell]] /\ disk'[i][c] = v
      /\ \A d \in Cells \ {c} : disk'[i][d] = disk[i][d]
      /\ \A k \in Inode \ {i} : disk'[k] = disk[k]
  BY <1>2, Written
<1> PICK n \in 1 .. 3 : n = c + 1
  BY DEF Cells
<1> PICK y : y = [p EXCEPT !.pos = n]
  OBVIOUS
<1>4. y \in Up /\ y.pc = p.pc /\ y.inode = p.inode /\ y.pos = n
  BY DEF Up
<1>5. up' = [up EXCEPT ![u] = y]
  BY DEF Transfer, TypeInv
<1>6. UpMoves(u, y)
  BY <1>4, <1>5, UpMoving
<1> QED
  BY <1>1, <1>3, <1>4, <1>6

LEMMA EndTransferEffect ==
  ASSUME TypeInv, NEW u \in Upload, EndTransfer(u)
  PROVE  /\ up[u].pc = "writing"
         /\ \E y \in Up : UpMoves(u, y) /\ y.pc = IF up[u].pos \in Cells THEN "started" ELSE "written"
<1> PICK p \in Up : p = up[u]
  BY DEF TypeInv
<1> PICK l \in {"started", "written"} : l = IF p.pos \in Cells THEN "started" ELSE "written"
  OBVIOUS
<1> PICK i \in Inode \cup {None}, n \in 1 .. 3 : i = None /\ n = 1
  OBVIOUS
<1> PICK y : y = [p EXCEPT !.pc = l, !.inode = i, !.pos = n]
  OBVIOUS
<1>3. y \in Up /\ y.pc = l
  BY DEF Up
<1>4. up' = [up EXCEPT ![u].pc = l, ![u].inode = i, ![u].pos = n]
  BY DEF EndTransfer
<1>5. up' = [up EXCEPT ![u] = y]
  BY <1>4 DEF TypeInv
<1>6. UpMoves(u, y)
  BY <1>3, <1>5, UpMoving
<1> QED
  BY <1>3, <1>6 DEF EndTransfer

\* The call is accepted, or refused.
LEMMA CommitUploadEffect ==
  ASSUME TypeInv, NEW u \in Upload, NEW s \in Slave, CommitUpload(u, s)
  PROVE  /\ up[u].pc = "written" /\ slave[s] = Idle
         /\ \/ /\ AuthzWrite(ClientOf[u]) /\ overlap' = (overlap \/ \E t \in Slave : slave[t] # Idle)
               /\ \E x \in Local, y \in Up :
                    /\ Moves(s, x) /\ x.pc = "update" /\ x.up = u /\ x.pos = 1
                    /\ UpMoves(u, y) /\ y.pc = "calling"
            \/ /\ ~AuthzWrite(ClientOf[u]) /\ UNCHANGED <<slave, overlap>>
               /\ \E y \in Up : UpMoves(u, y) /\ y.pc = "idle"
<1>1. up[u].pc = "written" /\ slave[s] = Idle
  BY DEF CommitUpload
<1>2. CASE AuthzWrite(ClientOf[u])
  <2> PICK l : l = "update"
    OBVIOUS
  <2> PICK i \in Local : i = Idle /\ i.pos = 1
    BY IdleType
  <2> PICK x : x = [i EXCEPT !.pc = l, !.up = u]
    OBVIOUS
  <2>1. x \in Local /\ x.pc = "update" /\ x.up = u /\ x.pos = 1
    BY DEF Local
  <2>2. Becomes(s, x) /\ overlap' = (overlap \/ \E t \in Slave : slave[t] # Idle)
    BY <1>2 DEF CommitUpload
  <2>3. Moves(s, x)
    BY <2>1, <2>2, Moving
  <2> PICK p \in Up : p = up[u]
    BY DEF TypeInv
  <2> PICK n \in 0 .. MaxCalls : n = p.calls + 1
    BY FileDataAssumption DEF CommitUpload, Up
  <2> PICK m : m = "calling"
    OBVIOUS
  <2> PICK y : y = [p EXCEPT !.pc = m, !.calls = n]
    OBVIOUS
  <2>4. y \in Up /\ y.pc = "calling"
    BY DEF Up
  <2>5. up' = [up EXCEPT ![u].pc = m, ![u].calls = n]
    BY <1>2 DEF CommitUpload, TypeInv
  <2>6. up' = [up EXCEPT ![u] = y]
    BY <2>5 DEF TypeInv
  <2>7. UpMoves(u, y)
    BY <2>4, <2>6, UpMoving
  <2> QED
    BY <1>1, <1>2, <2>1, <2>2, <2>3, <2>4, <2>7
<1>3. CASE ~AuthzWrite(ClientOf[u])
  <2> PICK l : l = "idle"
    OBVIOUS
  <2>1. up' = [up EXCEPT ![u].pc = l] /\ UNCHANGED <<slave, overlap>>
    BY <1>3 DEF CommitUpload
  <2> QED
    BY <1>1, <1>3, <2>1, UpToEffect
<1> QED
  BY <1>2, <1>3

LEMMA FOpenEffect ==
  ASSUME TypeInv, NEW s \in Slave, FOpen(s)
  PROVE  /\ slave[s].pc = "fopen"
         /\ \E x \in Local : /\ Moves(s, x) /\ x.pc = "gzopen" /\ x.from = src /\ x.up = slave[s].up
                             /\ x.pos = slave[s].pos /\ x.to = slave[s].to
<1> PICK p \in Local : p = slave[s]
  BY DEF TypeInv
<1> PICK l : l = "gzopen"
  OBVIOUS
<1> PICK i \in Inode \cup {None} : i = src
  BY DEF TypeInv, Tables
<1> PICK x : x = [p EXCEPT !.pc = l, !.from = i]
  OBVIOUS
<1>1. x \in Local /\ x.pc = l /\ x.from = i /\ x.up = p.up /\ x.pos = p.pos /\ x.to = p.to
  BY DEF Local
<1>2. Moves(s, x)
  BY <1>1, Moving DEF FOpen
<1> QED
  BY <1>1, <1>2 DEF FOpen

LEMMA GzOpenEffect ==
  ASSUME Room, TypeInv, NEW s \in Slave, GzOpen(s)
  PROVE  /\ slave[s].pc = "gzopen" /\ gz' = Opened(gz) /\ gz' \in Inode
         /\ disk' \in [Inode -> [Cells -> Cell]]
         /\ disk'[gz'] = Empty /\ \A k \in Inode \ {gz'} : disk'[k] = disk[k]
         /\ \E x \in Local : /\ Moves(s, x) /\ x.pc = "copy" /\ x.from = slave[s].from
                             /\ x.up = slave[s].up /\ x.pos = slave[s].pos /\ x.to = gz'
<1> PICK i \in Inode : i = Opened(gz)
  BY OpenedInode
<1>1. gz' = i /\ disk' = [disk EXCEPT ![i] = Empty]
  BY DEF GzOpen
<1>2. /\ disk' \in [Inode -> [Cells -> Cell]] /\ disk'[i] = Empty
      /\ \A k \in Inode \ {i} : disk'[k] = disk[k]
  BY <1>1, Emptied
<1> PICK p \in Local : p = slave[s]
  BY DEF TypeInv
<1> PICK l : l = "copy"
  OBVIOUS
<1> PICK x : x = [p EXCEPT !.pc = l, !.to = i]
  OBVIOUS
<1>3. x \in Local /\ x.pc = l /\ x.from = p.from /\ x.up = p.up /\ x.pos = p.pos /\ x.to = i
  BY DEF Local
<1>4. Moves(s, x)
  BY <1>3, Moving DEF GzOpen
<1> QED
  BY <1>1, <1>2, <1>3, <1>4 DEF GzOpen

\* One cell is copied; the function goes on with the next or closes the files.
LEMMA CopyEffect ==
  ASSUME TypeInv, NEW s \in Slave, Copy(s)
  PROVE  /\ slave[s].pc = "copy" /\ slave[s].to \in Inode /\ slave[s].from \in Inode
         /\ slave[s].pos \in Cells /\ disk' \in [Inode -> [Cells -> Cell]]
         /\ disk'[slave[s].to][slave[s].pos] = Compressed(disk[slave[s].from][slave[s].pos])
         /\ \A d \in Cells \ {slave[s].pos} : disk'[slave[s].to][d] = disk[slave[s].to][d]
         /\ \A k \in Inode \ {slave[s].to} : disk'[k] = disk[k]
         /\ \E x \in Local :
              /\ Moves(s, x) /\ x.up = slave[s].up
              /\ \/ /\ slave[s].pos = 1 /\ x.pc = "copy" /\ x.pos = 2
                    /\ x.from = slave[s].from /\ x.to = slave[s].to
                 \/ slave[s].pos = 2 /\ x.pc = "rename" /\ x.pos = 1 /\ x.from = None /\ x.to = None
<1>1. /\ slave[s].pc = "copy" /\ slave[s].to \in Inode /\ slave[s].from \in Inode
      /\ slave[s].pos \in Cells /\ slave[s].up \in Upload
  BY LocalType DEF Copy, Serving
<1> PICK p \in Local, i \in Inode, c \in Cells, u \in Upload :
       p = slave[s] /\ i = p.to /\ c = p.pos /\ u = p.up
  BY <1>1, LocalType
<1> PICK v \in Cell : v = Compressed(disk[p.from][c])
  BY CompressedType
<1>2. Writes(i, c, v)
  BY DEF Copy, Writes
<1>3. /\ disk' \in [Inode -> [Cells -> Cell]] /\ disk'[i][c] = v
      /\ \A d \in Cells \ {c} : disk'[i][d] = disk[i][d]
      /\ \A k \in Inode \ {i} : disk'[k] = disk[k]
  BY <1>2, Written
<1>4. CASE c = 1
  <2> PICK n \in 1 .. 3 : n = c + 1 /\ n = 2
    BY <1>4
  <2> PICK x : x = [p EXCEPT !.pos = n]
    OBVIOUS
  <2>1. x \in Local /\ x.pc = p.pc /\ x.pos = n /\ x.up = p.up /\ x.from = p.from /\ x.to = p.to
    BY DEF Local
  <2>2. Becomes(s, x)
    BY <1>4 DEF Copy, Cells
  <2>3. Moves(s, x)
    BY <2>1, <2>2, Moving
  <2> QED
    BY <1>1, <1>3, <1>4, <2>1, <2>3, ZenonT(30)
<1>5. CASE c = 2
  <2> PICK l : l = "rename"
    OBVIOUS
  <2> PICK q \in Local : q = Idle /\ q.pos = 1 /\ q.from = None /\ q.to = None
    BY IdleType
  <2> PICK x : x = [q EXCEPT !.pc = l, !.up = u]
    OBVIOUS
  <2>1. x \in Local /\ x.pc = l /\ x.pos = 1 /\ x.up = u /\ x.from = None /\ x.to = None
    BY DEF Local
  <2>2. Becomes(s, x)
    BY <1>5 DEF Copy, Cells
  <2>3. Moves(s, x)
    BY <2>1, <2>2, Moving
  <2> QED
    BY <1>1, <1>3, <1>5, <2>1, <2>3, ZenonT(30)
<1> QED
  BY <1>4, <1>5, SMTT(30) DEF Cells

LEMMA ReadingType ==
  ASSUME TypeInv, NEW i \in Inode
  PROVE  Reading(i) \in Payload \cup {Damaged}
<1> DEFINE first == disk[i][1]
<1>1. CASE first \in Payload /\ \A c \in Cells : disk[i][c] = first
  <2>1. first.of \in Upload /\ first.gz \in Nat
    BY <1>1 DEF Payload
  <2> PICK n \in Nat : n = IF first.gz = 0 THEN 0 ELSE first.gz - 1
    BY <2>1
  <2>2. Reading(i) = [first EXCEPT !.gz = n]
    BY <1>1 DEF Reading
  <2>3. [first EXCEPT !.gz = n] \in Payload
    BY <1>1 DEF Payload
  <2> QED
    BY <2>2, <2>3
<1>2. CASE ~(first \in Payload /\ \A c \in Cells : disk[i][c] = first)
  BY <1>2 DEF Reading
<1> QED
  BY <1>1, <1>2

\* The reader opens the file, reads it or closes it.
LEMMA ReaderEffect ==
  ASSUME TypeInv, OpenFile \/ ReadFile \/ CloseFile
  PROVE  /\ UNCHANGED <<row, src, gz, disk, up, slave, history>>
         /\ reader' \in [inode: Inode \cup {None}, seen: Payload \cup {Damaged, None}]
         /\ \/ row.st = "committed" /\ src # None /\ reader'.inode = src /\ reader'.seen = None
            \/ /\ reader.inode # None /\ reader'.inode = reader.inode
               /\ reader'.seen = Reading(reader.inode)
            \/ reader'.inode = None /\ reader'.seen = None
<1>0. UNCHANGED <<row, src, gz, disk, up, slave, history>>
  BY DEF OpenFile, ReadFile, CloseFile
<1> PICK r \in [inode: Inode \cup {None}, seen: Payload \cup {Damaged, None}] : r = reader
  BY DEF TypeInv, Tables
<1>1. /\ NotReading \in [inode: Inode \cup {None}, seen: Payload \cup {Damaged, None}]
      /\ NotReading.inode = None /\ NotReading.seen = None
  BY DEF NotReading
<1>2. CASE OpenFile
  <2> PICK i \in Inode : i = src
    BY <1>2 DEF OpenFile, TypeInv, Tables
  <2> PICK n \in [inode: Inode \cup {None}, seen: Payload \cup {Damaged, None}] :
        n = NotReading /\ n.seen = None
    BY <1>1
  <2>1. reader' = [n EXCEPT !.inode = i] /\ row.st = "committed"
    BY <1>2 DEF OpenFile
  <2>2. /\ reader' \in [inode: Inode \cup {None}, seen: Payload \cup {Damaged, None}]
        /\ reader'.inode = i /\ reader'.seen = None
    BY <2>1
  <2> QED
    BY <1>0, <1>2, <2>1, <2>2 DEF OpenFile
<1>3. CASE ReadFile
  <2>1. r.inode \in Inode
    BY <1>3 DEF ReadFile
  <2> PICK v \in Payload \cup {Damaged} : v = Reading(r.inode)
    BY <2>1, ReadingType
  <2>2. reader' = [r EXCEPT !.seen = v]
    BY <1>3 DEF ReadFile
  <2>3. /\ reader' \in [inode: Inode \cup {None}, seen: Payload \cup {Damaged, None}]
        /\ reader'.inode = r.inode /\ reader'.seen = v
    BY <2>2
  <2> QED
    BY <1>0, <1>3, <2>3 DEF ReadFile
<1>4. CASE CloseFile
  BY <1>0, <1>1, <1>4 DEF CloseFile
<1> QED
  BY <1>2, <1>3, <1>4

-----------------------------------------------------------------------------
(* Types.                                                                   *)

UpsOK == up \in [Upload -> Up] /\ \A u \in Upload : Sending(up[u])
SlavesOK == slave \in [Slave -> Local] /\ \A s \in Slave : Serving(slave[s], src)

LEMMA TypeParts == TypeInv <=> Tables /\ UpsOK /\ SlavesOK
BY DEF TypeInv, UpsOK, SlavesOK

LEMMA UpsKept ==
  ASSUME TypeInv, UNCHANGED up \/ \E u \in Upload, y \in Up : UpMoves(u, y) /\ Sending(y)
  PROVE  UpsOK'
BY DEF TypeInv, UpMoves, UpsOK

LEMMA SlavesKept ==
  ASSUME TypeInv, src # None => src' # None,
         UNCHANGED slave \/ \E s \in Slave, x \in Local : Moves(s, x) /\ Serving(x, src')
  PROVE  SlavesOK'
<1>1. \A s \in Slave : Serving(slave[s], src')
  BY DEF TypeInv, Serving
<1> QED
  BY <1>1 DEF TypeInv, Moves, SlavesOK

LEMMA IdleServing == \A name : Serving(Idle, name)
BY IdleType DEF Serving

LEMMA TypeStep == Room /\ TypeInv /\ [Next]_vars => TypeInv'
<1> SUFFICES ASSUME Room, TypeInv, [Next]_vars PROVE TypeInv'
  OBVIOUS
<1>0. /\ row \in Row /\ src \in Inode \cup {None} /\ gz \in Inode \cup {None}
      /\ disk \in [Inode -> [Cells -> Cell]]
      /\ row.st # "absent" => row.up \in Upload
  BY DEF TypeInv, Tables
<1>1. CASE UNCHANGED vars
  BY <1>1 DEF vars, TypeInv, Tables
<1>2. ASSUME NEW u \in Upload, StartUpload(u) PROVE TypeInv'
  <2> PICK l : l = "started"
    OBVIOUS
  <2>0. up' = [up EXCEPT ![u].pc = l] /\ UNCHANGED <<src, slave>>
    BY <1>2 DEF StartUpload
  <2> PICK y \in Up : UpMoves(u, y) /\ y.pc = "started"
    BY <2>0, UpToEffect
  <2>1. UpsOK' /\ SlavesOK'
    BY <2>0, UpsKept, SlavesKept DEF Sending
  <2>2. row' \in Row /\ (row'.st # "absent" => row'.up \in Upload)
    BY <1>2 DEF StartUpload, Row
  <2>3. Tables'
    BY <1>2, <2>2 DEF StartUpload, TypeInv, Tables, history
  <2> QED
    BY <2>1, <2>3, TypeParts DEF TypeInv, UpsOK, SlavesOK
<1>3. ASSUME NEW u \in Upload, StartTransfer(u) PROVE TypeInv'
  <2>0. src' \in Inode /\ disk' \in [Inode -> [Cells -> Cell]]
    BY <1>3, StartTransferEffect
  <2> PICK y \in Up : UpMoves(u, y) /\ y.pc = "writing" /\ y.inode = src'
    BY <1>3, StartTransferEffect
  <2>1. src' # None
    BY <2>0, FileDataAssumption DEF Inode
  <2>2. UpsOK' /\ SlavesOK'
    BY <1>3, <2>1, UpsKept, SlavesKept DEF Sending, StartTransfer
  <2>3. Tables'
    BY <1>3, <2>0 DEF StartTransfer, TypeInv, Tables
  <2> QED
    BY <2>2, <2>3 DEF TypeInv, UpsOK, SlavesOK
<1>4. ASSUME NEW u \in Upload, Transfer(u) PROVE TypeInv'
  <2>0. disk' \in [Inode -> [Cells -> Cell]] /\ up[u].inode \in Inode
    BY <1>4, TransferEffect
  <2> PICK y \in Up : UpMoves(u, y) /\ y.inode = up[u].inode
    BY <1>4, TransferEffect
  <2>1. y.inode # None
    BY <2>0, FileDataAssumption DEF Inode
  <2>2. UpsOK' /\ SlavesOK'
    BY <1>4, <2>1, UpsKept, SlavesKept DEF Sending, Transfer
  <2>3. Tables'
    BY <1>4, <2>0 DEF Transfer, TypeInv, Tables, history
  <2> QED
    BY <2>2, <2>3 DEF TypeInv, UpsOK, SlavesOK
<1>5. ASSUME NEW u \in Upload, EndTransfer(u) PROVE TypeInv'
  <2> PICK y \in Up : UpMoves(u, y) /\ y.pc # "writing"
    BY <1>5, EndTransferEffect
  <2>2. UpsOK' /\ SlavesOK'
    BY <1>5, UpsKept, SlavesKept DEF Sending, EndTransfer
  <2>3. Tables'
    BY <1>5 DEF EndTransfer, TypeInv, Tables, history
  <2> QED
    BY <2>2, <2>3 DEF TypeInv, UpsOK, SlavesOK
<1>6. ASSUME NEW u \in Upload, Timeout(u) PROVE TypeInv'
  <2> PICK l : l = "written"
    OBVIOUS
  <2>0. up' = [up EXCEPT ![u].pc = l]
    BY <1>6 DEF Timeout
  <2> PICK y \in Up : UpMoves(u, y) /\ y.pc = "written"
    BY <2>0, UpToEffect
  <2>2. UpsOK' /\ SlavesOK'
    BY <1>6, UpsKept, SlavesKept DEF Sending, Timeout
  <2>3. Tables'
    BY <1>6 DEF Timeout, TypeInv, Tables, history
  <2> QED
    BY <2>2, <2>3 DEF TypeInv, UpsOK, SlavesOK
<1>7. ASSUME NEW u \in Upload, NEW s \in Slave, CommitUpload(u, s) PROVE TypeInv'
  <2>0. UNCHANGED <<row, src, gz, disk, reader, crashes>> /\ overlap' \in BOOLEAN
    BY <1>7, CommitUploadEffect DEF CommitUpload, TypeInv, Tables
  <2>1. Tables'
    BY <2>0 DEF TypeInv, Tables
  <2>2. CASE \E x \in Local, y \in Up :
               /\ Moves(s, x) /\ x.pc = "update" /\ x.up = u /\ x.pos = 1
               /\ UpMoves(u, y) /\ y.pc = "calling"
    <3> PICK x \in Local, y \in Up :
               /\ Moves(s, x) /\ x.pc = "update" /\ x.up = u /\ x.pos = 1
               /\ UpMoves(u, y) /\ y.pc = "calling"
      BY <2>2
    <3>1. Sending(y) /\ Serving(x, src')
      BY DEF Sending, Serving
    <3>2. UpsOK' /\ SlavesOK'
      BY <2>0, <3>1, UpsKept, SlavesKept
    <3> QED
      BY <2>1, <3>2 DEF TypeInv, UpsOK, SlavesOK
  <2>3. CASE UNCHANGED <<slave, overlap>> /\ \E y \in Up : UpMoves(u, y) /\ y.pc = "idle"
    <3>1. UpsOK' /\ SlavesOK'
      BY <2>0, <2>3, UpsKept, SlavesKept DEF Sending
    <3> QED
      BY <2>1, <3>1 DEF TypeInv, UpsOK, SlavesOK
  <2> QED
    BY <1>7, <2>2, <2>3, CommitUploadEffect
<1>8. ASSUME NEW s \in Slave, Update(s) PROVE TypeInv'
  <2> PICK l : l = "info"
    OBVIOUS
  <2>0. To(s, l) /\ slave[s].pc = "update" /\ UNCHANGED <<src, gz, disk, up, reader, crashes, overlap>>
    BY <1>8 DEF Update, history
  <2> PICK x \in Local : Moves(s, x) /\ x.pc = "info" /\ x.up = slave[s].up /\ x.pos = slave[s].pos
    BY <2>0, ToEffect
  <2>1. Serving(x, src')
    BY <2>0, LocalType DEF Serving
  <2>2. UpsOK' /\ SlavesOK'
    BY <2>0, <2>1, UpsKept, SlavesKept
  <2> PICK r \in Row : r = row
    BY <1>0
  <2>3. row' \in Row /\ (row'.st # "absent" => row'.up \in Upload)
    <3>1. CASE r.st = "absent"
      BY <1>0, <1>8, <3>1 DEF Update
    <3>2. CASE r.st # "absent"
      <4> PICK c : c = "committed"
        OBVIOUS
      <4>1. row' = [r EXCEPT !.st = c]
        BY <1>8, <3>2 DEF Update
      <4> QED
        BY <1>0, <3>2, <4>1 DEF Row
    <3> QED
      BY <3>1, <3>2
  <2>4. Tables'
    BY <2>0, <2>3 DEF TypeInv, Tables
  <2> QED
    BY <2>2, <2>4 DEF TypeInv, UpsOK, SlavesOK
<1>9. ASSUME NEW s \in Slave, Info(s) PROVE TypeInv'
  <2> PICK l : l = "stat"
    OBVIOUS
  <2>0. /\ slave[s].pc = "info" /\ UNCHANGED <<row, src, gz, disk, up, reader, crashes, overlap>>
        /\ Becomes(s, Idle) \/ To(s, l)
    BY <1>9 DEF Info, history, To
  <2>1. \E x \in Local : Moves(s, x) /\ Serving(x, src')
    <3>1. CASE Becomes(s, Idle)
      BY <3>1, IdleType, IdleServing, Moving
    <3>2. CASE To(s, l)
      <4> PICK x \in Local : Moves(s, x) /\ x.pc = "stat" /\ x.up = slave[s].up /\ x.pos = slave[s].pos
        BY <3>2, ToEffect
      <4> QED
        BY <2>0, LocalType DEF Serving
    <3> QED
      BY <2>0, <3>1, <3>2
  <2>2. UpsOK' /\ SlavesOK'
    BY <2>0, <2>1, UpsKept, SlavesKept
  <2>3. Tables'
    BY <2>0 DEF TypeInv, Tables
  <2> QED
    BY <2>2, <2>3 DEF TypeInv, UpsOK, SlavesOK
<1>10. ASSUME NEW s \in Slave, Stat(s) PROVE TypeInv'
  <2> PICK l : l = "fopen"
    OBVIOUS
  <2>0. /\ slave[s].pc = "stat" /\ UNCHANGED <<row, src, gz, disk, reader, crashes, overlap>>
        /\ \/ src # None /\ To(s, l) /\ UNCHANGED up
           \/ Becomes(s, Idle) /\ Answer(s)
    BY <1>10 DEF Stat, history, Large
  <2>3. Tables'
    BY <2>0 DEF TypeInv, Tables
  <2>4. CASE src # None /\ To(s, l) /\ UNCHANGED up
    <3> PICK x \in Local : Moves(s, x) /\ x.pc = "fopen" /\ x.up = slave[s].up /\ x.pos = slave[s].pos
      BY <2>4, ToEffect
    <3>1. Serving(x, src')
      BY <2>0, <2>4, LocalType DEF Serving
    <3>2. UpsOK' /\ SlavesOK'
      BY <2>0, <2>4, <3>1, UpsKept, SlavesKept
    <3> QED
      BY <2>3, <3>2 DEF TypeInv, UpsOK, SlavesOK
  <2>5. CASE Becomes(s, Idle) /\ Answer(s)
    <3>1. Moves(s, Idle) /\ Serving(Idle, src')
      BY <2>5, IdleType, IdleServing, Moving
    <3> PICK u \in Upload, y \in Up :
           /\ u = slave[s].up /\ UpMoves(u, y) /\ y.inode = up[u].inode
           /\ y.pc = IF up[u].pc = "calling" THEN "over" ELSE up[u].pc
      BY <2>0, <2>5, AnswerEffect
    <3>2. Sending(y)
      BY UpType DEF Sending
    <3>3. UpsOK' /\ SlavesOK'
      BY <2>0, <3>1, <3>2, IdleType, UpsKept, SlavesKept
    <3> QED
      BY <2>3, <3>3 DEF TypeInv, UpsOK, SlavesOK
  <2> QED
    BY <2>0, <2>4, <2>5
<1>11. ASSUME NEW s \in Slave, FOpen(s) PROVE TypeInv'
  <2> PICK x \in Local : Moves(s, x) /\ x.pc = "gzopen" /\ x.from = src /\ x.up = slave[s].up
                         /\ x.pos = slave[s].pos
    BY <1>11, FOpenEffect
  <2>0. slave[s].pc = "fopen" /\ UNCHANGED <<row, src, gz, disk, up, reader, crashes, overlap>>
    BY <1>11 DEF FOpen, history
  <2>1. Serving(x, src')
    BY <2>0, LocalType DEF Serving
  <2>2. UpsOK' /\ SlavesOK'
    BY <2>0, <2>1, UpsKept, SlavesKept
  <2>3. Tables'
    BY <2>0 DEF TypeInv, Tables
  <2> QED
    BY <2>2, <2>3 DEF TypeInv, UpsOK, SlavesOK
<1>12. ASSUME NEW s \in Slave, GzOpen(s) PROVE TypeInv'
  <2> PICK x \in Local : Moves(s, x) /\ x.pc = "copy" /\ x.from = slave[s].from /\ x.up = slave[s].up
                         /\ x.pos = slave[s].pos /\ x.to = gz'
    BY <1>12, GzOpenEffect
  <2>0. /\ slave[s].pc = "gzopen" /\ gz' \in Inode /\ disk' \in [Inode -> [Cells -> Cell]]
        /\ UNCHANGED <<row, src, up, reader, crashes, overlap>>
    BY <1>12, GzOpenEffect DEF GzOpen, history
  <2>1. Serving(x, src')
    <3>1. gz' # None /\ 1 \in Cells
      BY <2>0, FileDataAssumption DEF Inode, Cells
    <3> QED
      BY <2>0, <3>1, LocalType DEF Serving
  <2>2. UpsOK' /\ SlavesOK'
    BY <2>0, <2>1, UpsKept, SlavesKept
  <2>3. Tables'
    BY <2>0 DEF TypeInv, Tables
  <2> QED
    BY <2>2, <2>3 DEF TypeInv, UpsOK, SlavesOK
<1>13. ASSUME NEW s \in Slave, Copy(s) PROVE TypeInv'
  <2> PICK x \in Local :
        /\ Moves(s, x) /\ x.up = slave[s].up
        /\ \/ /\ x.pc = "copy" /\ x.pos = 2
              /\ x.from = slave[s].from /\ x.to = slave[s].to
           \/ x.pc = "rename" /\ x.pos = 1
    BY <1>13, CopyEffect
  <2>0. /\ slave[s].pc = "copy" /\ disk' \in [Inode -> [Cells -> Cell]]
        /\ UNCHANGED <<row, src, gz, up, reader, crashes, overlap>>
    BY <1>13, CopyEffect DEF Copy, history
  <2>1. Serving(x, src')
    <3>1. 2 \in Cells
      BY DEF Cells
    <3> QED
      BY <2>0, <3>1, LocalType DEF Serving
  <2>2. UpsOK' /\ SlavesOK'
    BY <2>0, <2>1, UpsKept, SlavesKept
  <2>3. Tables'
    BY <2>0 DEF TypeInv, Tables
  <2> QED
    BY <2>2, <2>3 DEF TypeInv, UpsOK, SlavesOK
<1>14. ASSUME NEW s \in Slave, Rename(s) PROVE TypeInv'
  <2>0. /\ slave[s].pc = "rename" /\ Becomes(s, Idle) /\ Answer(s) /\ gz' = None
        /\ src' = (IF gz = None THEN src ELSE gz)
        /\ UNCHANGED <<row, disk, reader, crashes, overlap>>
    BY <1>14 DEF Rename, history
  <2>1. Moves(s, Idle) /\ Serving(Idle, src')
    BY <2>0, IdleType, IdleServing, Moving
  <2> PICK u \in Upload, y \in Up :
         /\ u = slave[s].up /\ UpMoves(u, y) /\ y.inode = up[u].inode
         /\ y.pc = IF up[u].pc = "calling" THEN "over" ELSE up[u].pc
    BY <2>0, AnswerEffect
  <2>2. Sending(y)
    BY UpType DEF Sending
  <2>3. UpsOK' /\ SlavesOK'
    BY <2>0, <2>1, <2>2, IdleType, UpsKept, SlavesKept
  <2>4. Tables'
    BY <2>0 DEF TypeInv, Tables
  <2> QED
    BY <2>3, <2>4 DEF TypeInv, UpsOK, SlavesOK
<1>15. ASSUME NEW s \in Slave, Crash(s) PROVE TypeInv'
  <2>0. Becomes(s, Idle) /\ UNCHANGED <<row, src, gz, disk, up, reader, overlap>>
    BY <1>15 DEF Crash
  <2>1. Moves(s, Idle) /\ Serving(Idle, src')
    BY <2>0, IdleType, IdleServing, Moving
  <2>2. UpsOK' /\ SlavesOK'
    BY <2>0, <2>1, IdleType, UpsKept, SlavesKept
  <2>3. crashes' \in 0 .. MaxCrashes
    BY <1>15, FileDataAssumption DEF Crash, TypeInv, Tables
  <2>4. Tables'
    BY <2>0, <2>3 DEF TypeInv, Tables
  <2> QED
    BY <2>2, <2>4 DEF TypeInv, UpsOK, SlavesOK
<1>16. CASE Expire
  <2>0. row' = NoRow /\ UNCHANGED <<src, gz, disk, up, slave, reader, crashes, overlap>>
    BY <1>16 DEF Expire
  <2>1. row' \in Row /\ row'.st = "absent"
    BY <2>0 DEF NoRow, Row
  <2> QED
    BY <2>0, <2>1 DEF TypeInv, Tables
<1>17. CASE OpenFile \/ ReadFile \/ CloseFile
  BY <1>17, ReaderEffect DEF TypeInv, Tables, history
<1> QED
  BY StepCases, <1>1, <1>2, <1>3, <1>4, <1>5, <1>6, <1>7, <1>8, <1>9, <1>10, <1>11, <1>12, <1>13,
     <1>14, <1>15, <1>16, <1>17

LEMMA TypeInit == Init => TypeInv
<1> SUFFICES ASSUME Init PROVE TypeInv
  OBVIOUS
<1>1. row \in Row /\ row.st = "absent"
  BY DEF Init, NoRow, Row
<1>2. /\ reader \in [inode: Inode \cup {None}, seen: Payload \cup {Damaged, None}]
      /\ disk \in [Inode -> [Cells -> Cell]]
  BY CellType DEF Init, NotReading
<1>3. Tables
  <2>1. crashes \in 0 .. MaxCrashes
    BY FileDataAssumption DEF Init
  <2>2. overlap \in BOOLEAN /\ src \in Inode \cup {None} /\ gz \in Inode \cup {None}
    BY DEF Init
  <2> QED
    BY <1>1, <1>2, <2>1, <2>2 DEF Tables
<1>4. UpsOK
  <2> PICK y : y = [pc |-> "idle", inode |-> None, pos |-> 1, calls |-> 0]
    OBVIOUS
  <2>1. y \in Up /\ y.pc = "idle"
    BY FileDataAssumption DEF Up
  <2>2. up = [u \in Upload |-> y]
    BY DEF Init
  <2> QED
    BY <2>1, <2>2 DEF UpsOK, Sending
<1>5. SlavesOK
  BY IdleType, IdleServing DEF Init, SlavesOK
<1> QED
  BY <1>3, <1>4, <1>5 DEF TypeInv, UpsOK, SlavesOK

\* Every variable holds a value of its type, a slave that copies has both files
\* open, and there is room for one more file, whatever clients and slaves do, late
\* transfers, overlapping commits and dying slaves included: the actions of the
\* module are FTP transfers, CommitUpload with its compression, and readers.
THEOREM TypeCorrect ==
  ASSUME Room
  PROVE  Spec => []TypeOK
<1>1. TypeInv => TypeOK
  <2> SUFFICES ASSUME TypeInv PROVE TypeOK
    OBVIOUS
  <2>1. \A s \in Slave : slave[s].pc = "copy" =>
          None \notin {slave[s].from, slave[s].to} /\ slave[s].pos \in Cells
    BY LocalType DEF Serving
  <2>2. Inode \ Open # {}
    BY FreeInode
  <2> QED
    BY <2>1, <2>2 DEF TypeInv, Tables, TypeOK
<1>2. Spec => []TypeInv
  <2>1. TypeInv /\ [Next]_vars => TypeInv'
    BY TypeStep
  <2> QED
    BY <2>1, TypeInit, PTL DEF Spec
<1> QED
  BY <1>1, <1>2, PTL

-----------------------------------------------------------------------------
(* Clients that are in time, and the slaves that serve them.                *)

Packed(u) == [of |-> u, gz |-> 1]
Full(i, p) == i \in Inode /\ \A c \in Cells : disk[i][c] = p

\* A client transfers what has been started and not committed, into the file itself.
Writer(u) ==
  up[u].pc = "writing" =>
    /\ row.st = "uploading" /\ row.up = u /\ src # None /\ up[u].inode = src
    /\ \A c \in Cells : c < up[u].pos => disk[src][c] = Uploaded(u)

\* What has been started is there unless it is still to be transferred.
Filled ==
  row.st = "uploading" => up[row.up].pc \in {"started", "writing"} \/ Full(src, Uploaded(row.up))

\* Slaves serve commits of the upload in the table, which has been transferred.
Commits(x) ==
  x.pc # "idle" =>
    /\ row.st # "absent" /\ (x.pc # "update" => row.st = "committed")
    /\ row.up = x.up /\ up[x.up].pc \notin {"started", "writing"}

InTime ==
  /\ src # None => src # gz
  /\ Filled
  /\ \A u \in Upload : Writer(u)
  /\ \A s \in Slave : Commits(slave[s])

\* Nobody commits what is not there or still to be transferred.
LEMMA NobodyCommits ==
  ASSUME TypeInv, InTime, row.st = "absent" \/ up[row.up].pc \in {"started", "writing"}
  PROVE  \A s \in Slave : slave[s].pc = "idle"
BY DEF InTime, Commits

LEMMA NobodyWrites ==
  ASSUME InTime, row.st # "uploading"
  PROVE  \A u \in Upload : up[u].pc # "writing"
BY DEF InTime, Writer

LEMMA StartUploadInTime ==
  ASSUME TypeInv, InTime, NEW u \in Upload, StartUpload(u)
  PROVE  InTime' /\ row'.st # "committed" /\ row.st # "committed" /\ UNCHANGED <<slave, reader>>
<1> PICK l : l = "started"
  OBVIOUS
<1>0. /\ up' = [up EXCEPT ![u].pc = l] /\ row.st = "absent" /\ row'.st = "uploading" /\ row'.up = u
      /\ UNCHANGED <<src, gz, disk, slave, reader>>
  BY DEF StartUpload
<1> PICK y \in Up : UpMoves(u, y) /\ y.pc = "started"
  BY <1>0, UpToEffect
<1>1. \A s \in Slave : Commits(slave[s])'
  BY <1>0, NobodyCommits DEF Commits
<1>2. \A v \in Upload : Writer(v)'
  BY <1>0, NobodyWrites DEF Writer, UpMoves
<1>3. Filled'
  BY <1>0 DEF UpMoves, Filled
<1> QED
  BY <1>0, <1>1, <1>2, <1>3 DEF InTime

\* A client writes to the file of the upload it has started last.
LEMMA OwnUpload ==
  ASSUME TypeInv, NEW u \in Upload, AuthzWrite(ClientOf[u]), ~Stale(u)
  PROVE  row.st = "uploading" /\ row.up = u
BY FileDataAssumption DEF AuthzWrite, Stale, TypeInv, Tables

LEMMA StartTransferInTime ==
  ASSUME Room, ~Late, TypeInv, InTime, NEW u \in Upload, StartTransfer(u)
  PROVE  InTime' /\ row'.st # "committed" /\ row.st # "committed" /\ UNCHANGED <<slave, reader>>
<1>0. /\ up[u].pc \in {"started", "written"} /\ row.st = "uploading" /\ row.up = u
      /\ \A s \in Slave : slave[s].up # u
      /\ UNCHANGED <<row, gz, slave, reader>>
  BY OwnUpload DEF StartTransfer
<1> PICK y \in Up : UpMoves(u, y) /\ y.pc = "writing" /\ y.inode = src' /\ y.pos = 1
  BY StartTransferEffect
<1>1. src' \in Inode /\ src' # gz /\ src' # None
  <2>1. src' \in Inode /\ src' = Opened(src)
    BY StartTransferEffect
  <2>2. gz \in Open
    BY DEF Open
  <2>3. src' # None
    BY <2>1, FileDataAssumption DEF Inode
  <2> QED
    BY <2>1, <2>2, <2>3, OpenedInode DEF InTime
<1>2. \A s \in Slave : Commits(slave[s])'
  BY <1>0 DEF InTime, Commits
<1>3. \A v \in Upload : Writer(v)'
  <2>1. \A v \in Upload \ {u} : up'[v].pc # "writing"
    BY <1>0 DEF InTime, Writer, UpMoves
  <2> QED
    BY <1>0, <1>1, <2>1 DEF UpMoves, Writer, Cells
<1>4. Filled'
  BY <1>0 DEF UpMoves, Filled
<1> QED
  BY <1>0, <1>1, <1>2, <1>3, <1>4 DEF InTime

LEMMA TransferInTime ==
  ASSUME TypeInv, InTime, NEW u \in Upload, Transfer(u)
  PROVE  InTime' /\ row'.st # "committed" /\ row.st # "committed" /\ UNCHANGED <<slave, reader>>
<1>0. /\ up[u].pc = "writing" /\ row.st = "uploading" /\ row.up = u /\ src # None /\ up[u].inode = src
      /\ UNCHANGED <<row, src, gz, slave, reader>>
  BY DEF Transfer, InTime, Writer
<1> PICK y \in Up : UpMoves(u, y) /\ y.pc = "writing" /\ y.inode = up[u].inode /\ y.pos = up[u].pos + 1
  BY TransferEffect
<1>1. \A s \in Slave : Commits(slave[s])'
  BY <1>0, NobodyCommits DEF Commits
<1>2. \A v \in Upload : Writer(v)'
  <2>1. \A v \in Upload \ {u} : up'[v].pc # "writing"
    BY <1>0 DEF InTime, Writer, UpMoves
  <2>2. /\ up[u].pos \in Cells /\ disk'[src][up[u].pos] = Uploaded(u)
        /\ \A d \in Cells \ {up[u].pos} : disk'[src][d] = disk[src][d]
    BY <1>0, TransferEffect
  <2>3. \A c \in Cells : c < up[u].pos => disk[src][c] = Uploaded(u)
    BY <1>0 DEF InTime, Writer
  <2>4. \A c \in Cells : c < y.pos => disk'[src][c] = Uploaded(u)
    BY <2>2, <2>3 DEF Cells
  <2> QED
    BY <1>0, <2>1, <2>4 DEF UpMoves, Writer
<1>3. Filled'
  BY <1>0 DEF UpMoves, Filled
<1> QED
  BY <1>0, <1>1, <1>2, <1>3 DEF InTime

LEMMA EndTransferInTime ==
  ASSUME TypeInv, InTime, NEW u \in Upload, EndTransfer(u)
  PROVE  InTime' /\ row'.st # "committed" /\ row.st # "committed" /\ UNCHANGED <<slave, reader>>
<1>0. /\ up[u].pc = "writing" /\ row.st = "uploading" /\ row.up = u /\ src # None /\ up[u].inode = src
      /\ UNCHANGED <<row, src, gz, disk, slave, reader>>
  BY DEF EndTransfer, InTime, Writer
<1> PICK y \in Up : UpMoves(u, y) /\ y.pc = IF up[u].pos \in Cells THEN "started" ELSE "written"
  BY EndTransferEffect
<1>1. \A s \in Slave : Commits(slave[s])'
  BY <1>0, NobodyCommits DEF Commits
<1>2. \A v \in Upload : Writer(v)'
  BY <1>0 DEF InTime, Writer, UpMoves
<1>3. Filled'
  <2>1. CASE up[u].pos \in Cells
    BY <1>0, <2>1 DEF UpMoves, Filled
  <2>2. CASE up[u].pos \notin Cells
    <3>1. \A c \in Cells : disk[src][c] = Uploaded(u)
      BY <1>0, <2>2, UpType DEF InTime, Writer, Cells
    <3>2. src \in Inode
      BY <1>0 DEF TypeInv, Tables
    <3> QED
      BY <1>0, <3>1, <3>2 DEF Filled, Full
  <2> QED
    BY <2>1, <2>2
<1> QED
  BY <1>0, <1>1, <1>2, <1>3 DEF InTime

LEMMA ExpireInTime ==
  ASSUME ~Late, TypeInv, InTime, Expire
  PROVE  InTime' /\ row'.st # "committed" /\ row.st # "committed" /\ UNCHANGED <<slave, reader>>
<1>0. /\ row.st = "uploading" /\ row'.st = "absent" /\ ~AtWork(row.up) /\ row.up \in Upload
      /\ UNCHANGED <<src, gz, disk, up, slave, reader>>
  BY DEF Expire, NoRow, TypeInv, Tables
<1>1. \A s \in Slave : Commits(slave[s])'
  BY <1>0 DEF InTime, Commits, AtWork
<1>2. \A u \in Upload : Writer(u)'
  BY <1>0 DEF InTime, Writer, AtWork
<1>3. Filled'
  BY <1>0 DEF Filled
<1> QED
  BY <1>0, <1>1, <1>2, <1>3 DEF InTime

\* Clients that transfer or are about to go on with it.
Upkeep ==
  \A u \in Upload :
    \/ up'[u].pc = up[u].pc /\ up'[u].inode = up[u].inode /\ up'[u].pos = up[u].pos
    \/ up[u].pc \notin {"started", "writing"} /\ up'[u].pc \notin {"started", "writing"}

LEMMA CommitsStep ==
  ASSUME TypeInv, InTime, Upkeep, UNCHANGED row, NEW s \in Slave,
         UNCHANGED slave \/ \E x \in Local :
           Moves(s, x) /\ (x.pc = "idle" \/ (slave[s].pc \notin {"idle", "update"} /\ x.up = slave[s].up))
  PROVE  \A t \in Slave : Commits(slave[t])'
<1> SUFFICES ASSUME NEW t \in Slave, slave'[t].pc # "idle" PROVE Commits(slave[t])'
  BY DEF Commits
<1>1. /\ slave[t].pc # "idle" /\ slave'[t].up = slave[t].up
      /\ slave'[t].pc # "update" => slave[t].pc # "update"
  BY DEF Moves
<1>2. slave[t].up \in Upload /\ Commits(slave[t])
  BY <1>1, LocalType DEF Serving, InTime
<1>3. up'[slave[t].up].pc \notin {"started", "writing"}
  BY <1>1, <1>2 DEF Upkeep, Commits
<1> QED
  BY <1>1, <1>2, <1>3 DEF Commits

LEMMA UpkeepWriters ==
  ASSUME InTime, Upkeep, UNCHANGED <<row, src, disk>>
  PROVE  \A u \in Upload : Writer(u)'
BY DEF InTime, Upkeep, Writer

LEMMA UpkeepFilled ==
  ASSUME TypeInv, InTime, Upkeep, UNCHANGED <<row, src, disk>>
  PROVE  Filled'
<1>1. row.st = "uploading" => row.up \in Upload
  BY DEF TypeInv, Tables
<1> QED
  BY <1>1 DEF InTime, Upkeep, Filled, Full

\* Steps that leave the tables and the disk alone.
LEMMA QuietInTime ==
  ASSUME TypeInv, InTime, Upkeep, UNCHANGED <<row, src, gz, disk>>,
         UNCHANGED slave \/ \E s \in Slave, x \in Local :
           Moves(s, x) /\ (x.pc = "idle" \/ (slave[s].pc \notin {"idle", "update"} /\ x.up = slave[s].up))
  PROVE  InTime'
<1>1. Filled' /\ \A u \in Upload : Writer(u)'
  BY UpkeepWriters, UpkeepFilled
<1>2. \A t \in Slave : Commits(slave[t])'
  BY CommitsStep
<1> QED
  BY <1>1, <1>2 DEF InTime

\* Steps of the compression.
LEMMA SlaveInTime ==
  ASSUME TypeInv, InTime, Upkeep, UNCHANGED row, NEW s \in Slave, slave[s].pc \notin {"idle", "update"},
         NEW x \in Local, Moves(s, x), x.pc = "idle" \/ x.up = slave[s].up, src' # None => src' # gz'
  PROVE  InTime' /\ row.st = "committed"
<1>0. row.st = "committed"
  BY DEF InTime, Commits
<1>1. Filled'
  BY <1>0 DEF Filled
<1>2. \A u \in Upload : Writer(u)'
  BY <1>0, NobodyWrites DEF Upkeep, Writer
<1>3. \A t \in Slave : Commits(slave[t])'
  BY CommitsStep
<1> QED
  BY <1>0, <1>1, <1>2, <1>3 DEF InTime

LEMMA TimeoutEffect ==
  ASSUME TypeInv, NEW u \in Upload, Timeout(u)
  PROVE  Upkeep /\ UNCHANGED <<row, src, gz, disk, slave, reader>>
<1> PICK l : l = "written"
  OBVIOUS
<1>0. /\ up' = [up EXCEPT ![u].pc = l] /\ up[u].pc = "calling"
      /\ UNCHANGED <<row, src, gz, disk, slave, reader>>
  BY DEF Timeout
<1> PICK y \in Up : UpMoves(u, y) /\ y.pc = "written"
  BY <1>0, UpToEffect
<1> QED
  BY <1>0 DEF Upkeep, UpMoves

\* A commit that is accepted is the first one, or one more of an upload in progress.
LEMMA CommitUploadInTime ==
  ASSUME ~Late, TypeInv, InTime, NEW u \in Upload, NEW s \in Slave, CommitUpload(u, s)
  PROVE  /\ InTime' /\ Upkeep /\ UNCHANGED <<row, src, gz, disk, reader>>
         /\ \/ UNCHANGED slave
            \/ /\ row.st = "uploading" /\ row.up = u
               /\ \E x \in Local : Moves(s, x) /\ x.pc = "update" /\ x.up = u
               /\ ~overlap' => \A t \in Slave : slave[t] = Idle
<1>0. /\ up[u].pc = "written" /\ slave[s] = Idle /\ ~Stale(u)
      /\ UNCHANGED <<row, src, gz, disk, reader>>
  BY DEF CommitUpload
<1>1. CASE AuthzWrite(ClientOf[u])
  <2> PICK x \in Local, y \in Up :
        /\ Moves(s, x) /\ x.pc = "update" /\ x.up = u /\ x.pos = 1
        /\ UpMoves(u, y) /\ y.pc = "calling"
    BY <1>1, CommitUploadEffect
  <2>1. row.st = "uploading" /\ row.up = u
    BY <1>0, <1>1, OwnUpload
  <2>2. ~overlap' => \A t \in Slave : slave[t] = Idle
    BY <1>1, CommitUploadEffect
  <2>3. Upkeep
    BY <1>0 DEF Upkeep, UpMoves
  <2>4. (\A v \in Upload : Writer(v)') /\ Filled'
    BY <1>0, <2>3, UpkeepWriters, UpkeepFilled
  <2>5. \A t \in Slave : Commits(slave[t])'
    <3>1. \A t \in Slave \ {s} : slave'[t] = slave[t] /\ Commits(slave[t])
      BY DEF Moves, InTime
    <3>2. slave'[s] = x /\ up'[u].pc = "calling"
      BY DEF Moves, UpMoves
    <3> QED
      BY <1>0, <2>1, <3>1, <3>2 DEF Commits
  <2> QED
    BY <1>0, <2>1, <2>2, <2>3, <2>4, <2>5 DEF InTime
<1>2. CASE ~AuthzWrite(ClientOf[u])
  <2> PICK y \in Up : UpMoves(u, y) /\ y.pc = "idle"
    BY <1>2, CommitUploadEffect
  <2>1. Upkeep /\ UNCHANGED slave
    BY <1>0, <1>2, CommitUploadEffect DEF Upkeep, UpMoves
  <2> QED
    BY <1>0, <2>1, QuietInTime
<1> QED
  BY <1>1, <1>2

LEMMA UpdateInTime ==
  ASSUME TypeInv, InTime, NEW s \in Slave, Update(s)
  PROVE  /\ InTime' /\ row'.st = "committed" /\ row'.up = row.up /\ row.st # "absent"
         /\ UNCHANGED <<src, gz, disk, up, reader>>
         /\ slave[s].pc = "update" /\ slave[s].up = row.up
         /\ row.st = "uploading" => Full(src, Uploaded(row.up))
         /\ \E x \in Local : Moves(s, x) /\ x.pc = "info" /\ x.up = slave[s].up
<1> PICK l : l = "info"
  OBVIOUS
<1>0. /\ To(s, l) /\ slave[s].pc = "update" /\ UNCHANGED <<src, gz, disk, up, reader>>
  BY DEF Update
<1> PICK x \in Local : Moves(s, x) /\ x.pc = "info" /\ x.up = slave[s].up
  BY <1>0, ToEffect
<1>1. row.st # "absent" /\ row.up = x.up /\ up[x.up].pc \notin {"started", "writing"}
  BY <1>0 DEF InTime, Commits
<1>2. row'.st = "committed" /\ row'.up = row.up
  <2> PICK r \in Row : r = row
    BY DEF TypeInv, Tables
  <2> PICK c : c = "committed"
    OBVIOUS
  <2>1. row' = [r EXCEPT !.st = c]
    BY <1>1 DEF Update
  <2> QED
    BY <2>1 DEF Row
<1>3. row.st = "uploading" => Full(src, Uploaded(row.up))
  BY <1>1 DEF InTime, Filled
<1>4. \A u \in Upload : Writer(u)'
  <2>1. \A u \in Upload : up[u].pc # "writing"
    BY <1>1 DEF InTime, Writer
  <2> QED
    BY <1>0, <2>1 DEF Writer
<1>5. Filled'
  BY <1>2 DEF Filled
<1>6. \A t \in Slave : Commits(slave[t])'
  BY <1>0, <1>1, <1>2 DEF InTime, Commits, Moves
<1> QED
  BY <1>0, <1>1, <1>2, <1>3, <1>4, <1>5, <1>6 DEF InTime

LEMMA AnswerKeeps ==
  ASSUME TypeInv, NEW s \in Slave, slave[s].pc # "idle", UNCHANGED up \/ Answer(s)
  PROVE  Upkeep
<1>1. CASE UNCHANGED up
  BY <1>1 DEF Upkeep
<1>2. CASE Answer(s)
  <2> PICK u \in Upload, y \in Up :
        /\ u = slave[s].up /\ UpMoves(u, y) /\ y.inode = up[u].inode /\ y.pos = up[u].pos
        /\ y.pc = IF up[u].pc = "calling" THEN "over" ELSE up[u].pc
    BY <1>2, AnswerEffect
  <2> QED
    BY DEF Upkeep, UpMoves
<1> QED
  BY <1>1, <1>2

\* The call goes on to the next step, ends, or its slave dies.
LEMMA CallSteps ==
  ASSUME TypeInv, InTime, NEW s \in Slave, Info(s) \/ Stat(s) \/ Crash(s)
  PROVE  /\ slave[s].pc # "idle" /\ Upkeep /\ UNCHANGED <<row, src, gz, disk, reader>>
         /\ \E x \in Local :
              /\ Moves(s, x)
              /\ \/ x.pc = "idle"
                 \/ /\ slave[s].pc \in {"info", "stat"} /\ x.pc \in {"stat", "fopen"}
                    /\ x.up = slave[s].up
<1>1. ASSUME Becomes(s, Idle) PROVE \E x \in Local : Moves(s, x) /\ x.pc = "idle"
  BY <1>1, IdleType, Moving
<1>2. CASE Info(s)
  <2> PICK l : l = "stat"
    OBVIOUS
  <2>0. /\ slave[s].pc = "info" /\ UNCHANGED <<row, src, gz, disk, up, reader>>
        /\ Becomes(s, Idle) \/ To(s, l)
    BY <1>2 DEF Info, To
  <2>1. Upkeep
    BY <2>0 DEF Upkeep
  <2>2. CASE To(s, l)
    BY <2>0, <2>1, <2>2, ToEffect
  <2> QED
    BY <1>1, <2>0, <2>1, <2>2
<1>3. CASE Stat(s)
  <2> PICK l : l = "fopen"
    OBVIOUS
  <2>0. /\ slave[s].pc = "stat" /\ UNCHANGED <<row, src, gz, disk, reader>>
        /\ \/ To(s, l) /\ UNCHANGED up
           \/ Becomes(s, Idle) /\ Answer(s)
    BY <1>3 DEF Stat
  <2>1. Upkeep
    BY <2>0, AnswerKeeps
  <2>2. CASE To(s, l)
    BY <2>0, <2>1, <2>2, ToEffect
  <2> QED
    BY <1>1, <2>0, <2>1, <2>2
<1>4. CASE Crash(s)
  <2>0. slave[s].pc # "idle" /\ Becomes(s, Idle) /\ UNCHANGED <<row, src, gz, disk, up, reader>>
    BY <1>4, LocalType DEF Crash, Serving
  <2>1. Upkeep
    BY <2>0 DEF Upkeep
  <2> QED
    BY <1>1, <2>0, <2>1
<1> QED
  BY <1>2, <1>3, <1>4

\* The file to compress is opened, a new one is, a cell is copied, the files are closed.
LEMMA FilesApart ==
  ASSUME Room, TypeInv, InTime, NEW s \in Slave, FOpen(s) \/ GzOpen(s) \/ Copy(s) \/ Rename(s)
  PROVE  /\ slave[s].pc \notin {"idle", "update"} /\ UNCHANGED row /\ Upkeep
         /\ src' # None => src' # gz'
         /\ \E x \in Local : Moves(s, x) /\ (x.pc = "idle" \/ x.up = slave[s].up)
<1>1. CASE FOpen(s)
  <2>1. slave[s].pc = "fopen" /\ UNCHANGED <<row, src, gz, up>>
    BY <1>1 DEF FOpen
  <2> QED
    BY <1>1, <2>1, FOpenEffect DEF Upkeep, InTime
<1>2. CASE GzOpen(s)
  <2>1. slave[s].pc = "gzopen" /\ UNCHANGED <<row, src, up>> /\ gz' = Opened(gz)
    BY <1>2, GzOpenEffect DEF GzOpen
  <2>2. src \in Open
    BY DEF Open
  <2>3. src' # None => src' # gz'
    BY <2>1, <2>2, OpenedInode DEF InTime
  <2>4. \E x \in Local : Moves(s, x) /\ x.up = slave[s].up
    BY <1>2, GzOpenEffect
  <2> QED
    BY <2>1, <2>3, <2>4 DEF Upkeep
<1>3. CASE Copy(s)
  <2>1. slave[s].pc = "copy" /\ UNCHANGED <<row, src, gz, up>>
    BY <1>3 DEF Copy
  <2>2. \E x \in Local : Moves(s, x) /\ x.up = slave[s].up
    BY <1>3, CopyEffect
  <2> QED
    BY <2>1, <2>2 DEF Upkeep, InTime
<1>4. CASE Rename(s)
  <2>1. slave[s].pc = "rename" /\ UNCHANGED row /\ Becomes(s, Idle) /\ Answer(s) /\ gz' = None
    BY <1>4 DEF Rename
  <2>2. Upkeep /\ \E x \in Local : Moves(s, x) /\ x.pc = "idle"
    BY <2>1, AnswerKeeps, IdleType, Moving
  <2> QED
    BY <2>1, <2>2
<1> QED
  BY <1>1, <1>2, <1>3, <1>4

LEMMA InTimeStep == Room /\ ~Late /\ TypeInv /\ InTime /\ [Next]_vars => InTime'
<1> SUFFICES ASSUME Room, ~Late, TypeInv, InTime, [Next]_vars PROVE InTime'
  OBVIOUS
<1>1. CASE UNCHANGED vars
  BY <1>1, QuietInTime DEF vars, Upkeep
<1>2. ASSUME NEW u \in Upload, StartUpload(u) \/ StartTransfer(u) \/ Transfer(u) \/ EndTransfer(u)
      PROVE  InTime'
  BY <1>2, StartUploadInTime, StartTransferInTime, TransferInTime, EndTransferInTime
<1>3. ASSUME NEW u \in Upload, Timeout(u) PROVE InTime'
  BY <1>3, TimeoutEffect, QuietInTime
<1>4. ASSUME NEW u \in Upload, NEW s \in Slave, CommitUpload(u, s) PROVE InTime'
  BY <1>4, CommitUploadInTime
<1>5. ASSUME NEW s \in Slave, Update(s) PROVE InTime'
  BY <1>5, UpdateInTime
<1>6. ASSUME NEW s \in Slave, Info(s) \/ Stat(s) \/ Crash(s) PROVE InTime'
  <2>1. /\ Upkeep /\ UNCHANGED <<row, src, gz, disk>>
        /\ \E x \in Local :
             Moves(s, x) /\ (x.pc = "idle" \/ (slave[s].pc \notin {"idle", "update"} /\ x.up = slave[s].up))
    BY <1>6, CallSteps
  <2> QED
    BY <2>1, QuietInTime
<1>7. ASSUME NEW s \in Slave, FOpen(s) \/ GzOpen(s) \/ Copy(s) \/ Rename(s) PROVE InTime'
  BY <1>7, FilesApart, SlaveInTime
<1>8. CASE Expire
  BY <1>8, ExpireInTime
<1>9. CASE OpenFile \/ ReadFile \/ CloseFile
  <2>1. Upkeep /\ UNCHANGED <<row, src, gz, disk, slave>>
    BY <1>9, ReaderEffect DEF Upkeep
  <2> QED
    BY <2>1, QuietInTime
<1> QED
  BY StepCases, <1>1, <1>2, <1>3, <1>4, <1>5, <1>6, <1>7, <1>8, <1>9

LEMMA InTimeInit == Init => InTime
<1> SUFFICES ASSUME Init PROVE InTime
  OBVIOUS
<1>1. row.st = "absent" /\ src = None
  BY DEF Init, NoRow
<1>2. (\A u \in Upload : up[u].pc = "idle") /\ (\A s \in Slave : slave[s].pc = "idle")
  BY IdleType DEF Init
<1> QED
  BY <1>1, <1>2 DEF InTime, Filled, Writer, Commits

-----------------------------------------------------------------------------
(* A committed file can be read.                                            *)

Whole(i, u) == Full(i, Uploaded(u)) \/ Full(i, Packed(u))

\* How far the slave has got that serves the commit.
Stage(x) ==
  /\ x.pc = "update" => row.st = "uploading"
  /\ x.pc \in {"info", "stat", "fopen", "gzopen", "copy"} => Full(src, Uploaded(row.up))
  /\ x.pc \in {"gzopen", "copy"} => x.from = src
  /\ x.pc = "copy" => x.to = gz /\ \A c \in Cells : c < x.pos => disk[gz][c] = Packed(row.up)
  /\ x.pc = "rename" => Full(gz, Packed(row.up))

\* What a reader has open is a committed file, under its name or not any longer.
ReaderOK ==
  /\ reader.inode = None => reader.seen = None
  /\ reader.inode # None =>
       /\ row.st = "committed" /\ Whole(reader.inode, row.up) /\ reader.inode # gz
       /\ reader.seen \in {None, Uploaded(row.up)}

Stages ==
  /\ \A s \in Slave : Stage(slave[s])
  /\ \A s, t \in Slave : slave[s].pc # "idle" /\ slave[t].pc # "idle" => s = t

Readable == (row.st = "committed" => Whole(src, row.up)) /\ ReaderOK /\ Stages

ReadInv == overlap \/ Readable

LEMMA WholeReading ==
  ASSUME TypeInv, NEW i, NEW u \in Upload, Whole(i, u)
  PROVE  i \in Inode /\ Reading(i) = Uploaded(u)
<1> PICK n \in 0 .. 1 : Full(i, [of |-> u, gz |-> n])
  BY DEF Whole, Uploaded, Packed
<1> PICK p \in Payload : p = [of |-> u, gz |-> n]
  BY CellType
<1>1. i \in Inode /\ disk[i][1] = p /\ \A c \in Cells : disk[i][c] = p
  BY DEF Full, Cells
<1>2. Reading(i) = [p EXCEPT !.gz = IF @ = 0 THEN 0 ELSE @ - 1]
  BY <1>1 DEF Reading
<1> PICK m : m = IF p.gz = 0 THEN 0 ELSE p.gz - 1
  OBVIOUS
<1>3. m = 0
  OBVIOUS
<1>4. Reading(i) = [p EXCEPT !.gz = m]
  BY <1>2
<1>5. Reading(i) = [of |-> u, gz |-> 0]
  BY <1>3, <1>4
<1> QED
  BY <1>1, <1>5 DEF Uploaded

\* The slave with the call is the only one.
LEMMA OnlyOne ==
  ASSUME TypeInv, Stages, NEW s \in Slave, slave[s].pc # "idle",
         NEW x \in Local, Moves(s, x), Stage(x)'
  PROVE  Stages'
<1>1. \A t \in Slave \ {s} : slave'[t].pc = "idle"
  BY DEF Stages, Moves
<1>2. slave'[s] = x
  BY DEF Moves
<1> QED
  BY <1>1, <1>2 DEF Stages, Stage

LEMMA OverlapStays == TypeInv /\ overlap /\ [Next]_vars => overlap'
<1> SUFFICES ASSUME TypeInv, overlap, [Next]_vars PROVE overlap'
  OBVIOUS
<1>1. ASSUME NEW u \in Upload, NEW s \in Slave, CommitUpload(u, s) PROVE overlap'
  BY <1>1 DEF CommitUpload
<1> QED
  BY StepCases, <1>1 DEF vars, history, StartUpload, StartTransfer, Transfer, EndTransfer, Timeout,
     Update, Info, Stat, FOpen, GzOpen, Copy, Rename, Crash, Expire, OpenFile, ReadFile, CloseFile

\* Nothing is read, and commits are at their beginning, before the file is committed.
LEMMA UncommittedReads ==
  ASSUME TypeInv', InTime, InTime', Readable, row.st # "committed", row'.st # "committed",
         UNCHANGED <<slave, reader>>
  PROVE  Readable'
<1>1. ReaderOK'
  BY DEF Readable, ReaderOK
<1>2. Stages'
  <2>0. row'.st \in {"absent", "uploading", "committed"}
    BY DEF TypeInv, Tables, Row
  <2>1. \A s \in Slave : /\ slave'[s].pc # "idle" => slave'[s].pc = "update"
                         /\ slave'[s].pc = "update" => row'.st = "uploading"
    BY <2>0 DEF InTime, Commits
  <2> QED
    BY <2>1 DEF Readable, Stages, Stage
<1> QED
  BY <1>1, <1>2 DEF Readable

LEMMA QuietReads ==
  ASSUME Readable, UNCHANGED <<row, src, gz, disk, slave, reader>>
  PROVE  Readable'
BY DEF Readable, ReaderOK, Stages, Stage, Whole, Full

LEMMA CommitUploadReads ==
  ASSUME ~Late, TypeInv, InTime, Readable, ~overlap', NEW u \in Upload, NEW s \in Slave, CommitUpload(u, s)
  PROVE  Readable'
<1>0. UNCHANGED <<row, src, gz, disk, reader>>
  BY CommitUploadInTime
<1>1. CASE UNCHANGED slave
  BY <1>0, <1>1, QuietReads
<1>2. CASE /\ row.st = "uploading" /\ row.up = u
           /\ \E x \in Local : Moves(s, x) /\ x.pc = "update" /\ x.up = u
           /\ ~overlap' => \A t \in Slave : slave[t] = Idle
  <2> PICK x \in Local : Moves(s, x) /\ x.pc = "update" /\ x.up = u
    BY <1>2
  <2>1. \A t \in Slave \ {s} : slave'[t].pc = "idle"
    BY <1>2, IdleType DEF Moves
  <2>2. Stages'
    BY <1>0, <1>2, <2>1 DEF Stages, Stage, Moves
  <2>3. ReaderOK' /\ (row'.st = "committed" => Whole(src, row.up)')
    BY <1>0 DEF Readable, ReaderOK, Whole, Full
  <2> QED
    BY <2>2, <2>3 DEF Readable
<1> QED
  BY <1>1, <1>2, CommitUploadInTime

\* Steps of a slave that leave the tables and the disk alone.
LEMMA SlaveReads ==
  ASSUME TypeInv, Readable, NEW s \in Slave, slave[s].pc # "idle",
         NEW x \in Local, Moves(s, x), Stage(x)', UNCHANGED <<row, src, gz, disk, reader>>
  PROVE  Readable'
<1>1. ReaderOK' /\ (row'.st = "committed" => Whole(src, row.up)')
  BY DEF Readable, ReaderOK, Whole, Full
<1> QED
  BY <1>1, OnlyOne DEF Readable

LEMMA UpdateReads ==
  ASSUME TypeInv, InTime, Readable, NEW s \in Slave, Update(s)
  PROVE  Readable'
<1>0. /\ row'.st = "committed" /\ row'.up = row.up /\ UNCHANGED <<src, gz, disk, reader>>
      /\ slave[s].pc = "update"
  BY UpdateInTime
<1> PICK x \in Local : Moves(s, x) /\ x.pc = "info"
  BY UpdateInTime
<1>1. row.st = "uploading"
  BY <1>0 DEF Readable, Stages, Stage
<1>2. Full(src, Uploaded(row.up))'
  <2>1. Full(src, Uploaded(row.up))
    BY <1>1, UpdateInTime
  <2> QED
    BY <1>0, <2>1 DEF Full
<1>3. Stage(x)'
  BY <1>2 DEF Stage
<1>4. Stages'
  BY <1>0, <1>3, OnlyOne DEF Readable
<1>5. ReaderOK' /\ Whole(src, row.up)'
  BY <1>0, <1>1, <1>2 DEF Readable, ReaderOK, Whole
<1> QED
  BY <1>4, <1>5 DEF Readable

LEMMA CallReads ==
  ASSUME TypeInv, InTime, Readable, NEW s \in Slave, Info(s) \/ Stat(s) \/ Crash(s)
  PROVE  Readable'
<1>0. slave[s].pc # "idle" /\ UNCHANGED <<row, src, gz, disk, reader>> /\ Stage(slave[s])
  BY CallSteps DEF Readable, Stages
<1> PICK x \in Local :
      /\ Moves(s, x)
      /\ x.pc = "idle" \/ (slave[s].pc \in {"info", "stat"} /\ x.pc \in {"stat", "fopen"})
  BY CallSteps
<1>1. Stage(x)'
  BY <1>0 DEF Stage, Full
<1> QED
  BY <1>0, <1>1, SlaveReads

LEMMA FOpenReads ==
  ASSUME TypeInv, Readable, NEW s \in Slave, FOpen(s)
  PROVE  Readable'
<1>0. slave[s].pc = "fopen" /\ Stage(slave[s]) /\ UNCHANGED <<row, src, gz, disk, up, reader>>
  BY DEF FOpen, Readable, Stages
<1> PICK x \in Local : Moves(s, x) /\ x.pc = "gzopen" /\ x.from = src
  BY FOpenEffect
<1>1. Stage(x)'
  BY <1>0 DEF Stage, Full
<1> QED
  BY <1>0, <1>1, SlaveReads

\* A slave that writes to the compressed file touches neither the file nor what a
\* reader has open.
LEMMA WritingReads ==
  ASSUME TypeInv, InTime, Readable, NEW s \in Slave, slave[s].pc \in {"gzopen", "copy"},
         NEW x \in Local, Moves(s, x), Stage(x)',
         UNCHANGED <<row, src, reader>>, gz' \in Inode, gz' # src, gz' # reader.inode,
         \A k \in Inode \ {gz'} : disk'[k] = disk[k]
  PROVE  Readable'
<1>0. row.st = "committed" /\ Whole(src, row.up)
  BY DEF InTime, Commits, Readable
<1>1. Stages'
  BY OnlyOne DEF Readable
<1>2. Whole(src, row.up)'
  BY <1>0 DEF Whole, Full
<1>3. ReaderOK'
  BY DEF Readable, ReaderOK, Whole, Full
<1> QED
  BY <1>1, <1>2, <1>3 DEF Readable

LEMMA GzOpenReads ==
  ASSUME Room, TypeInv, InTime, Readable, NEW s \in Slave, GzOpen(s)
  PROVE  Readable'
<1>0. /\ slave[s].pc = "gzopen" /\ Stage(slave[s]) /\ slave[s].pos = 1
      /\ UNCHANGED <<row, src, up, reader>>
  BY LocalType DEF GzOpen, Readable, Stages, Serving
<1>1. /\ gz' = Opened(gz) /\ gz' \in Inode /\ \A k \in Inode \ {gz'} : disk'[k] = disk[k]
  BY GzOpenEffect
<1> PICK x \in Local : /\ Moves(s, x) /\ x.pc = "copy" /\ x.from = slave[s].from
                       /\ x.up = slave[s].up /\ x.pos = slave[s].pos /\ x.to = gz'
  BY GzOpenEffect
<1>2. Full(src, Uploaded(row.up)) /\ src # None
  BY <1>0, FileDataAssumption DEF Stage, Full, Inode
<1>3. gz' # src /\ gz' # reader.inode
  <2>1. reader.inode \in Open
    BY DEF Open
  <2>2. reader.inode # None => reader.inode # gz
    BY DEF Readable, ReaderOK
  <2>3. gz' # None
    BY <1>1, FileDataAssumption DEF Inode
  <2>4. gz' # src
    BY <1>0, <1>2, FilesApart
  <2> QED
    BY <1>1, <2>1, <2>2, <2>3, <2>4, OpenedInode
<1>4. Stage(x)'
  BY <1>0, <1>1, <1>2, <1>3 DEF Stage, Full, Cells
<1> QED
  BY <1>0, <1>1, <1>3, <1>4, WritingReads

LEMMA CopyReads ==
  ASSUME TypeInv, InTime, Readable, NEW s \in Slave, Copy(s)
  PROVE  Readable'
<1>0. /\ slave[s].pc = "copy" /\ Stage(slave[s]) /\ UNCHANGED <<row, src, gz, up, reader>>
  BY DEF Copy, Readable, Stages
<1> PICK x \in Local :
      /\ Moves(s, x) /\ x.up = slave[s].up
      /\ \/ /\ slave[s].pos = 1 /\ x.pc = "copy" /\ x.pos = 2
            /\ x.from = slave[s].from /\ x.to = slave[s].to
         \/ slave[s].pos = 2 /\ x.pc = "rename" /\ x.pos = 1 /\ x.from = None /\ x.to = None
  BY CopyEffect
<1> PICK u \in Upload : u = row.up
  BY <1>0 DEF InTime, Commits, TypeInv, Tables
<1>1. /\ slave[s].to = gz /\ slave[s].from = src /\ Full(src, Uploaded(u)) /\ gz \in Inode
      /\ slave[s].pos \in Cells
  BY <1>0, CopyEffect DEF Stage
<1>2. gz # src /\ gz # reader.inode
  BY <1>1, FileDataAssumption DEF InTime, Readable, ReaderOK, Full, Inode
<1>3. /\ disk'[gz][slave[s].pos] = Packed(u)
      /\ \A d \in Cells \ {slave[s].pos} : disk'[gz][d] = disk[gz][d]
      /\ \A k \in Inode \ {gz} : disk'[k] = disk[k]
  <2>1. disk[src][slave[s].pos] = Uploaded(u)
    BY <1>1 DEF Full
  <2>2. Compressed(disk[src][slave[s].pos]) = Packed(u)
    BY <2>1, CompressedType DEF Packed
  <2> QED
    BY <1>1, <2>2, CopyEffect
<1>4. \A c \in Cells : c <= slave[s].pos => disk'[gz][c] = Packed(u)
  BY <1>0, <1>1, <1>3 DEF Stage, Cells
<1>5. Stage(x)'
  <2>1. Full(src, Uploaded(row.up))'
    BY <1>0, <1>1, <1>2, <1>3 DEF Full
  <2>2. CASE x.pc = "copy"
    <3>1. \A c \in Cells : c < x.pos => disk'[gz][c] = Packed(u)
      BY <1>4, <2>2 DEF Cells
    <3> QED
      BY <1>0, <1>1, <2>1, <2>2, <3>1 DEF Stage
  <2>3. CASE x.pc = "rename"
    <3>1. Full(gz, Packed(row.up))'
      BY <1>0, <1>1, <1>4, <2>3 DEF Full, Cells
    <3> QED
      BY <1>0, <2>3, <3>1 DEF Stage
  <2> QED
    BY <2>2, <2>3
<1> QED
  BY <1>0, <1>1, <1>2, <1>3, <1>5, WritingReads

LEMMA RenameReads ==
  ASSUME TypeInv, InTime, Readable, NEW s \in Slave, Rename(s)
  PROVE  Readable'
<1>0. /\ slave[s].pc = "rename" /\ Becomes(s, Idle) /\ gz' = None
      /\ src' = (IF gz = None THEN src ELSE gz) /\ Stage(slave[s])
      /\ UNCHANGED <<row, disk, reader>>
  BY DEF Rename, Readable, Stages
<1> PICK x \in Local : x = Idle /\ x.pc = "idle" /\ Moves(s, x)
  BY <1>0, IdleType, Moving
<1>1. Full(gz, Packed(row.up)) /\ src' = gz
  BY <1>0, FileDataAssumption DEF Stage, Full, Inode
<1>2. Stages'
  <2>1. Stage(x)'
    BY DEF Stage
  <2> QED
    BY <1>0, <2>1, OnlyOne DEF Readable
<1>3. Whole(src, row.up)'
  BY <1>0, <1>1 DEF Whole, Full
<1>4. ReaderOK'
  BY <1>0 DEF Readable, ReaderOK, Whole, Full
<1> QED
  BY <1>2, <1>3, <1>4 DEF Readable

LEMMA ReaderReads ==
  ASSUME TypeInv, InTime, Readable, OpenFile \/ ReadFile \/ CloseFile
  PROVE  Readable'
<1>0. UNCHANGED <<row, src, gz, disk, up, slave>>
  BY ReaderEffect DEF history
<1>1. ReaderOK'
  <2>1. CASE row.st = "committed" /\ src # None /\ reader'.inode = src /\ reader'.seen = None
    BY <1>0, <2>1 DEF InTime, Readable, ReaderOK, Whole, Full
  <2>2. CASE /\ reader.inode # None /\ reader'.inode = reader.inode
             /\ reader'.seen = Reading(reader.inode)
    <3>1. row.st = "committed" /\ row.up \in Upload /\ Whole(reader.inode, row.up) /\ reader.inode # gz
      BY <2>2 DEF Readable, ReaderOK, TypeInv, Tables
    <3>2. reader'.seen = Uploaded(row.up)
      BY <2>2, <3>1, WholeReading
    <3> QED
      BY <1>0, <2>2, <3>1, <3>2 DEF ReaderOK, Whole, Full
  <2>3. CASE reader'.inode = None /\ reader'.seen = None
    BY <2>3 DEF ReaderOK
  <2> QED
    BY <2>1, <2>2, <2>3, ReaderEffect
<1>2. Stages' /\ (row'.st = "committed" => Whole(src, row.up)')
  BY <1>0 DEF Readable, Stages, Stage, Whole, Full
<1> QED
  BY <1>1, <1>2 DEF Readable

LEMMA ReadStep == Room /\ ~Late /\ TypeInv /\ InTime /\ ReadInv /\ [Next]_vars => ReadInv'
<1> SUFFICES ASSUME Room, ~Late, TypeInv, InTime, ReadInv, [Next]_vars, ~overlap' PROVE Readable'
  BY DEF ReadInv
<1>0. Readable /\ TypeInv' /\ InTime'
  BY OverlapStays, TypeStep, InTimeStep DEF ReadInv
<1>1. CASE UNCHANGED vars
  BY <1>0, <1>1, QuietReads DEF vars
<1>2. ASSUME NEW u \in Upload, StartUpload(u) \/ StartTransfer(u) \/ Transfer(u) \/ EndTransfer(u)
      PROVE  Readable'
  <2>1. row'.st # "committed" /\ row.st # "committed" /\ UNCHANGED <<slave, reader>>
    BY <1>2, StartUploadInTime, StartTransferInTime, TransferInTime, EndTransferInTime
  <2> QED
    BY <1>0, <2>1, UncommittedReads
<1>3. ASSUME NEW u \in Upload, Timeout(u) PROVE Readable'
  BY <1>0, <1>3, TimeoutEffect, QuietReads
<1>4. ASSUME NEW u \in Upload, NEW s \in Slave, CommitUpload(u, s) PROVE Readable'
  BY <1>0, <1>4, CommitUploadReads
<1>5. ASSUME NEW s \in Slave,
             \/ Update(s) \/ Info(s) \/ Stat(s) \/ FOpen(s) \/ GzOpen(s)
             \/ Copy(s) \/ Rename(s) \/ Crash(s)
      PROVE  Readable'
  BY <1>0, <1>5, UpdateReads, CallReads, FOpenReads, GzOpenReads, CopyReads, RenameReads
<1>6. CASE Expire
  BY <1>0, <1>6, ExpireInTime, UncommittedReads
<1>7. CASE OpenFile \/ ReadFile \/ CloseFile
  BY <1>0, <1>7, ReaderReads
<1> QED
  BY StepCases, <1>1, <1>2, <1>3, <1>4, <1>5, <1>6, <1>7

LEMMA ReadInit == Init => ReadInv
<1> SUFFICES ASSUME Init PROVE Readable
  BY DEF ReadInv
<1>1. row.st = "absent" /\ reader.inode = None /\ reader.seen = None
  BY DEF Init, NoRow, NotReading
<1>2. \A s \in Slave : slave[s].pc = "idle"
  BY IdleType DEF Init
<1> QED
  BY <1>1, <1>2 DEF Readable, ReaderOK, Stages, Stage

\* What a reader gets of a committed file is what was uploaded, for any number of
\* uploads, clients and slaves, between any two steps of the compression
\* (glite_jppsbe_compress_and_remove_file) and wherever a slave dies in it, when the
\* upload is over before its deadline and its commit is not repeated meanwhile.
THEOREM CommittedFilesAreReadable ==
  ASSUME Room
  PROVE  Spec => []CommittedReadable
<1>1. CASE Late
  <2>1. CommittedReadable
    BY <1>1 DEF CommittedReadable
  <2> QED
    BY <2>1, PTL
<1>2. CASE ~Late
  <2>1. TypeInv /\ ReadInv => CommittedReadable
    <3> SUFFICES ASSUME TypeInv, ReadInv, row.st = "committed", ~overlap
                 PROVE  /\ src # None /\ Reading(src) = Uploaded(row.up)
                        /\ reader.seen \in {None, Uploaded(row.up)}
      BY DEF CommittedReadable
    <3>1. row.up \in Upload /\ Whole(src, row.up)
      BY DEF ReadInv, Readable, TypeInv, Tables
    <3>2. src \in Inode /\ Reading(src) = Uploaded(row.up)
      BY <3>1, WholeReading
    <3>3. src # None
      BY <3>2, FileDataAssumption DEF Inode
    <3> QED
      BY <3>2, <3>3 DEF ReadInv, Readable, ReaderOK
  <2>2. TypeInv /\ InTime /\ ReadInv /\ [Next]_vars => TypeInv' /\ InTime' /\ ReadInv'
    BY <1>2, TypeStep, InTimeStep, ReadStep
  <2>3. Init => TypeInv /\ InTime /\ ReadInv
    BY TypeInit, InTimeInit, ReadInit
  <2> QED
    BY <2>1, <2>2, <2>3, PTL DEF Spec
<1> QED
  BY <1>1, <1>2

-----------------------------------------------------------------------------
(* Overlapping commits.  A client that repeats its call once has two slaves *)
(* at most at work for it.                                                  *)

Apart(r, s, t) == r # s /\ r # t /\ s # t

\* Every slave that serves an upload has got a call of its own.
Counted(u) ==
  /\ \A s \in Slave : slave[s].up = u => up[u].calls >= 1
  /\ \A s, t \in Slave : s # t /\ slave[s].up = u /\ slave[t].up = u => up[u].calls >= 2
  /\ \A r, s, t \in Slave :
       Apart(r, s, t) /\ slave[r].up = u /\ slave[s].up = u /\ slave[t].up = u => up[u].calls >= 3

AllCounted == \A u \in Upload : Counted(u)

SameCalls == \A u \in Upload : up'[u].calls = up[u].calls

LEMMA PcCalls ==
  ASSUME TypeInv, NEW u \in Upload, NEW l, up' = [up EXCEPT ![u].pc = l]
  PROVE  SameCalls
BY DEF TypeInv, Up, SameCalls

LEMMA CallsStay ==
  ASSUME TypeInv,
         \/ UNCHANGED up
         \/ \E u \in Upload :
              StartUpload(u) \/ StartTransfer(u) \/ Transfer(u) \/ EndTransfer(u) \/ Timeout(u)
         \/ \E s \in Slave : slave[s].pc # "idle" /\ Answer(s)
  PROVE  SameCalls
<1>1. CASE UNCHANGED up
  BY <1>1 DEF SameCalls
<1>2. ASSUME NEW u \in Upload, StartUpload(u) \/ Timeout(u) PROVE SameCalls
  <2>1. \E l : up' = [up EXCEPT ![u].pc = l]
    BY <1>2 DEF StartUpload, Timeout
  <2> QED
    BY <2>1, PcCalls
<1>3. ASSUME NEW u \in Upload, StartTransfer(u) \/ EndTransfer(u) PROVE SameCalls
  <2>1. ASSUME NEW l, NEW i, NEW n, up' = [up EXCEPT ![u].pc = l, ![u].inode = i, ![u].pos = n]
        PROVE  SameCalls
    BY <2>1 DEF TypeInv, Up, SameCalls
  <2>2. CASE StartTransfer(u)
    BY <2>1, <2>2 DEF StartTransfer
  <2>3. CASE EndTransfer(u)
    BY <2>1, <2>3 DEF EndTransfer
  <2> QED
    BY <1>3, <2>2, <2>3
<1>4. ASSUME NEW u \in Upload, Transfer(u) PROVE SameCalls
  BY <1>4 DEF Transfer, TypeInv, Up, SameCalls
<1>5. ASSUME NEW s \in Slave, slave[s].pc # "idle", Answer(s) PROVE SameCalls
  <2> PICK u \in Upload : u = slave[s].up
    BY <1>5, LocalType DEF Serving
  <2>1. \E l : up' = [up EXCEPT ![u].pc = l]
    BY <1>5 DEF Answer
  <2> QED
    BY <2>1, PcCalls
<1> QED
  BY <1>1, <1>2, <1>3, <1>4, <1>5

LEMMA SameCounted ==
  ASSUME TypeInv, AllCounted, SameCalls, \A s \in Slave : slave'[s].up \in {slave[s].up, None}
  PROVE  AllCounted'
<1>1. \A u \in Upload, s \in Slave : slave'[s].up = u => slave[s].up = u
  BY FileDataAssumption
<1> QED
  BY <1>1 DEF AllCounted, Counted, SameCalls

LEMMA CommitUploadCounted ==
  ASSUME TypeInv, AllCounted, NEW u \in Upload, NEW s \in Slave, CommitUpload(u, s)
  PROVE  AllCounted'
<1>1. CASE AuthzWrite(ClientOf[u])
  <2> PICK x \in Local : Moves(s, x) /\ x.up = u
    BY <1>1, CommitUploadEffect
  <2>1. slave[s].up = None /\ \A t \in Slave \ {s} : slave'[t] = slave[t]
    BY IdleType DEF CommitUpload, Moves
  <2>2. up'[u].calls = up[u].calls + 1 /\ \A v \in Upload \ {u} : up'[v].calls = up[v].calls
    <3> PICK l, n : n = up[u].calls + 1 /\ up' = [up EXCEPT ![u].pc = l, ![u].calls = n]
      BY <1>1 DEF CommitUpload, TypeInv
    <3> QED
      BY DEF TypeInv, Up
  <2>3. ASSUME NEW v \in Upload \ {u} PROVE Counted(v)'
    <3>1. \A t \in Slave : slave'[t].up = v => slave[t].up = v
      BY <2>1 DEF Moves
    <3> QED
      BY <2>2, <3>1 DEF AllCounted, Counted
  <2>4. Counted(u)'
    <3>1. up[u].calls \in Nat
      BY UpType
    <3>2. \A t \in Slave : t # s /\ slave'[t].up = u => slave[t].up = u /\ up[u].calls >= 1
      BY <2>1 DEF AllCounted, Counted
    <3>3. \A q, t \in Slave : Apart(q, t, s) /\ slave'[q].up = u /\ slave'[t].up = u => up[u].calls >= 2
      BY <2>1, <3>2 DEF AllCounted, Counted, Apart
    <3>4. \A q, r, t \in Slave :
            Apart(q, r, t) /\ s \notin {q, r, t} /\ slave'[q].up = u /\ slave'[r].up = u /\ slave'[t].up = u
              => up[u].calls >= 3
      BY <2>1, <3>2 DEF AllCounted, Counted
    <3>5. up'[u].calls >= 1
      BY <2>2, <3>1
    <3>6. \A q, t \in Slave : q # t /\ slave'[q].up = u /\ slave'[t].up = u => up'[u].calls >= 2
      BY <2>2, <3>1, <3>2
    <3>7. \A q, r, t \in Slave :
            Apart(q, r, t) /\ slave'[q].up = u /\ slave'[r].up = u /\ slave'[t].up = u
              => up'[u].calls >= 3
      BY <2>2, <3>1, <3>3, <3>4 DEF Apart
    <3> QED
      BY <3>5, <3>6, <3>7 DEF Counted
  <2> QED
    BY <2>3, <2>4 DEF AllCounted
<1>2. CASE ~AuthzWrite(ClientOf[u])
  <2> PICK l : l = "idle"
    OBVIOUS
  <2>1. up' = [up EXCEPT ![u].pc = l] /\ UNCHANGED slave
    BY <1>2 DEF CommitUpload
  <2> QED
    BY <2>1, PcCalls, SameCounted
<1> QED
  BY <1>1, <1>2

LEMMA CountedStep == Room /\ TypeInv /\ AllCounted /\ [Next]_vars => AllCounted'
<1> SUFFICES ASSUME Room, TypeInv, AllCounted, [Next]_vars PROVE AllCounted'
  OBVIOUS
<1>1. CASE \/ UNCHANGED vars \/ Expire \/ OpenFile \/ ReadFile \/ CloseFile
           \/ \E u \in Upload :
                StartUpload(u) \/ StartTransfer(u) \/ Transfer(u) \/ EndTransfer(u) \/ Timeout(u)
  <2>1. UNCHANGED slave
    BY <1>1 DEF vars, Expire, OpenFile, ReadFile, CloseFile, StartUpload, StartTransfer, Transfer,
       EndTransfer, Timeout
  <2>2. SameCalls
    BY <1>1, CallsStay DEF vars, Expire, OpenFile, ReadFile, CloseFile
  <2> QED
    BY <2>1, <2>2, SameCounted
<1>2. ASSUME NEW u \in Upload, NEW s \in Slave, CommitUpload(u, s) PROVE AllCounted'
  BY <1>2, CommitUploadCounted
<1>3. ASSUME NEW s \in Slave,
             \/ Update(s) \/ Info(s) \/ Stat(s) \/ FOpen(s) \/ GzOpen(s)
             \/ Copy(s) \/ Rename(s) \/ Crash(s)
      PROVE  AllCounted'
  <2>1. SameCalls
    <3>1. UNCHANGED up \/ (slave[s].pc # "idle" /\ Answer(s))
      BY <1>3 DEF Update, Info, Stat, FOpen, GzOpen, Copy, Rename, Crash
    <3> QED
      BY <3>1, CallsStay
  <2>2. \E x \in Local : Moves(s, x) /\ x.up \in {slave[s].up, None}
    <3>1. CASE \E l \in {"info", "stat", "fopen"} : To(s, l)
      BY <3>1, ToEffect
    <3>2. CASE Becomes(s, Idle)
      BY <3>2, IdleType, Moving
    <3>3. CASE FOpen(s) \/ GzOpen(s) \/ Copy(s)
      BY <3>3, FOpenEffect, GzOpenEffect, CopyEffect
    <3>4. \/ \E l \in {"info", "stat", "fopen"} : To(s, l)
          \/ Becomes(s, Idle) \/ FOpen(s) \/ GzOpen(s) \/ Copy(s)
      BY <1>3 DEF Update, Info, Stat, Rename, Crash, To
    <3> QED
      BY <3>1, <3>2, <3>3, <3>4
  <2>3. \A t \in Slave : slave'[t].up \in {slave[t].up, None}
    BY <2>2 DEF Moves
  <2> QED
    BY <2>1, <2>3, SameCounted
<1> QED
  BY StepCases, <1>1, <1>2, <1>3

LEMMA CountedInit == Init => AllCounted
<1> SUFFICES ASSUME Init PROVE AllCounted
  OBVIOUS
<1>1. \A s \in Slave : slave[s].up = None
  BY IdleType DEF Init
<1> QED
  BY <1>1, FileDataAssumption DEF AllCounted, Counted

\* Two slaves are at work at most.
LEMMA NoThird ==
  ASSUME TypeInv, InTime, AllCounted, MaxCalls <= 2, NEW r \in Slave, NEW s \in Slave, NEW t \in Slave,
         Apart(r, s, t), slave[r].pc # "idle", slave[s].pc # "idle"
  PROVE  slave[t] = Idle
<1> SUFFICES ASSUME slave[t].pc # "idle" PROVE FALSE
  BY LocalType DEF Serving
<1>1. /\ slave[r].up = row.up /\ slave[s].up = row.up /\ slave[t].up = row.up /\ row.up \in Upload
  BY LocalType DEF InTime, Commits, Serving
<1>2. up[row.up].calls >= 3
  BY <1>1 DEF AllCounted, Counted
<1>3. up[row.up].calls \in 0 .. MaxCalls /\ MaxCalls \in Nat
  BY <1>1, UpType, FileDataAssumption
<1> QED
  BY <1>2, <1>3

-----------------------------------------------------------------------------
(* Overlapping commits do not lose the data.                                *)

Level(u, n) == [of |-> u, gz |-> n]

\* The beginning of a file, before cell n.
Begun(i, p, n) == \A c \in Cells : c < n => disk[i][c] = p

\* Nobody has renamed yet: slaves compress the file as it was uploaded, into one file,
\* which is complete once the last of them is through with it.
First ==
  /\ Full(src, Level(row.up, 0))
  /\ \A s \in Slave :
       /\ slave[s].pc \in {"gzopen", "copy"} => slave[s].from = src
       /\ slave[s].pc = "copy" => slave[s].to = gz
  /\ (\E s \in Slave : slave[s].pc \in {"copy", "rename"}) =>
       \/ Full(gz, Level(row.up, 1))
       \/ \E t \in Slave : slave[t].pc = "copy" /\ Begun(gz, Level(row.up, 1), slave[t].pos)

\* What the slave that is left does when the other one has renamed: it compresses the
\* file once more, or goes on writing what has become the file, from the original.
Left(x) ==
  /\ x.pc = "idle" => Full(src, Level(row.up, 1)) \/ Full(src, Level(row.up, 2))
  /\ x.pc \in {"update", "info", "stat", "fopen"} => Full(src, Level(row.up, 1)) /\ gz = None
  /\ x.pc = "gzopen" =>
       Full(src, Level(row.up, 1)) /\ gz = None /\ \E m \in 0 .. 1 : Full(x.from, Level(row.up, m))
  /\ x.pc = "copy" =>
       /\ x.from # x.to
       /\ \/ /\ x.to = gz /\ Full(src, Level(row.up, 1))
             /\ \E m \in 0 .. 1 :
                  Full(x.from, Level(row.up, m)) /\ Begun(gz, Level(row.up, m + 1), x.pos)
          \/ /\ x.to = src /\ gz = None /\ Full(x.from, Level(row.up, 0))
             /\ Begun(src, Level(row.up, 1), x.pos)
  /\ x.pc = "rename" =>
       \/ gz = None /\ Full(src, Level(row.up, 1))
       \/ Full(gz, Level(row.up, 1)) \/ Full(gz, Level(row.up, 2))

Second ==
  \E s, t \in Slave : s # t /\ (\A r \in Slave \ {s} : slave[r] = Idle) /\ Left(slave[s])

Done == Full(src, Level(row.up, 1)) /\ Slave # {} /\ \A s \in Slave : slave[s] = Idle

Kept == First \/ Second \/ Done

KeptInv == crashes > 0 \/ (row.st = "committed" => Kept)

LEMMA CompressedLevel ==
  ASSUME NEW u \in Upload, NEW m \in Nat
  PROVE  Compressed(Level(u, m)) = Level(u, m + 1)
<1> PICK p \in Payload : p = Level(u, m) /\ p = [of |-> u, gz |-> m]
  BY CellType DEF Level
<1> PICK n \in Nat : n = m + 1
  OBVIOUS
<1>1. p.gz = m /\ p.of = u
  OBVIOUS
<1>2. Compressed(p) = [p EXCEPT !.gz = n]
  BY <1>1 DEF Compressed
<1>3. Compressed(p) = [of |-> u, gz |-> n]
  BY <1>2
<1> QED
  BY <1>3 DEF Level

\* A cell that is copied from a complete file.
LEMMA CopyCell ==
  ASSUME TypeInv, NEW s \in Slave, Copy(s), NEW u \in Upload, NEW m \in Nat,
         NEW i, i = slave[s].to, NEW q, q = Level(u, m + 1),
         Full(slave[s].from, Level(u, m)), slave[s].from # i
  PROVE  /\ Full(i, q) => Full(i, q)'
         /\ \A n \in 1 .. 3 : Begun(i, q, n) => Begun(i, q, n)'
         /\ Begun(i, q, slave[s].pos) => /\ slave[s].pos = 1 => Begun(i, q, 2)'
                                         /\ slave[s].pos = 2 => Full(i, q)'
<1>1. i \in Inode /\ slave[s].from \in Inode /\ slave[s].pos \in Cells
  BY CopyEffect
<1>2. disk'[i][slave[s].pos] = q
  <2>1. disk[slave[s].from][slave[s].pos] = Level(u, m)
    BY <1>1 DEF Full
  <2>2. disk'[i][slave[s].pos] = Compressed(disk[slave[s].from][slave[s].pos])
    BY CopyEffect
  <2> QED
    BY <2>1, <2>2, CompressedLevel
<1>3. \A d \in Cells \ {slave[s].pos} : disk'[i][d] = disk[i][d]
  BY CopyEffect
<1>4. Full(i, q) => Full(i, q)'
  BY <1>1, <1>2, <1>3 DEF Full
<1>5. \A n \in 1 .. 3 : Begun(i, q, n) => Begun(i, q, n)'
  BY <1>1, <1>2, <1>3 DEF Begun
<1>6. Begun(i, q, slave[s].pos) => /\ slave[s].pos = 1 => Begun(i, q, 2)'
                                   /\ slave[s].pos = 2 => Full(i, q)'
  BY <1>1, <1>2, <1>3 DEF Begun, Full, Cells
<1> QED
  BY <1>4, <1>5, <1>6

\* The slave that moves is the one that is left.
LEMMA LeftMoves ==
  ASSUME Second, NEW s \in Slave, slave[s].pc # "idle"
  PROVE  /\ Left(slave[s])
         /\ \A x \in Local : Moves(s, x) /\ Left(x)' => Second'
<1> PICK q, t \in Slave : q # t /\ (\A r \in Slave \ {q} : slave[r] = Idle) /\ Left(slave[q])
  BY DEF Second
<1>1. q = s
  BY IdleType
<1>2. ASSUME NEW x \in Local, Moves(s, x), Left(x)' PROVE Second'
  <2>1. \A r \in Slave \ {s} : slave'[r] = Idle
    BY <1>1, <1>2 DEF Moves
  <2>2. Left(slave[s])'
    BY <1>2 DEF Moves, Left
  <2> QED
    BY <1>1, <2>1, <2>2 DEF Second
<1> QED
  BY <1>1, <1>2

LEMMA QuietKept ==
  ASSUME Kept, row'.up = row.up, UNCHANGED <<src, gz, disk, slave>>
  PROVE  Kept'
BY SMTT(30) DEF Kept, First, Second, Left, Done, Full, Begun

\* A slave that has not come to compressing goes on or ends.
LEMMA BeforeKept ==
  ASSUME Kept, NEW s \in Slave, slave[s].pc \in {"update", "info", "stat"}, NEW x \in Local, Moves(s, x),
         x.pc \in {"idle", "info", "stat", "fopen"}, row'.up = row.up, UNCHANGED <<src, gz, disk>>
  PROVE  Kept'
<1>0. \A r \in Slave : slave'[r].pc \in {"gzopen", "copy", "rename"} => r # s
  BY DEF Moves
<1>1. CASE First
  <2>1. First'
    BY <1>0, <1>1 DEF First, Full, Begun, Moves
  <2> QED
    BY <2>1 DEF Kept
<1>2. CASE Second
  <2>1. Full(src, Level(row.up, 1)) /\ gz = None
    BY <1>2, LeftMoves DEF Left
  <2>2. Left(x)'
    BY <2>1 DEF Left, Full
  <2> QED
    BY <1>2, <2>2, LeftMoves DEF Kept
<1>3. CASE Done
  BY <1>3, IdleType DEF Done
<1> QED
  BY <1>1, <1>2, <1>3 DEF Kept

LEMMA UpdateKept ==
  ASSUME TypeInv, InTime, row.st = "committed" => Kept, NEW s \in Slave, Update(s)
  PROVE  Kept'
<1>0. /\ row'.up = row.up /\ row.st # "absent" /\ UNCHANGED <<src, gz, disk>> /\ slave[s].pc = "update"
  BY UpdateInTime
<1> PICK x \in Local : Moves(s, x) /\ x.pc = "info"
  BY UpdateInTime
<1>1. CASE row.st = "committed"
  BY <1>0, <1>1, BeforeKept
<1>2. CASE row.st = "uploading"
  <2>1. Full(src, Uploaded(row.up))
    BY <1>2, UpdateInTime
  <2>2. Full(src, Level(row.up, 0))'
    BY <1>0, <2>1 DEF Full, Level, Uploaded
  <2>3. \A t \in Slave : slave'[t].pc \in {"idle", "update", "info"}
    BY <1>2 DEF InTime, Commits, Moves
  <2>4. First'
    BY <2>2, <2>3 DEF First
  <2> QED
    BY <2>4 DEF Kept
<1> QED
  BY <1>0, <1>1, <1>2 DEF TypeInv, Tables, Row

LEMMA CallKept ==
  ASSUME TypeInv, InTime, Kept, NEW s \in Slave, Info(s) \/ Stat(s)
  PROVE  Kept'
<1>0. slave[s].pc \in {"info", "stat"} /\ UNCHANGED <<row, src, gz, disk>>
  BY DEF Info, Stat
<1>1. \E x \in Local : Moves(s, x) /\ x.pc \in {"idle", "stat", "fopen"}
  BY CallSteps
<1> QED
  BY <1>0, <1>1, BeforeKept

LEMMA FOpenKept ==
  ASSUME TypeInv, Kept, NEW s \in Slave, FOpen(s)
  PROVE  Kept'
<1>0. slave[s].pc = "fopen" /\ UNCHANGED <<row, src, gz, disk>>
  BY DEF FOpen
<1> PICK x \in Local : Moves(s, x) /\ x.pc = "gzopen" /\ x.from = src
  BY FOpenEffect
<1>1. CASE First
  <2>1. \A t \in Slave \ {s} : slave'[t] = slave[t]
    BY DEF Moves
  <2>2. slave'[s] = x
    BY DEF Moves
  <2>3. First'
    BY <1>0, <1>1, <2>1, <2>2 DEF First, Full, Begun
  <2> QED
    BY <2>3 DEF Kept
<1>2. CASE Second
  <2>1. Full(src, Level(row.up, 1)) /\ gz = None
    BY <1>0, <1>2, LeftMoves DEF Left
  <2>2. Full(x.from, Level(row.up, 1))'
    BY <1>0, <2>1 DEF Full
  <2>3. Left(x)'
    BY <1>0, <2>1, <2>2 DEF Left, Full
  <2> QED
    BY <1>0, <1>2, <2>3, LeftMoves DEF Kept
<1>3. CASE Done
  BY <1>0, <1>3, IdleType DEF Done
<1> QED
  BY <1>1, <1>2, <1>3 DEF Kept

LEMMA InodeNotNone == None \notin Inode
BY FileDataAssumption DEF Inode

LEMMA GzOpenKept ==
  ASSUME Room, TypeInv, InTime, Kept, NEW s \in Slave, GzOpen(s)
  PROVE  Kept'
<1>0. /\ slave[s].pc = "gzopen" /\ slave[s].pos = 1 /\ UNCHANGED <<row, src>>
  BY LocalType DEF GzOpen, Serving
<1>1. gz' = Opened(gz) /\ gz' \in Inode /\ \A k \in Inode \ {gz'} : disk'[k] = disk[k]
  BY GzOpenEffect
<1> PICK x \in Local : /\ Moves(s, x) /\ x.pc = "copy" /\ x.from = slave[s].from
                       /\ x.up = slave[s].up /\ x.pos = slave[s].pos /\ x.to = gz'
  BY GzOpenEffect
<1>2. src \in Inode => src # gz'
  BY <1>0, FilesApart, InodeNotNone
<1>3. \A p : Begun(gz, p, x.pos)'
  BY <1>0 DEF Begun, Cells
<1>4. CASE First
  <2>1. Full(src, Level(row.up, 0))'
    BY <1>0, <1>1, <1>2, <1>4 DEF First, Full
  <2>2. slave'[s] = x /\ \A t \in Slave \ {s} : slave'[t] = slave[t]
    BY DEF Moves
  <2>3. \A t \in Slave : slave[t].pc = "copy" => slave[t].to = gz'
    <3> SUFFICES ASSUME NEW t \in Slave, slave[t].pc = "copy" PROVE slave[t].to = gz'
      OBVIOUS
    <3>1. slave[t].to = gz /\ slave[t].to # None
      BY <1>4, LocalType DEF First, Serving
    <3> QED
      BY <1>1, <3>1 DEF Opened
  <2>4. ASSUME NEW t \in Slave
        PROVE  /\ slave'[t].pc \in {"gzopen", "copy"} => slave'[t].from = src'
               /\ slave'[t].pc = "copy" => slave'[t].to = gz'
    BY <1>0, <1>4, <2>2, <2>3 DEF First
  <2>5. slave'[s].pc = "copy" /\ Begun(gz, Level(row.up, 1), slave[s].pos)'
    BY <1>3, <2>2 DEF Begun
  <2>6. First'
    BY <2>1, <2>4, <2>5 DEF First
  <2> QED
    BY <2>6 DEF Kept
<1>5. CASE Second
  <2>1. Full(src, Level(row.up, 1)) /\ gz = None /\ Left(slave[s])
    BY <1>0, <1>5, LeftMoves DEF Left
  <2> PICK m \in 0 .. 1 : Full(slave[s].from, Level(row.up, m))
    BY <1>0, <2>1 DEF Left
  <2>2. x.from \in Inode /\ x.from # x.to
    <3>1. x.from \in Open /\ gz' \notin Open
      BY <1>1, <2>1, OpenedInode DEF Open
    <3> QED
      BY <3>1 DEF Full
  <2>3. Full(src, Level(row.up, 1))' /\ Full(x.from, Level(row.up, m))'
    BY <1>0, <1>1, <1>2, <2>1, <2>2 DEF Full
  <2>4. Left(x)'
    BY <1>3, <2>2, <2>3 DEF Left
  <2> QED
    BY <1>0, <1>5, <2>4, LeftMoves DEF Kept
<1>6. CASE Done
  BY <1>0, <1>6, IdleType DEF Done
<1> QED
  BY <1>4, <1>5, <1>6 DEF Kept

LEMMA CopyKept ==
  ASSUME TypeInv, InTime, Kept, NEW s \in Slave, Copy(s)
  PROVE  Kept'
<1>0. /\ slave[s].pc = "copy" /\ UNCHANGED <<row, src, gz>>
  BY DEF Copy
<1> PICK x \in Local :
      /\ Moves(s, x) /\ x.up = slave[s].up
      /\ \/ /\ slave[s].pos = 1 /\ x.pc = "copy" /\ x.pos = 2
            /\ x.from = slave[s].from /\ x.to = slave[s].to
         \/ slave[s].pos = 2 /\ x.pc = "rename" /\ x.pos = 1 /\ x.from = None /\ x.to = None
  BY CopyEffect
<1> PICK u \in Upload : u = row.up
  BY <1>0 DEF InTime, Commits, TypeInv, Tables
<1> PICK i \in Inode : i = slave[s].to
  BY CopyEffect
<1>1. slave[s].from \in Inode /\ \A k \in Inode \ {i} : disk'[k] = disk[k]
  BY CopyEffect
<1>2. 0 + 1 = 1 /\ 1 + 1 = 2 /\ 0 \in Nat /\ 1 \in Nat
  OBVIOUS
<1>3. CASE First
  <2>1. i = gz /\ slave[s].from = src /\ Full(src, Level(u, 0)) /\ src # gz
    BY <1>0, <1>1, <1>3, InodeNotNone DEF First, InTime
  <2>2. /\ Full(gz, Level(u, 1)) => Full(gz, Level(u, 1))'
        /\ \A n \in 1 .. 3 : Begun(gz, Level(u, 1), n) => Begun(gz, Level(u, 1), n)'
        /\ Begun(gz, Level(u, 1), slave[s].pos) => /\ slave[s].pos = 1 => Begun(gz, Level(u, 1), 2)'
                                                   /\ slave[s].pos = 2 => Full(gz, Level(u, 1))'
    <3> PICK j, q : j = gz /\ q = Level(u, 0 + 1)
      OBVIOUS
    <3>1. /\ Full(j, q) => Full(j, q)'
          /\ \A n \in 1 .. 3 : Begun(j, q, n) => Begun(j, q, n)'
          /\ Begun(j, q, slave[s].pos) => /\ slave[s].pos = 1 => Begun(j, q, 2)'
                                          /\ slave[s].pos = 2 => Full(j, q)'
      BY <1>2, <2>1, CopyCell
    <3> QED
      BY <1>0, <1>2, <3>1 DEF Full, Begun
  <2>3. slave'[s] = x /\ \A t \in Slave \ {s} : slave'[t] = slave[t]
    BY DEF Moves
  <2>4. Full(src, Level(row.up, 0))'
    BY <1>0, <1>1, <2>1 DEF Full
  <2>5. ASSUME NEW t \in Slave
        PROVE  /\ slave'[t].pc \in {"gzopen", "copy"} => slave'[t].from = src'
               /\ slave'[t].pc = "copy" => slave'[t].to = gz'
    BY <1>0, <1>3, <2>1, <2>3 DEF First
  <2>6. \/ Full(gz, Level(row.up, 1))'
        \/ \E t \in Slave : slave'[t].pc = "copy" /\ Begun(gz, Level(row.up, 1), slave[t].pos)'
    <3>1. CASE Full(gz, Level(u, 1))
      BY <1>0, <2>2, <3>1 DEF Full
    <3>2. ASSUME NEW t \in Slave, slave[t].pc = "copy", Begun(gz, Level(u, 1), slave[t].pos), t # s
          PROVE  slave'[t].pc = "copy" /\ Begun(gz, Level(row.up, 1), slave[t].pos)'
      <4>1. slave[t].pos \in 1 .. 3 /\ slave'[t] = slave[t]
        BY <2>3, <3>2, LocalType
      <4>2. Begun(gz, Level(u, 1), slave[t].pos)'
        BY <2>2, <3>2, <4>1 DEF Begun
      <4> QED
        BY <1>0, <3>2, <4>1, <4>2 DEF Begun
    <3>3. CASE Begun(gz, Level(u, 1), slave[s].pos)
      <4>1. CASE slave[s].pos = 1
        <5>1. slave'[s].pc = "copy" /\ slave'[s].pos = 2
          BY <2>3, <4>1
        <5> QED
          BY <1>0, <2>2, <3>3, <4>1, <5>1 DEF Begun
      <4>2. CASE slave[s].pos = 2
        BY <1>0, <2>2, <3>3, <4>2 DEF Full
      <4> QED
        BY <4>1, <4>2
    <3> QED
      BY <1>0, <1>3, <3>1, <3>2, <3>3 DEF First
  <2>7. First'
    BY <2>4, <2>5, <2>6 DEF First
  <2> QED
    BY <2>7 DEF Kept
<1>4. CASE Second
  <2>1. Left(slave[s]) /\ slave[s].from # i
    BY <1>0, <1>4, LeftMoves DEF Left
  <2>2. CASE /\ i = gz /\ Full(src, Level(u, 1))
             /\ \E m \in 0 .. 1 :
                  Full(slave[s].from, Level(u, m)) /\ Begun(gz, Level(u, m + 1), slave[s].pos)
    <3> PICK m \in 0 .. 1 : Full(slave[s].from, Level(u, m)) /\ Begun(i, Level(u, m + 1), slave[s].pos)
      BY <2>2
    <3>1. src # gz
      BY <2>2, InodeNotNone DEF Full, InTime
    <3>2. Full(src, Level(u, 1))' /\ Full(slave[s].from, Level(u, m))
      BY <1>0, <1>1, <2>2, <3>1 DEF Full
    <3> PICK q : q = Level(u, m + 1)
      OBVIOUS
    <3>3. /\ slave[s].pos = 1 => Begun(i, q, 2)'
          /\ slave[s].pos = 2 => Full(i, q)'
      BY <2>1, CopyCell
    <3>4. \A k : k = slave[s].from => Full(k, Level(u, m))'
      BY <1>1, <2>1, <3>2 DEF Full
    <3>5. ASSUME slave[s].pos = 1 PROVE Left(x)'
      <4>1. x.pc = "copy" /\ x.pos = 2 /\ x.from = slave[s].from /\ x.to = i
        BY <3>5
      <4>2. Full(x.from, Level(row.up, m))' /\ Begun(gz, Level(row.up, m + 1), x.pos)'
        BY <1>0, <2>2, <3>3, <3>4, <3>5, <4>1 DEF Full, Begun
      <4> QED
        BY <1>0, <2>1, <2>2, <3>2, <4>1, <4>2 DEF Left, Full
    <3>6. ASSUME slave[s].pos = 2 PROVE Left(x)'
      <4>1. Full(gz, Level(row.up, 1))' \/ Full(gz, Level(row.up, 2))'
        BY <1>0, <1>2, <2>2, <3>3, <3>6 DEF Full
      <4>2. x.pc = "rename"
        BY <3>6
      <4> QED
        BY <4>1, <4>2 DEF Left
    <3>7. Left(x)'
      BY <3>5, <3>6
    <3> QED
      BY <1>0, <1>4, <3>7, LeftMoves DEF Kept
  <2>3. CASE /\ i = src /\ gz = None /\ Full(slave[s].from, Level(u, 0))
             /\ Begun(src, Level(u, 1), slave[s].pos)
    <3> PICK q : q = Level(u, 0 + 1)
      OBVIOUS
    <3>1. /\ slave[s].pos = 1 => Begun(i, q, 2)'
          /\ slave[s].pos = 2 => Full(i, q)'
      BY <1>2, <2>1, <2>3, CopyCell
    <3>2. \A k : k = slave[s].from => Full(k, Level(u, 0))'
      BY <1>1, <2>1, <2>3 DEF Full
    <3>3. ASSUME slave[s].pos = 1 PROVE Left(x)'
      <4>1. x.pc = "copy" /\ x.pos = 2 /\ x.from = slave[s].from /\ x.to = i
        BY <3>3
      <4>2. Full(x.from, Level(row.up, 0))' /\ Begun(src, Level(row.up, 1), x.pos)'
        BY <1>0, <1>2, <2>3, <3>1, <3>2, <3>3, <4>1 DEF Full, Begun
      <4>3. x.to = src' /\ gz' = None /\ x.from # x.to
        BY <1>0, <2>1, <2>3, <4>1
      <4> QED
        BY <4>1, <4>2, <4>3 DEF Left
    <3>4. ASSUME slave[s].pos = 2 PROVE Left(x)'
      <4>1. Full(src, Level(row.up, 1))' /\ gz' = None
        BY <1>0, <1>2, <2>3, <3>1, <3>4 DEF Full
      <4>2. x.pc = "rename"
        BY <3>4
      <4> QED
        BY <4>1, <4>2 DEF Left
    <3>5. Left(x)'
      BY <3>3, <3>4
    <3> QED
      BY <1>0, <1>4, <3>5, LeftMoves DEF Kept
  <2> QED
    BY <1>0, <2>1, <2>2, <2>3 DEF Left
<1>5. CASE Done
  BY <1>0, <1>5, IdleType DEF Done
<1> QED
  BY <1>3, <1>4, <1>5 DEF Kept

\* The first slave to rename leaves a complete file, or one that the other slave is
\* still writing.
LEMMA RenameFirst ==
  ASSUME TypeInv, InTime, AllCounted, MaxCalls <= 2, First, NEW s \in Slave, Rename(s)
  PROVE  Second' \/ Done'
<1>0. /\ slave[s].pc = "rename" /\ Becomes(s, Idle) /\ gz' = None
      /\ src' = (IF gz = None THEN src ELSE gz) /\ UNCHANGED <<row, disk>>
  BY DEF Rename
<1> PICK x \in Local : x = Idle /\ Moves(s, x)
  BY <1>0, IdleType, Moving
<1>1. slave'[s] = Idle /\ \A t \in Slave \ {s} : slave'[t] = slave[t]
  BY DEF Moves
<1>2. Full(src, Level(row.up, 0)) /\ src # gz
  BY InodeNotNone DEF First, Full, InTime
<1>3. CASE \A t \in Slave \ {s} : slave[t].pc = "idle"
  <2>1. Full(gz, Level(row.up, 1))
    BY <1>0, <1>3 DEF First
  <2>2. Full(src, Level(row.up, 1))'
    BY <1>0, <2>1, InodeNotNone DEF Full
  <2>3. \A t \in Slave : slave'[t] = Idle
    BY <1>1, <1>3, LocalType DEF Serving
  <2> QED
    BY <2>2, <2>3 DEF Done
<1>4. ASSUME NEW t \in Slave \ {s}, slave[t].pc # "idle" PROVE Second'
  <2>1. \A r \in Slave \ {t} : slave'[r] = Idle
    <3>1. \A r \in Slave \ {s, t} : slave[r] = Idle
      BY <1>0, <1>4, NoThird DEF Apart
    <3> QED
      BY <1>1, <3>1
  <2>2. \A r \in Slave : slave[r].pc = "copy" => r = t
    BY <1>0, <1>1, <2>1, IdleType
  <2>3. Left(slave[t])'
    <3> PICK y \in Local : y = slave[t]
      BY LocalType
    <3>1. slave'[t] = y /\ row' = row
      BY <1>0, <1>1
    <3>2. CASE y.pc = "copy"
      <4>1. y.from = src /\ y.to = gz /\ gz \in Inode
        BY <1>4, <3>2, LocalType DEF First, Serving, TypeInv, Tables
      <4>2. y.pos \in Cells
        BY <3>2, LocalType DEF Serving
      <4>3. Begun(gz, Level(row.up, 1), y.pos)
        BY <1>0, <2>2, <4>2 DEF First, Full, Begun
      <4>4. src' = gz
        BY <1>0, <4>1, InodeNotNone
      <4>5. Begun(src, Level(row.up, 1), y.pos)' /\ Full(y.from, Level(row.up, 0))'
        BY <1>0, <1>2, <4>1, <4>3, <4>4 DEF Full, Begun
      <4>6. Left(y)'
        BY <1>0, <1>2, <3>2, <4>1, <4>4, <4>5 DEF Left
      <4> QED
        BY <3>1, <4>6 DEF Left
    <3>3. CASE y.pc # "copy"
      <4>1. Full(gz, Level(row.up, 1))
        BY <1>0, <2>2, <3>3 DEF First
      <4>2. Full(src, Level(row.up, 1))'
        BY <1>0, <4>1, InodeNotNone DEF Full
      <4>3. y.pc = "gzopen" => Full(y.from, Level(row.up, 0))'
        BY <1>0, <1>2, <1>4 DEF First, Full
      <4>4. Left(y)'
        BY <1>0, <3>3, <4>2, <4>3 DEF Left
      <4> QED
        BY <3>1, <4>4 DEF Left
    <3> QED
      BY <3>2, <3>3
  <2> QED
    BY <1>4, <2>1, <2>3 DEF Second
<1> QED
  BY <1>3, <1>4

LEMMA RenameKept ==
  ASSUME TypeInv, InTime, AllCounted, MaxCalls <= 2, Kept, NEW s \in Slave, Rename(s)
  PROVE  Kept'
<1>0. /\ slave[s].pc = "rename" /\ Becomes(s, Idle)
      /\ src' = (IF gz = None THEN src ELSE gz) /\ UNCHANGED <<row, disk>>
  BY DEF Rename
<1>1. CASE First
  BY <1>1, RenameFirst DEF Kept
<1>2. CASE Second
  <2> PICK x \in Local : x.pc = "idle" /\ Moves(s, x)
    BY <1>0, IdleType, Moving
  <2>1. Left(slave[s])
    BY <1>0, <1>2, LeftMoves
  <2>2. Full(src, Level(row.up, 1))' \/ Full(src, Level(row.up, 2))'
    BY <1>0, <2>1, InodeNotNone DEF Left, Full
  <2>3. Left(x)'
    BY <2>2 DEF Left
  <2> QED
    BY <1>0, <1>2, <2>3, LeftMoves DEF Kept
<1>3. CASE Done
  BY <1>0, <1>3, IdleType DEF Done
<1> QED
  BY <1>1, <1>2, <1>3 DEF Kept

LEMMA CrashesStay == TypeInv /\ crashes > 0 /\ [Next]_vars => crashes' > 0
<1> SUFFICES ASSUME TypeInv, crashes > 0, [Next]_vars PROVE crashes' > 0
  OBVIOUS
<1>0. crashes \in Nat
  BY FileDataAssumption DEF TypeInv, Tables
<1>1. ASSUME NEW s \in Slave, Crash(s) PROVE crashes' > 0
  BY <1>0, <1>1 DEF Crash
<1>2. CASE UNCHANGED crashes
  BY <1>2
<1> QED
  BY StepCases, <1>1, <1>2 DEF vars, history, StartUpload, StartTransfer, Transfer, EndTransfer, Timeout,
     CommitUpload, Update, Info, Stat, FOpen, GzOpen, Copy, Rename, Expire, OpenFile, ReadFile, CloseFile

LEMMA KeptStep ==
  Room /\ ~Late /\ MaxCalls <= 2 /\ TypeInv /\ InTime /\ AllCounted /\ KeptInv /\ [Next]_vars => KeptInv'
<1> SUFFICES ASSUME Room, ~Late, MaxCalls <= 2, TypeInv, InTime, AllCounted, KeptInv, [Next]_vars,
                    ~(crashes' > 0), row'.st = "committed"
             PROVE  Kept'
  BY DEF KeptInv
<1>0. row.st = "committed" => Kept
  BY CrashesStay DEF KeptInv
<1>1. CASE UNCHANGED vars
  BY <1>0, <1>1, QuietKept DEF vars
<1>2. ASSUME NEW u \in Upload, StartUpload(u) \/ StartTransfer(u) \/ Transfer(u) \/ EndTransfer(u)
      PROVE  Kept'
  BY <1>2, StartUploadInTime, StartTransferInTime, TransferInTime, EndTransferInTime
<1>3. ASSUME NEW u \in Upload, Timeout(u) PROVE Kept'
  BY <1>0, <1>3, TimeoutEffect, QuietKept
<1>4. ASSUME NEW u \in Upload, NEW s \in Slave, CommitUpload(u, s) PROVE Kept'
  <2>1. UNCHANGED <<row, src, gz, disk>> /\ (UNCHANGED slave \/ row.st = "uploading")
    BY <1>4, CommitUploadInTime
  <2> QED
    BY <1>0, <2>1, QuietKept
<1>5. ASSUME NEW s \in Slave, Update(s) PROVE Kept'
  BY <1>0, <1>5, UpdateKept
<1>6. ASSUME NEW s \in Slave, Info(s) \/ Stat(s) \/ FOpen(s) \/ GzOpen(s) \/ Copy(s) \/ Rename(s)
      PROVE  Kept'
  <2>1. Kept
    BY <1>0, <1>6 DEF Info, Stat, FOpen, GzOpen, Copy, Rename
  <2> QED
    BY <1>6, <2>1, CallKept, FOpenKept, GzOpenKept, CopyKept, RenameKept
<1>7. ASSUME NEW s \in Slave, Crash(s) PROVE Kept'
  <2>1. crashes \in Nat /\ crashes' = crashes + 1
    BY <1>7, FileDataAssumption DEF Crash, TypeInv, Tables
  <2> QED
    BY <2>1
<1>8. CASE Expire
  BY <1>8, ExpireInTime
<1>9. CASE OpenFile \/ ReadFile \/ CloseFile
  BY <1>0, <1>9, ReaderEffect, QuietKept
<1> QED
  BY StepCases, <1>1, <1>2, <1>3, <1>4, <1>5, <1>6, <1>7, <1>8, <1>9

LEMMA KeptInit == Init => KeptInv
BY DEF Init, NoRow, KeptInv

\* When all slaves are done, the file is complete and compressed at most twice.
LEMMA KeptData ==
  ASSUME Room, TypeInv, Kept, \A s \in Slave : slave[s] = Idle
  PROVE  \E n \in 0 .. Cardinality(Slave) : Full(src, Level(row.up, n))
<1>0. IsFiniteSet(Slave) /\ Cardinality(Slave) \in Nat
  BY FS_CardinalityType DEF Room
<1>1. CASE First
  BY <1>0, <1>1 DEF First
<1>2. ASSUME NEW s \in Slave PROVE Cardinality(Slave) >= 1
  BY <1>0, FS_EmptySet
<1>3. CASE Done
  <2>1. Cardinality(Slave) >= 1
    BY <1>2, <1>3 DEF Done
  <2> QED
    BY <1>0, <1>3, <2>1 DEF Done
<1>4. CASE Second
  <2> PICK s, t \in Slave : s # t /\ Left(slave[s])
    BY <1>4 DEF Second
  <2>1. Cardinality(Slave) >= 2
    <3> PICK T : T = {s} /\ IsFiniteSet(T) /\ Cardinality(T) = 1
      BY FS_Singleton
    <3>1. IsFiniteSet(T \cup {t}) /\ Cardinality(T \cup {t}) = 2
      <4>1. t \notin T /\ 1 + 1 = 2
        OBVIOUS
      <4>2. /\ IsFiniteSet(T \cup {t})
            /\ Cardinality(T \cup {t}) = IF t \in T THEN Cardinality(T) ELSE Cardinality(T) + 1
        BY FS_AddElement, Zenon
      <4> QED
        BY <4>1, <4>2
    <3>2. T \cup {t} \subseteq Slave
      OBVIOUS
    <3>3. Cardinality(T \cup {t}) <= Cardinality(Slave)
      BY <1>0, <3>2, FS_Subset
    <3> QED
      BY <1>0, <3>1, <3>3
  <2>2. Full(src, Level(row.up, 1)) \/ Full(src, Level(row.up, 2))
    BY IdleType DEF Left
  <2> QED
    BY <1>0, <2>1, <2>2
<1> QED
  BY <1>1, <1>3, <1>4 DEF Kept

\* Two slaves that compress the same file at once (glite_jppsbe_compress_and_remove_file
\* has no lock, and the second rename may find nothing) do not lose the data: once all
\* slaves are done without a crash the file is complete, when the client repeats its call
\* at most once, for any number of clients, uploads and slaves and any interleaving.
THEOREM OverlapsKeepTheData ==
  ASSUME Room, MaxCalls <= 2
  PROVE  Spec => []DataKept
<1>1. CASE Late
  <2>1. DataKept
    BY <1>1 DEF DataKept
  <2> QED
    BY <2>1, PTL
<1>2. CASE ~Late
  <2>1. TypeInv /\ KeptInv => DataKept
    <3> SUFFICES ASSUME TypeInv, KeptInv, row.st = "committed", crashes = 0,
                        \A s \in Slave : slave[s] = Idle
                 PROVE  /\ src # None
                        /\ \E n \in 0 .. Cardinality(Slave) :
                             \A c \in Cells : disk[src][c] = [of |-> row.up, gz |-> n]
      BY DEF DataKept
    <3>1. Kept
      BY DEF KeptInv
    <3>2. \E n \in 0 .. Cardinality(Slave) : Full(src, Level(row.up, n))
      BY <3>1, KeptData
    <3> QED
      BY <3>2, InodeNotNone DEF Full, Level
  <2>2. TypeInv /\ InTime /\ AllCounted /\ KeptInv /\ [Next]_vars
          => TypeInv' /\ InTime' /\ AllCounted' /\ KeptInv'
    BY <1>2, TypeStep, InTimeStep, CountedStep, KeptStep
  <2>3. Init => TypeInv /\ InTime /\ AllCounted /\ KeptInv
    BY TypeInit, InTimeInit, CountedInit, KeptInit
  <2> QED
    BY <2>1, <2>2, <2>3, PTL DEF Spec
<1> QED
  BY <1>1, <1>2
=============================================================================
