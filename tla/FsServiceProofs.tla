------------------------- MODULE FsServiceProofs -------------------------
(***************************************************************************)
(* Theorems about the file service, for every number of stores,            *)
(* descriptors, paths and every sequence of requests.                      *)
(***************************************************************************)
EXTENDS FsService, FiniteSetTheorems, TLAPS

IInv == TypeOK /\ StoresMatch

-----------------------------------------------------------------------------
\* The state the service starts in.
LEMMA InitIInv == Init => IInv
<1> SUFFICES ASSUME Init PROVE IInv
  OBVIOUS
<1>1. fd_table \in [Fds -> Entries \cup {NoEntry}] /\ next_fd \in 3..(MaxFd + 1)
  BY FsAssumption DEF Init
<1>2. stores \in [Stores -> Handles \cup {NoFile}]
  BY DEF Init
<1>3. files \in [Paths -> Nodes] /\ \A p \in Paths : files[p].size <= MaxSize
  BY FsAssumption DEF Init, Nodes
<1>4. resp \in Responses /\ alive \in BOOLEAN
  BY FsAssumption DEF Init, NoReply, Responses, AllRequests, Fds
<1>5. StoresMatch
  BY DEF Init, StoresMatch, Opened
<1> QED
  BY <1>1, <1>2, <1>3, <1>4, <1>5 DEF IInv, TypeOK

\* A reply is well formed.
LEMMA ReplyTypes ==
    ASSUME NEW op \in AllRequests, NEW p \in Paths \cup {Empty}, NEW fd \in Fds,
           NEW n \in Int, NEW s \in {"ok", "err"}, NEW v \in Int
    PROVE  Send(op, p, fd, n, s, v) => resp' \in Responses /\ alive' \in BOOLEAN
  BY DEF Send, Responses

\* A panic leaves no reply.
LEMMA PanicTypes ==
    ASSUME NEW op \in AllRequests, Panic(op)
    PROVE  resp' \in Responses /\ alive' \in BOOLEAN
<1>1. NoReply \in Responses
  BY FsAssumption DEF NoReply, Responses, AllRequests, Fds
<1> QED
  BY <1>1 DEF Panic

\* A step that leaves the table, the stores and the files alone.
LEMMA SameState ==
    ASSUME IInv, UNCHANGED state, resp' \in Responses, alive' \in BOOLEAN
    PROVE  IInv'
  BY DEF IInv, TypeOK, StoresMatch, Opened, state

\* A step that only changes the offset of one entry.
LEMMA OffsetStep ==
    ASSUME IInv, NEW fd \in Fds, NEW off \in Int, Opened(fd),
           fd_table' = [fd_table EXCEPT ![fd].offset = off],
           UNCHANGED <<next_fd, stores, files>>,
           resp' \in Responses, alive' \in BOOLEAN
    PROVE  IInv'
<1>1. fd_table[fd] \in Entries
  BY DEF IInv, TypeOK, Opened
<1>2. [fd_table[fd] EXCEPT !.offset = off] \in Entries
  BY <1>1 DEF Entries
<1>3. NoEntry \notin Entries
  BY FsAssumption DEF NoEntry, Entries, Stores
<1>4. \A g \in Fds : /\ Opened(g)' <=> Opened(g)
                     /\ fd_table'[g].inode = fd_table[g].inode
  BY <1>1, <1>2, <1>3 DEF IInv, TypeOK, Opened, Entries
<1>5. TypeOK'
  BY <1>2 DEF IInv, TypeOK
<1>6. StoresMatch'
  BY <1>4 DEF IInv, StoresMatch
<1> QED
  BY <1>5, <1>6 DEF IInv

\* A step that only changes files.
LEMMA FilesStep ==
    ASSUME IInv, UNCHANGED <<fd_table, next_fd, stores>>,
           files' \in [Paths -> Nodes], \A p \in Paths : files'[p].size <= MaxSize,
           resp' \in Responses, alive' \in BOOLEAN
    PROVE  IInv'
  BY DEF IInv, TypeOK, StoresMatch, Opened

\* open gives the descriptor after the last one a store that was free.
LEMMA InstallStep ==
    ASSUME IInv, NEW p \in Paths,
           NEW fs \in [Paths -> Nodes], fs[p].kind # "none",
           \A q \in Paths : fs[q].size <= MaxSize,
           Install(p, fs)
    PROVE  IInv'
<1>1. next_fd \in 3..MaxFd /\ next_fd \in Fds
  BY FsAssumption DEF Install, IInv, TypeOK, Fds
<1>2. PICK i \in FreeStores :
        /\ stores' = [stores EXCEPT ![i] = [path |-> p, kind |-> fs[p].kind]]
        /\ fd_table' = [fd_table EXCEPT ![next_fd] =
                            [inode |-> i, size |-> fs[p].size, offset |-> 0]]
  BY DEF Install, NextFd
<1>3. i \in Stores /\ stores[i] = NoFile
  BY DEF FreeStores
<1>4. [path |-> p, kind |-> fs[p].kind] \in Handles
  BY DEF Handles, Nodes
<1>5. [inode |-> i, size |-> fs[p].size, offset |-> 0] \in Entries
  BY <1>3 DEF Entries, Nodes
<1>6. NoEntry \notin Entries /\ NoFile \notin Handles
  BY FsAssumption DEF NoEntry, Entries, Stores, NoFile, Handles
<1>7. resp' \in Responses /\ alive' \in BOOLEAN
  BY <1>1, ReplyTypes DEF Install, ReplyTo, NextFd, AllRequests, Fds
<1>8. TypeOK'
  <2>1. fd_table' \in [Fds -> Entries \cup {NoEntry}]
    BY <1>2, <1>5 DEF IInv, TypeOK
  <2>2. stores' \in [Stores -> Handles \cup {NoFile}]
    BY <1>2, <1>4 DEF IInv, TypeOK
  <2>3. next_fd' \in 3..(MaxFd + 1)
    BY <1>1, FsAssumption DEF Install
  <2> QED
    BY <1>7, <2>1, <2>2, <2>3 DEF TypeOK, Install
<1>9. ~Opened(next_fd) /\ \A g \in Fds : Opened(g) => fd_table[g].inode # i
  <2>1. next_fd \notin 3..(next_fd - 1)
    BY <1>1
  <2>2. ~Opened(next_fd)
    BY <1>1, <2>1 DEF IInv, StoresMatch
  <2>3. ASSUME NEW g \in Fds, Opened(g) PROVE fd_table[g].inode # i
    BY <1>3, <2>3 DEF IInv, StoresMatch
  <2> QED
    BY <2>2, <2>3
<1>10. /\ fd_table'[next_fd] # NoEntry /\ fd_table'[next_fd].inode = i
       /\ \A g \in Fds : g # next_fd => (Opened(g)' <=> Opened(g)) /\ fd_table'[g] = fd_table[g]
  <2>1. /\ fd_table'[next_fd] = [inode |-> i, size |-> fs[p].size, offset |-> 0]
        /\ \A g \in Fds : g # next_fd => fd_table'[g] = fd_table[g]
    BY <1>1, <1>2 DEF IInv, TypeOK
  <2>2. fd_table'[next_fd] # NoEntry /\ fd_table'[next_fd].inode = i
    BY <1>5, <1>6, <2>1
  <2> QED
    BY <2>1, <2>2 DEF Opened
<1>11. /\ stores'[i] # NoFile
       /\ \A j \in Stores : j # i => stores'[j] = stores[j]
  BY <1>2, <1>3, <1>4, <1>6 DEF IInv, TypeOK
<1>12. next_fd' = next_fd + 1
  BY DEF Install
<1>13. StoresMatch'
  <2>1. ASSUME NEW g \in Fds, Opened(g)'
        PROVE  g \in 3..(next_fd' - 1) /\ stores'[fd_table'[g].inode] # NoFile
    <3>1. CASE g = next_fd
      BY <1>1, <1>10, <1>11, <1>12, <3>1
    <3>2. CASE g # next_fd
      <4>1. Opened(g) /\ fd_table'[g] = fd_table[g] /\ fd_table[g].inode # i
        BY <1>9, <1>10, <2>1, <3>2
      <4>2. fd_table[g].inode \in Stores
        BY <4>1 DEF IInv, TypeOK, Opened, Entries
      <4>3. g \in 3..(next_fd - 1) /\ stores[fd_table[g].inode] # NoFile
        BY <4>1 DEF IInv, StoresMatch
      <4>4. stores'[fd_table'[g].inode] # NoFile
        BY <1>11, <4>1, <4>2, <4>3
      <4>5. g \in 3..(next_fd' - 1)
        BY <1>1, <1>12, <4>3
      <4> QED
        BY <4>4, <4>5
    <3> QED
      BY <3>1, <3>2
  <2>2. ASSUME NEW f \in Fds, NEW g \in Fds, Opened(f)', Opened(g)',
               fd_table'[f].inode = fd_table'[g].inode
        PROVE  f = g
    BY <1>1, <1>9, <1>10, <2>2 DEF IInv, StoresMatch
  <2>3. ASSUME NEW j \in Stores, stores'[j] # NoFile
        PROVE  \E g \in Fds : Opened(g)' /\ fd_table'[g].inode = j
    <3>1. CASE j = i
      BY <1>1, <1>10, <3>1 DEF Opened
    <3>2. CASE j # i
      <4>1. PICK g \in Fds : Opened(g) /\ fd_table[g].inode = j
        BY <1>11, <2>3, <3>2 DEF IInv, StoresMatch
      <4> QED
        BY <1>9, <1>10, <4>1
    <3> QED
      BY <3>1, <3>2
  <2> QED
    BY <2>1, <2>2, <2>3 DEF StoresMatch, Opened
<1> QED
  BY <1>8, <1>13 DEF IInv

\* close frees the entry and the one store it names.
LEMMA CloseStep ==
    ASSUME IInv, NEW fd \in Fds, Close(fd)
    PROVE  IInv'
<1>1. Opened(fd) /\ fd_table[fd] \in Entries /\ fd_table[fd].inode \in Stores
  BY DEF Close, IInv, TypeOK, Opened, Entries
<1>2. /\ fd_table' = [fd_table EXCEPT ![fd] = NoEntry]
      /\ stores' = [stores EXCEPT ![fd_table[fd].inode] = NoFile]
      /\ UNCHANGED <<next_fd, files>>
  BY DEF Close
<1>3. resp' \in Responses /\ alive' \in BOOLEAN
  BY ReplyTypes DEF Close, FdReply, AllRequests
<1>4. TypeOK'
  BY <1>1, <1>2, <1>3 DEF IInv, TypeOK
<1>5. /\ ~Opened(fd)'
      /\ \A g \in Fds : g # fd => (Opened(g)' <=> Opened(g)) /\ fd_table'[g] = fd_table[g]
  BY <1>2 DEF IInv, TypeOK, Opened
<1>6. /\ stores'[fd_table[fd].inode] = NoFile
      /\ \A j \in Stores : j # fd_table[fd].inode => stores'[j] = stores[j]
  BY <1>1, <1>2 DEF IInv, TypeOK
<1>7. \A g \in Fds : Opened(g) => fd_table[g].inode \in Stores
  BY DEF IInv, TypeOK, Opened, Entries
<1>8. StoresMatch'
  <2>1. ASSUME NEW g \in Fds, Opened(g)'
        PROVE  g \in 3..(next_fd' - 1) /\ stores'[fd_table'[g].inode] # NoFile
    BY <1>1, <1>2, <1>5, <1>6, <1>7, <2>1 DEF IInv, StoresMatch
  <2>2. ASSUME NEW f \in Fds, NEW g \in Fds, Opened(f)', Opened(g)',
               fd_table'[f].inode = fd_table'[g].inode
        PROVE  f = g
    BY <1>5, <2>2 DEF IInv, StoresMatch
  <2>3. ASSUME NEW j \in Stores, stores'[j] # NoFile
        PROVE  \E g \in Fds : Opened(g)' /\ fd_table'[g].inode = j
    BY <1>5, <1>6, <2>3 DEF IInv, StoresMatch
  <2> QED
    BY <2>1, <2>2, <2>3 DEF StoresMatch, Opened
<1> QED
  BY <1>4, <1>8 DEF IInv

\* Requests that carry a path.
LEMMA PathStep ==
    ASSUME IInv, NEW p \in Paths, PathNext(p)
    PROVE  IInv'
<1> USE DEF AllRequests
<1>0. 0 \in Fds /\ -1 \in Int /\ -2 \in Int
  BY FsAssumption DEF Fds
<1>a. ASSUME NEW op \in AllRequests, NEW e \in Int, Refuse(op, p, 0, e) PROVE IInv'
  BY <1>0, <1>a, ReplyTypes, SameState DEF Refuse, ReplyTo
<1>b. ASSUME NEW op \in AllRequests, Panic(op) PROVE IInv'
  BY <1>0, <1>b, PanicTypes, SameState DEF Panic
<1>c. /\ files \in [Paths -> Nodes] /\ \A q \in Paths : files[q].size <= MaxSize
      /\ MaxSize \in Nat
  BY FsAssumption DEF IInv, TypeOK
<1>d. /\ Created(p) \in [Paths -> Nodes] /\ Created(p)[p].kind # "none"
      /\ \A q \in Paths : Created(p)[q].size <= MaxSize
  BY <1>c DEF Created, Nodes
<1>1. CASE Open(p)
  <2>1. CASE Install(p, files)
    BY <1>1, <1>c, <2>1, InstallStep DEF Open
  <2>2. CASE StoresFull(p, files)
    BY <1>0, <1>c, <2>2, ReplyTypes, FilesStep DEF StoresFull, ReplyTo
  <2> QED
    BY <1>1, <2>1, <2>2 DEF Open
<1>2. CASE OpenCreate(p)
  <2>1. CASE Install(p, Created(p))
    BY <1>d, <2>1, InstallStep
  <2>2. CASE StoresFull(p, Created(p))
    BY <1>0, <1>d, <2>2, ReplyTypes, FilesStep DEF StoresFull, ReplyTo
  <2> QED
    BY <1>2, <2>1, <2>2 DEF OpenCreate
<1>3. CASE OpenMissing(p) \/ OpenCreateDir(p) \/ OpenFails(p) \/ StatFails(p) \/ AccessFails(p)
  BY <1>0, <1>3, <1>a DEF OpenMissing, OpenCreateDir, OpenFails, StatFails, AccessFails
<1>4. CASE Stat(p) \/ Access(p)
  BY <1>0, <1>4, ReplyTypes, SameState DEF Stat, Access, Borrow, ReplyTo, state
<1>5. CASE Mkdir(p)
  <2>1. files' \in [Paths -> Nodes] /\ \A q \in Paths : files'[q].size <= MaxSize
    BY <1>5, <1>c DEF Mkdir, Nodes
  <2> QED
    BY <1>0, <1>5, <2>1, ReplyTypes, FilesStep DEF Mkdir, ReplyTo
<1>6. CASE Unlink(p)
  <2>1. files' \in [Paths -> Nodes] /\ \A q \in Paths : files'[q].size <= MaxSize
    BY <1>6, <1>c DEF Unlink, Nodes
  <2> QED
    BY <1>0, <1>6, <2>1, ReplyTypes, FilesStep DEF Unlink, ReplyTo
<1>7. CASE MkdirPanics(p) \/ UnlinkPanics(p)
  BY <1>7, <1>b DEF MkdirPanics, UnlinkPanics
<1> QED
  BY <1>1, <1>2, <1>3, <1>4, <1>5, <1>6, <1>7 DEF PathNext

\* The number of directory entries is a number when there are finitely many paths.
LEMMA DirEntriesType ==
    ASSUME NEW p
    PROVE  DirEntries(p) \in Int
  BY FsAssumption, FS_Subset, FS_CardinalityType DEF DirEntries

\* Requests that name a descriptor.
LEMMA FdStep ==
    ASSUME IInv, NEW fd \in Fds, FdNext(fd)
    PROVE  IInv'
<1> USE DEF AllRequests
<1>0. Counts \subseteq Nat /\ Offsets \subseteq Int
  BY FsAssumption DEF Offsets
<1>a. ASSUME NEW op \in AllRequests, NEW n \in Int, NEW s \in {"ok", "err"}, NEW v \in Int,
             FdReply(op, fd, n, s, v)
      PROVE  resp' \in Responses /\ alive' \in BOOLEAN
  BY <1>a, ReplyTypes DEF FdReply
<1>b. ASSUME NEW op \in AllRequests, Panic(op) PROVE IInv'
  BY <1>b, PanicTypes, SameState DEF Panic
<1>c. ASSUME NEW op \in AllRequests, NEW e \in Int, FdRefuse(op, fd, e) PROVE IInv'
  BY <1>a, <1>c, SameState DEF FdRefuse
<1>d. ASSUME NEW op \in AllRequests, NEW n \in Int, NEW v \in Int,
             FdReply(op, fd, n, "ok", v), UNCHANGED state
      PROVE  IInv'
  BY <1>a, <1>d, SameState
<1>e. Opened(fd) => /\ fd_table[fd] \in Entries /\ fd_table[fd].inode \in Stores
                    /\ fd_table[fd].size \in Nat /\ fd_table[fd].offset \in Int
                    /\ stores[fd_table[fd].inode] \in Handles
                    /\ stores[fd_table[fd].inode].path \in Paths
                    /\ Node(fd_table[fd].inode) \in Nodes
                    /\ Node(fd_table[fd].inode).size \in Nat
  BY DEF IInv, TypeOK, StoresMatch, Opened, Entries, Handles, Nodes, Node
<1>f. \A n \in Nat : Lossy(n) \subseteq Nat
  BY DEF Lossy
<1>1. ASSUME NEW n \in Counts, Read(fd, n) PROVE IInv'
  <2> DEFINE k == Smaller(n, Node(fd_table[fd].inode).size - fd_table[fd].offset)
  <2>1. Opened(fd) /\ fd_table' = [fd_table EXCEPT ![fd].offset = @ + k]
        /\ UNCHANGED <<next_fd, stores, files>> /\ FdReply("read", fd, n, "ok", k)
    BY <1>1 DEF Read
  <2>2. k \in Int /\ n \in Int
    BY <1>0, <1>e, <2>1 DEF Smaller
  <2>3. fd_table[fd].offset + k \in Int
    BY <1>e, <2>1, <2>2
  <2>4. fd_table' = [fd_table EXCEPT ![fd].offset = fd_table[fd].offset + k]
    BY <2>1 DEF IInv, TypeOK
  <2>5. resp' \in Responses /\ alive' \in BOOLEAN
    BY <1>a, <2>1, <2>2
  <2> QED
    BY <2>1, <2>3, <2>4, <2>5, OffsetStep
<1>2. ASSUME NEW n \in Counts, ReadSpecial(fd, n) \/ ReadAstray(fd, n) PROVE IInv'
  BY <1>0, <1>2, <1>b, <1>c, <1>d DEF ReadSpecial, ReadAstray
<1>3. ASSUME NEW n \in Counts, Write(fd, n) PROVE IInv'
  <2>1. Opened(fd) /\ UNCHANGED <<fd_table, next_fd, stores>>
    BY <1>3 DEF Write
  <2>2. PICK len \in Lossy(n) :
          /\ fd_table[fd].offset + len <= MaxSize
          /\ files' = [files EXCEPT ![stores[fd_table[fd].inode].path].size =
                          IF fd_table[fd].offset + len > @ THEN fd_table[fd].offset + len ELSE @]
          /\ FdReply("write", fd, n, "ok", len)
    BY <1>3 DEF Write, Fits
  <2>3. len \in Nat /\ n \in Int
    BY <1>0, <1>f
  <2>4. fd_table[fd].offset \in Nat
    BY <1>3, <1>e, <2>1 DEF Write, SeekOk
  <2>5. files' \in [Paths -> Nodes] /\ \A q \in Paths : files'[q].size <= MaxSize
    <3> DEFINE w == stores[fd_table[fd].inode].path
               sz == IF fd_table[fd].offset + len > files[w].size
                        THEN fd_table[fd].offset + len ELSE files[w].size
    <3>1. w \in Paths /\ files \in [Paths -> Nodes] /\ \A q \in Paths : files[q].size <= MaxSize
      BY <1>e, <2>1 DEF IInv, TypeOK
    <3>2. files[w] \in Nodes /\ files[w].size \in Nat
      BY <3>1 DEF Nodes
    <3>3. sz \in Nat /\ sz <= MaxSize
      BY <2>2, <2>3, <2>4, <3>1, <3>2
    <3>4. [files[w] EXCEPT !.size = sz] \in Nodes /\ [files[w] EXCEPT !.size = sz].size = sz
      BY <3>2, <3>3 DEF Nodes
    <3>5. files' = [files EXCEPT ![w] = [files[w] EXCEPT !.size = sz]]
      BY <2>2, <3>1
    <3> HIDE DEF w, sz
    <3> QED
      BY <3>1, <3>3, <3>4, <3>5
  <2>6. resp' \in Responses /\ alive' \in BOOLEAN
    BY <1>a, <2>2, <2>3
  <2> QED
    BY <2>1, <2>5, <2>6, FilesStep
<1>4. ASSUME NEW n \in Counts, WriteSpecial(fd, n) \/ WriteAstray(fd, n) PROVE IInv'
  <2>1. CASE WriteAstray(fd, n)
    BY <1>0, <1>b, <1>d, <2>1 DEF WriteAstray
  <2>2. CASE WriteSpecial(fd, n)
    <3>1. CASE \E len \in Lossy(n) : FdReply("write", fd, n, "ok", len) /\ UNCHANGED state
      BY <1>0, <1>d, <1>f, <3>1
    <3> QED
      BY <1>c, <2>2, <3>1 DEF WriteSpecial
  <2> QED
    BY <1>4, <2>1, <2>2
<1>5. ASSUME NEW off \in Offsets, LseekSet(fd, off) \/ LseekCur(fd, off) \/ LseekEnd(fd, off)
      PROVE  IInv'
  <2>1. PICK to \in Int : SeekTo(fd, to)
    BY <1>0, <1>5, <1>e DEF LseekSet, LseekCur, LseekEnd, SeekTo
  <2>2. resp' \in Responses /\ alive' \in BOOLEAN
    BY <1>a, <2>1 DEF SeekTo
  <2> QED
    BY <2>1, <2>2, OffsetStep DEF SeekTo
<1>6. ASSUME NEW n \in Counts, Getdents(fd, n) PROVE IInv'
  <2> DEFINE left == DirEntries(stores[fd_table[fd].inode].path) - fd_table[fd].offset
             k == IF fd_table[fd].offset < 0 \/ left < 0 THEN 0 ELSE Smaller(n, left)
  <2>1. Opened(fd) /\ fd_table' = [fd_table EXCEPT ![fd].offset = @ + k]
        /\ UNCHANGED <<next_fd, stores, files>> /\ FdReply("getdents64", fd, n, "ok", k)
    BY <1>6 DEF Getdents
  <2>2. DirEntries(stores[fd_table[fd].inode].path) \in Int
    BY DirEntriesType DEF IInv
  <2>3. k \in Int /\ n \in Int
    BY <1>0, <1>e, <2>1, <2>2 DEF Smaller
  <2>4. fd_table[fd].offset + k \in Int
    BY <1>e, <2>1, <2>3
  <2>5. fd_table' = [fd_table EXCEPT ![fd].offset = fd_table[fd].offset + k]
    BY <2>1 DEF IInv, TypeOK
  <2>6. resp' \in Responses /\ alive' \in BOOLEAN
    BY <1>a, <2>1, <2>3
  <2> QED
    BY <2>1, <2>4, <2>5, <2>6, OffsetStep
<1>7. CASE LseekSpecial(fd) \/ LseekInvalid(fd) \/ GetdentsBad(fd) \/ FileSizeBad(fd)
  BY <1>7, <1>c DEF LseekSpecial, LseekInvalid, GetdentsBad, FileSizeBad
<1>8. CASE GetdentsPanics(fd)
  BY <1>8, <1>b DEF GetdentsPanics
<1>9. CASE FileSize(fd)
  BY <1>9, <1>d, <1>e DEF FileSize
<1>10. CASE Close(fd)
  BY <1>10, CloseStep
<1>11. CASE CloseOther(fd)
  BY <1>11, <1>c, <1>d DEF CloseOther
<1> QED
  BY <1>1, <1>2, <1>3, <1>4, <1>5, <1>6, <1>7, <1>8, <1>9, <1>10, <1>11 DEF FdNext

\* Every step keeps the inductive invariant.
LEMMA IInvStep == IInv /\ [Next]_vars => IInv'
<1> SUFFICES ASSUME IInv, [Next]_vars PROVE IInv'
  OBVIOUS
<1>0. 0 \in Fds
  BY FsAssumption DEF Fds
<1>1. CASE \E p \in Paths : PathNext(p)
  BY <1>1, PathStep
<1>2. CASE \E fd \in Fds : FdNext(fd)
  BY <1>2, FdStep
<1>3. CASE EmptyPath
  <2>1. PICK op \in AllRequests : Send(op, Empty, 0, 0, "err", -22) /\ UNCHANGED state
    BY <1>3 DEF EmptyPath, Refuse, ReplyTo, AllRequests
  <2>2. resp' \in Responses /\ alive' \in BOOLEAN
    BY <1>0, <2>1, ReplyTypes
  <2> QED
    BY <2>1, <2>2, SameState
<1>4. CASE Unknown
  BY <1>0, <1>4, ReplyTypes, SameState DEF Unknown, FdRefuse, FdReply, AllRequests
<1>5. CASE UNCHANGED vars
  BY <1>5, SameState DEF IInv, TypeOK, vars, state
<1> QED
  BY <1>1, <1>2, <1>3, <1>4, <1>5 DEF Next, Spin

\* Types and the match of descriptors and stores are invariant together.
THEOREM FsInductive == Spec => []IInv
  BY InitIInv, IInvStep, PTL DEF Spec

\* For every number of stores and every sequence of requests, failed ones
\* included, no store is leaked or shared.
THEOREM StoresMatchHolds == Spec => []StoresMatch
<1>1. IInv => StoresMatch
  BY DEF IInv
<1> QED
  BY <1>1, FsInductive, PTL

\* The service keeps its types, and files within the disk.
THEOREM FsTypeCorrect == Spec => []TypeOK
<1>1. IInv => TypeOK
  BY DEF IInv
<1> QED
  BY <1>1, FsInductive, PTL

-----------------------------------------------------------------------------
\* A step that opens or closes nothing, as the table of open files sees it.
Kept ==
    /\ UNCHANGED <<next_fd, stores>>
    /\ \A g \in Fds : (fd_table'[g] = NoEntry <=> fd_table[g] = NoEntry)
                      /\ fd_table'[g].inode = fd_table[g].inode

\* Every step opens one file, closes one, or keeps the table.
LEMMA Shape ==
    ASSUME IInv, [Next]_vars
    PROVE  \/ \E p \in Paths : Install(p, files) \/ Install(p, Created(p))
           \/ \E fd \in Fds : Close(fd)
           \/ Kept
<1>a. UNCHANGED <<fd_table, next_fd, stores>> => Kept
  BY DEF Kept
<1>b. ASSUME NEW fd \in Fds, NEW off \in Int, Opened(fd),
             fd_table' = [fd_table EXCEPT ![fd].offset = off], UNCHANGED <<next_fd, stores>>
      PROVE  Kept
  <2>1. fd_table[fd] \in Entries
    BY <1>b DEF IInv, TypeOK, Opened
  <2>2. [fd_table[fd] EXCEPT !.offset = off] \in Entries
        /\ [fd_table[fd] EXCEPT !.offset = off].inode = fd_table[fd].inode
    BY <1>b, <2>1 DEF Entries
  <2>3. NoEntry \notin Entries
    BY FsAssumption DEF NoEntry, Entries, Stores
  <2>4. /\ fd_table'[fd] = [fd_table[fd] EXCEPT !.offset = off]
        /\ \A g \in Fds : g # fd => fd_table'[g] = fd_table[g]
    BY <1>b DEF IInv, TypeOK
  <2> QED
    BY <1>b, <2>1, <2>2, <2>3, <2>4 DEF Kept
<1>1. ASSUME NEW p \in Paths, PathNext(p)
      PROVE  Install(p, files) \/ Install(p, Created(p)) \/ Kept
  BY <1>1, <1>a
  DEF PathNext, Open, OpenMissing, OpenCreate, OpenCreateDir, OpenFails, StoresFull, Stat,
      StatFails, Access, AccessFails, Borrow, Mkdir, MkdirPanics, Unlink, UnlinkPanics,
      Refuse, Panic, state
<1>2. ASSUME NEW fd \in Fds, FdNext(fd)
      PROVE  Close(fd) \/ Kept
  <2>e. Opened(fd) => /\ fd_table[fd].size \in Nat /\ fd_table[fd].offset \in Int
                      /\ Node(fd_table[fd].inode).size \in Nat
    BY DEF IInv, TypeOK, StoresMatch, Opened, Entries, Handles, Nodes, Node
  <2>f. Counts \subseteq Int /\ Offsets \subseteq Int
    BY FsAssumption DEF Offsets
  <2>1. ASSUME NEW n \in Counts, Read(fd, n) PROVE Kept
    <3> DEFINE k == Smaller(n, Node(fd_table[fd].inode).size - fd_table[fd].offset)
    <3>1. Opened(fd) /\ fd_table' = [fd_table EXCEPT ![fd].offset = fd_table[fd].offset + k]
          /\ UNCHANGED <<next_fd, stores>>
      BY <2>1 DEF Read, IInv, TypeOK
    <3>2. fd_table[fd].offset + k \in Int
      BY <2>e, <2>f, <3>1 DEF Smaller
    <3> QED
      BY <1>b, <3>1, <3>2
  <2>2. ASSUME NEW n \in Counts, Getdents(fd, n) PROVE Kept
    <3> DEFINE left == DirEntries(stores[fd_table[fd].inode].path) - fd_table[fd].offset
               k == IF fd_table[fd].offset < 0 \/ left < 0 THEN 0 ELSE Smaller(n, left)
    <3>1. Opened(fd) /\ fd_table' = [fd_table EXCEPT ![fd].offset = fd_table[fd].offset + k]
          /\ UNCHANGED <<next_fd, stores>>
      BY <2>2 DEF Getdents, IInv, TypeOK
    <3>2. DirEntries(stores[fd_table[fd].inode].path) \in Int
      BY DirEntriesType
    <3>3. fd_table[fd].offset + k \in Int
      BY <2>e, <2>f, <3>1, <3>2 DEF Smaller
    <3> QED
      BY <1>b, <3>1, <3>3
  <2>3. ASSUME NEW off \in Offsets, LseekSet(fd, off) \/ LseekCur(fd, off) \/ LseekEnd(fd, off)
        PROVE  Kept
    <3>1. PICK to \in Int : SeekTo(fd, to)
      BY <2>3, <2>e, <2>f DEF LseekSet, LseekCur, LseekEnd, SeekTo
    <3> QED
      BY <1>b, <3>1 DEF SeekTo
  <2>4. ASSUME NEW n \in Counts,
               \/ ReadSpecial(fd, n) \/ ReadAstray(fd, n)
               \/ WriteSpecial(fd, n) \/ Write(fd, n) \/ WriteAstray(fd, n)
        PROVE  Kept
    BY <1>a, <2>4 DEF ReadSpecial, ReadAstray, WriteSpecial, Write, WriteAstray,
                      FdRefuse, Panic, state
  <2>5. CASE \/ LseekSpecial(fd) \/ LseekInvalid(fd) \/ GetdentsPanics(fd) \/ GetdentsBad(fd)
             \/ FileSize(fd) \/ FileSizeBad(fd) \/ CloseOther(fd)
    BY <1>a, <2>5 DEF LseekSpecial, LseekInvalid, GetdentsPanics, GetdentsBad, FileSize,
                      FileSizeBad, CloseOther, FdRefuse, Panic, state
  <2> QED
    BY <1>2, <2>1, <2>2, <2>3, <2>4, <2>5 DEF FdNext
<1>3. CASE EmptyPath \/ Unknown \/ UNCHANGED vars
  BY <1>3, <1>a DEF EmptyPath, Unknown, Refuse, FdRefuse, state, vars
<1> QED
  BY <1>1, <1>2, <1>3 DEF Next, Spin

\* Opening maps to the abstract Open of the next descriptor.
LEMMA OpenMaps ==
    ASSUME IInv, IInv', NEW p \in Paths, NEW fs, Install(p, fs)
    PROVE  OF!Next
<1>1. next_fd \in 3..MaxFd /\ next_fd \in Fds /\ next_fd' = next_fd + 1
  BY FsAssumption DEF Install, IInv, TypeOK, Fds
<1>2. PICK i \in FreeStores :
        /\ stores' = [stores EXCEPT ![i] = [path |-> p, kind |-> fs[p].kind]]
        /\ fd_table' = [fd_table EXCEPT ![next_fd] =
                            [inode |-> i, size |-> fs[p].size, offset |-> 0]]
  BY DEF Install, NextFd
<1>3. i \in Stores /\ stores[i] = NoFile /\ \A g \in Fds : Opened(g) => fd_table[g].inode # i
  BY DEF FreeStores, IInv, StoresMatch
<1>4. fd_table'[next_fd].inode = i /\ stores'[i].path = p
      /\ \A g \in Fds : g # next_fd => fd_table'[g] = fd_table[g]
      /\ \A j \in Stores : j # i => stores'[j] = stores[j]
  BY <1>1, <1>2, <1>3 DEF IInv, TypeOK
<1>5. fd_table'[next_fd] # NoEntry
  BY <1>3, <1>4, FsAssumption DEF NoEntry, Stores
<1>6. \A g \in Fds : Opened(g) => fd_table[g].inode \in Stores
  BY DEF IInv, TypeOK, Opened, Entries
<1> DEFINE now == [fd \in Fds |-> FileOf(fd)]
           then == [fd \in Fds |-> FileOf(fd)']
<1>7. then = [now EXCEPT ![next_fd] = p]
  <2>1. ASSUME NEW g \in Fds PROVE then[g] = IF g = next_fd THEN p ELSE now[g]
    BY <1>3, <1>4, <1>5, <1>6 DEF FileOf, Opened
  <2> QED
    BY <1>1, <2>1
<1>8. 3..(next_fd' - 1) = 3..(next_fd - 1) \cup {next_fd} /\ next_fd \notin 3..(next_fd - 1)
  BY <1>1
<1>9. now' = then
  OBVIOUS
<1> QED
  BY <1>1, <1>7, <1>8, <1>9 DEF OF!Next, OF!Open

\* Closing maps to the abstract Close.
LEMMA CloseMaps ==
    ASSUME IInv, NEW fd \in Fds, Close(fd)
    PROVE  OF!Next
<1>1. Opened(fd) /\ fd_table[fd].inode \in Stores /\ next_fd' = next_fd
      /\ stores[fd_table[fd].inode].path \in Paths
  BY DEF Close, IInv, TypeOK, StoresMatch, Opened, Entries, Handles
<1>2. /\ fd_table'[fd] = NoEntry
      /\ \A g \in Fds : g # fd => fd_table'[g] = fd_table[g]
      /\ \A j \in Stores : j # fd_table[fd].inode => stores'[j] = stores[j]
  BY <1>1 DEF Close, IInv, TypeOK
<1>3. \A g \in Fds : Opened(g) /\ g # fd => fd_table[g].inode # fd_table[fd].inode
                                            /\ fd_table[g].inode \in Stores
  BY <1>1 DEF IInv, TypeOK, StoresMatch, Opened, Entries
<1> DEFINE now == [g \in Fds |-> FileOf(g)]
           then == [g \in Fds |-> FileOf(g)']
<1>4. then = [now EXCEPT ![fd] = "closed"]
  <2>1. ASSUME NEW g \in Fds PROVE then[g] = IF g = fd THEN "closed" ELSE now[g]
    BY <1>2, <1>3 DEF FileOf, Opened
  <2> QED
    BY <2>1
<1>5. now[fd] # "closed"
  BY <1>1, FsAssumption DEF FileOf
<1>6. now' = then
  OBVIOUS
<1> QED
  BY <1>1, <1>4, <1>5, <1>6 DEF OF!Next, OF!Close

\* The file service implements the table of open files: through any sequence of
\* requests a descriptor designates the file it was opened on until it is closed,
\* and no descriptor is handed out twice.
THEOREM FsImplementsOpenFiles == Spec => OpenFilesSpec
<1>1. Init => OF!Init
  BY DEF Init, OF!Init, FileOf, Opened
<1>2. IInv /\ IInv' /\ [Next]_vars
        => [OF!Next]_<<[fd \in Fds |-> FileOf(fd)], 3..(next_fd - 1)>>
  <2> SUFFICES ASSUME IInv, IInv', [Next]_vars
               PROVE  \/ OF!Next
                      \/ UNCHANGED <<[fd \in Fds |-> FileOf(fd)], 3..(next_fd - 1)>>
    OBVIOUS
  <2>1. CASE \E p \in Paths : Install(p, files) \/ Install(p, Created(p))
    BY <2>1, OpenMaps
  <2>2. CASE \E fd \in Fds : Close(fd)
    BY <2>2, CloseMaps
  <2>3. CASE Kept
    BY <2>3 DEF Kept, FileOf, Opened
  <2> QED
    BY <2>1, <2>2, <2>3, Shape
<1> QED
  BY <1>1, <1>2, FsInductive, PTL DEF Spec, OpenFilesSpec, OF!Spec
=============================================================================
