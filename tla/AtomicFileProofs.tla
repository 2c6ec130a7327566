-------------------------- MODULE AtomicFileProofs --------------------------
(***************************************************************************)
(* Theorems about AtomicFile, for any number of writers and readers, any   *)
(* contents, names and inodes.                                             *)
(*                                                                         *)
(* None of the properties is inductive.  AtomicInv adds what each process  *)
(* knows at its place (WriterInv, ReaderInv), that no two names share an   *)
(* inode, that an inode still being written is neither the destination nor *)
(* open for reading (Apart), and that what the destination names, now or   *)
(* after a power loss, is whole and on disk (DestInv).                     *)
(***************************************************************************)
EXTENDS AtomicFile, SequenceTheorems, TLAPS

\* The first n parts of j's contents.
Prefix(j, n) == [k \in 1..n |-> <<j.of, k>>]
Part == {<<j.of, k>> : j \in Jobs, k \in Nat}
InodeType == [data : Seq(Part), disk : Nat, mode : {"0600", "0644"}]
Written(w) == inode[dir[temp[w]]]

KernelTypes ==
  /\ dir \in [Names -> Inodes \cup {NoInode}]
  /\ diskDir \in [Names -> Inodes \cup {NoInode}]
  /\ inode \in [Inodes -> InodeType]
  /\ \A i \in Inodes : inode[i].disk <= Len(inode[i].data)
PcTypes ==
  /\ pc = [p \in Processes |-> pc[p]]
  /\ \A w \in Writers : pc[w] \in WriterStates
  /\ \A r \in Readers : pc[r] \in ReaderStates
CallTypes ==
  /\ PcTypes
  /\ job \in [Processes -> Jobs \cup {NoJob}]
  /\ temp \in [Processes -> Temps \cup {NoName}]
  /\ fd \in [Processes -> Inodes \cup {NoInode}]
  /\ done \in [Processes -> Nat] /\ size \in [Processes -> Nat]
  /\ got \in [Processes -> Seq(Part)]
Types == KernelTypes /\ CallTypes

OneName(d) == \A m, n \in Names : d[m] = d[n] /\ d[m] # NoInode => m = n
NamesInv == OneName(dir) /\ OneName(diskDir)

Whole(i) ==
  /\ inode[i].disk = Len(inode[i].data)
  /\ \/ \E j \in Jobs : inode[i].data = Prefix(j, j.parts)
     \/ Truncations /\ inode[i].data = <<>>
DestInv ==
  /\ dir[Dest] # NoInode => Whole(dir[Dest])
  /\ diskDir[Dest] # NoInode => Whole(diskDir[Dest])

WriterInv(w) ==
  /\ pc[w] \in {"mkstemp"} \cup InProgress => job[w] \in Jobs
  /\ pc[w] \notin {"write", "close", "rename"} => done[w] = 0
  /\ pc[w] \in InProgress => temp[w] \in Temps /\ dir[temp[w]] \in Inodes
  /\ pc[w] \in {"fchmod", "write", "close"} => fd[w] = dir[temp[w]]
  /\ pc[w] = "fchmod" => Written(w).data = <<>>
  /\ pc[w] = "write" => /\ done[w] <= job[w].parts
                        /\ Written(w).data = Prefix(job[w], done[w])
                        /\ Written(w).mode = job[w].mode
  /\ pc[w] \in {"close", "rename"} =>
       /\ Written(w).data = Prefix(job[w], job[w].parts)
       /\ Written(w).disk = Len(Written(w).data)
WritersInv == \A w \in Writers : WriterInv(w)

Apart ==
  \A w \in Writers : pc[w] \in InProgress =>
    /\ diskDir[Dest] # dir[temp[w]]
    /\ \A v \in Writers : pc[v] \in InProgress /\ temp[v] = temp[w] => v = w
    /\ \A r \in Readers : fd[r] # dir[temp[w]]

ReadInv(r) ==
  \/ \E j \in Jobs :
       /\ size[r] = j.parts /\ done[r] <= size[r] /\ got[r] = Prefix(j, done[r])
       /\ inode[fd[r]].data \in {Prefix(j, j.parts), <<>>}
  \/ Truncations /\ size[r] = 0 /\ done[r] = 0 /\ got[r] = <<>>
ReaderInv(r) ==
  /\ pc[r] \in {"fstat", "read"} => fd[r] \in Inodes
  /\ pc[r] = "fstat" => Whole(fd[r])
  /\ pc[r] \in {"idle", "fstat"} => got[r] = <<>>
  /\ pc[r] # "read" => done[r] = 0
  /\ pc[r] = "read" => ReadInv(r)
  /\ pc[r] = "MC_OK" => \/ \E j \in Jobs : got[r] = Prefix(j, j.parts)
                        \/ Truncations /\ got[r] = <<>>
ReadersInv == \A r \in Readers : ReaderInv(r)

PrivateInv ==
  \A i \in Inodes : \A k \in DOMAIN inode[i].data :
    \E j \in Jobs : inode[i].data[k][1] = j.of /\ inode[i].mode = j.mode

AtomicInv ==
  Types /\ NamesInv /\ DestInv /\ WritersInv /\ Apart /\ ReadersInv /\ PrivateInv

----------------------------------------------------------------------------
(* The parts of a file.                                                    *)

LEMMA PrefixIsSeq ==
  ASSUME NEW j \in Jobs, NEW n \in Nat
  PROVE  /\ Prefix(j, n) \in Seq(Part) /\ Len(Prefix(j, n)) = n
         /\ DOMAIN Prefix(j, n) = 1..n
         /\ \A k \in 1..n : Prefix(j, n)[k] = <<j.of, k>>
<1>1. \A k \in 1..n : <<j.of, k>> \in Part BY DEF Part
<1> QED BY <1>1 DEF Prefix

LEMMA PrefixIsEmpty == \A j \in Jobs : Prefix(j, 0) = <<>>
BY PrefixIsSeq DEF Prefix

LEMMA ContentsIsPrefix == \A j \in Jobs : Contents(j) = Prefix(j, j.parts)
BY DEF Contents, Prefix

LEMMA PrefixGrows ==
  ASSUME NEW j \in Jobs, NEW n \in Nat, n < j.parts
  PROVE  /\ Append(Prefix(j, n), Prefix(j, j.parts)[n + 1]) = Prefix(j, n + 1)
         /\ Prefix(j, j.parts)[n + 1] \in Part
<1> DEFINE p == Prefix(j, n)
           t == Prefix(j, n + 1)
           e == <<j.of, n + 1>>
<1>1. j.parts \in Nat BY AtomicFileAssumption
<1>2. n + 1 \in 1..j.parts BY <1>1
<1>3. Prefix(j, j.parts)[n + 1] = e BY <1>1, <1>2, PrefixIsSeq
<1>4. e \in Part BY DEF Part
<1>5. p \in Seq(Part) /\ Len(p) = n /\ \A k \in 1..n : p[k] = <<j.of, k>> BY PrefixIsSeq
<1>6. /\ t \in Seq(Part) /\ Len(t) = n + 1 /\ t[n + 1] = e
      /\ \A k \in 1..n : t[k] = <<j.of, k>>
  <2>1. n + 1 \in Nat /\ n + 1 \in 1..(n + 1) OBVIOUS
  <2>2. /\ t \in Seq(Part) /\ Len(t) = n + 1
        /\ \A k \in 1..(n + 1) : t[k] = <<j.of, k>>
    BY <2>1, PrefixIsSeq
  <2> QED BY <2>1, <2>2
<1> HIDE DEF p, t, e
<1>7. Append(p, e) = t
  <2>1. /\ Append(p, e) \in Seq(Part) /\ Len(Append(p, e)) = n + 1
        /\ \A k \in 1..n : Append(p, e)[k] = p[k]
        /\ Append(p, e)[n + 1] = e
    BY <1>4, <1>5, AppendProperties
  <2>2. \A k \in 1..(n + 1) : k \in 1..n \/ k = n + 1
    OBVIOUS
  <2>3. \A k \in 1..(n + 1) : Append(p, e)[k] = t[k]
    BY <1>5, <1>6, <2>1, <2>2
  <2> QED BY <1>6, <2>1, <2>3, SeqEqual
<1> QED BY <1>3, <1>4, <1>7 DEF p, t, e

LEMMA WholeSubSeq ==
  ASSUME NEW s \in Seq(Part) PROVE SubSeq(s, 1, Len(s)) = s
OBVIOUS

LEMMA FirstPartsOf ==
  ASSUME NEW s \in Seq(Part), NEW n \in Nat, n <= Len(s)
  PROVE  /\ SubSeq(s, 1, n) \in Seq(Part) /\ Len(SubSeq(s, 1, n)) = n
         /\ \A k \in 1..n : SubSeq(s, 1, n)[k] = s[k]
OBVIOUS

----------------------------------------------------------------------------
(* The steps.                                                              *)

\* A process's step that leaves the kernel alone.
LEMMA KernelUnchanged ==
  ASSUME AtomicInv, UNCHANGED kernelVars
  PROVE  KernelTypes' /\ NamesInv' /\ DestInv' /\ PrivateInv'
BY DEF AtomicInv, Types, KernelTypes, NamesInv, OneName, DestInv, Whole, PrivateInv, kernelVars

\* What others know does not change when a process changes only its own state.
Same(p) ==
  /\ pc'[p] = pc[p] /\ job'[p] = job[p] /\ temp'[p] = temp[p] /\ fd'[p] = fd[p]
  /\ done'[p] = done[p] /\ size'[p] = size[p] /\ got'[p] = got[p]

LEMMA WriterUntouched ==
  ASSUME NEW w \in Writers, WriterInv(w), Same(w), dir'[temp[w]] = dir[temp[w]],
         inode'[dir[temp[w]]] = inode[dir[temp[w]]]
  PROVE  WriterInv(w)'
BY DEF WriterInv, Same, Written, InProgress

LEMMA ReaderUntouched ==
  ASSUME NEW r \in Readers, ReaderInv(r), Same(r), inode'[fd[r]] = inode[fd[r]]
  PROVE  ReaderInv(r)'
BY DEF ReaderInv, ReadInv, Whole, Same

LEMMA OtherWriters ==
  ASSUME AtomicInv, UNCHANGED kernelVars, NEW p \in Processes,
         \A q \in Processes \ {p} : Same(q), p \in Writers => WriterInv(p)'
  PROVE  WritersInv'
<1> SUFFICES ASSUME NEW v \in Writers, v # p PROVE WriterInv(v)'
  BY DEF WritersInv
<1> QED BY WriterUntouched DEF AtomicInv, WritersInv, kernelVars, Processes

LEMMA OtherReaders ==
  ASSUME AtomicInv, UNCHANGED kernelVars, NEW p \in Processes,
         \A q \in Processes \ {p} : Same(q), p \in Readers => ReaderInv(p)'
  PROVE  ReadersInv'
<1> SUFFICES ASSUME NEW v \in Readers, v # p PROVE ReaderInv(v)'
  BY DEF ReadersInv
<1> QED BY ReaderUntouched DEF AtomicInv, ReadersInv, kernelVars, Processes

\* No step of a process's own makes it hold an inode that is being written.
LEMMA StillApart ==
  ASSUME AtomicInv, UNCHANGED kernelVars, NEW p \in Processes,
         \A q \in Processes \ {p} : Same(q),
         p \in Writers /\ pc'[p] \in InProgress => pc[p] \in InProgress /\ temp'[p] = temp[p],
         p \in Readers => fd'[p] \in {fd[p], NoInode, dir[Dest]}
  PROVE  Apart'
<1> SUFFICES ASSUME NEW w \in Writers, pc'[w] \in InProgress
    PROVE  /\ diskDir'[Dest] # dir'[temp'[w]]
           /\ \A v \in Writers : pc'[v] \in InProgress /\ temp'[v] = temp'[w] => v = w
           /\ \A r \in Readers : fd'[r] # dir'[temp'[w]]
  BY DEF Apart
<1>1. \A v \in Writers : pc'[v] \in InProgress => pc[v] \in InProgress /\ temp'[v] = temp[v]
  BY DEF Same, Processes
<1>2. /\ temp[w] \in Temps /\ dir[temp[w]] \in Inodes
      /\ dir[temp[w]] # NoInode /\ dir[temp[w]] # dir[Dest]
  BY <1>1, AtomicFileAssumption DEF AtomicInv, WritersInv, WriterInv, NamesInv, OneName, Names
<1>3. \A r \in Readers : fd'[r] \in {fd[r], NoInode, dir[Dest]}
  BY DEF Same, Processes
<1> QED BY <1>1, <1>2, <1>3 DEF AtomicInv, Apart, kernelVars

\* A step of one process that leaves the kernel alone.
LEMMA OwnStep ==
  ASSUME AtomicInv, UNCHANGED kernelVars, CallTypes', NEW p \in Processes,
         \A q \in Processes \ {p} : Same(q),
         p \in Writers => WriterInv(p)', p \in Readers => ReaderInv(p)',
         p \in Writers /\ pc'[p] \in InProgress => pc[p] \in InProgress /\ temp'[p] = temp[p],
         p \in Readers => fd'[p] \in {fd[p], NoInode, dir[Dest]}
  PROVE  AtomicInv'
BY KernelUnchanged, OtherWriters, OtherReaders, StillApart DEF AtomicInv, Types

LEMMA GotoTypes ==
  ASSUME PcTypes, NEW p \in Processes, NEW step, Goto(p, step),
         p \in Writers => step \in WriterStates, p \in Readers => step \in ReaderStates
  PROVE  PcTypes' /\ pc'[p] = step /\ \A q \in Processes \ {p} : pc'[q] = pc[q]
<1>1. pc'[p] = step /\ \A q \in Processes \ {p} : pc'[q] = pc[q]
  BY DEF Goto, PcTypes
<1>2. pc' = [q \in Processes |-> pc'[q]] BY DEF Goto, PcTypes
<1>3. \A w \in Writers : pc'[w] \in WriterStates BY <1>1 DEF PcTypes, Processes
<1>4. \A r \in Readers : pc'[r] \in ReaderStates BY <1>1 DEF PcTypes, Processes
<1> QED BY <1>1, <1>2, <1>3, <1>4 DEF PcTypes

\* After Return the process holds nothing but, if it is a reader, its bytes.
Returned(p, status) ==
  /\ pc'[p] = status /\ fd'[p] = NoInode /\ temp'[p] = NoName /\ done'[p] = 0 /\ size'[p] = 0
  /\ \A q \in Processes \ {p} : /\ pc'[q] = pc[q] /\ fd'[q] = fd[q] /\ temp'[q] = temp[q]
                                 /\ done'[q] = done[q] /\ size'[q] = size[q]

LEMMA ReturnTypes ==
  ASSUME CallTypes, NEW p \in Processes, NEW status, Return(p, status),
         p \in Writers => status \in WriterStates, p \in Readers => status \in ReaderStates
  PROVE  /\ PcTypes' /\ Returned(p, status)
         /\ fd' \in [Processes -> Inodes \cup {NoInode}]
         /\ temp' \in [Processes -> Temps \cup {NoName}]
         /\ done' \in [Processes -> Nat] /\ size' \in [Processes -> Nat]
<1>1. PcTypes' /\ pc'[p] = status /\ \A q \in Processes \ {p} : pc'[q] = pc[q]
  BY GotoTypes DEF Return, CallTypes
<1> QED BY <1>1 DEF Return, Returned, CallTypes

LEMMA StartWriteStep ==
  ASSUME AtomicInv, NEW w \in Writers, StartWrite(w) PROVE AtomicInv'
<1>1. UNCHANGED kernelVars /\ w \in Processes /\ w \notin Readers
  BY AtomicFileAssumption DEF StartWrite, Processes
<1>2. PcTypes' /\ pc'[w] = "mkstemp" /\ \A q \in Processes \ {w} : pc'[q] = pc[q]
  <2>1. PcTypes /\ Goto(w, "mkstemp") /\ "mkstemp" \in WriterStates
    BY DEF StartWrite, AtomicInv, Types, CallTypes, WriterStates
  <2> QED BY <1>1, <2>1, GotoTypes
<1>3. CallTypes'
  BY <1>2 DEF StartWrite, AtomicInv, Types, CallTypes
<1>4. \A p \in Processes \ {w} : Same(p)
  BY <1>2 DEF StartWrite, AtomicInv, Types, CallTypes, Same
<1>5. job'[w] \in Jobs /\ done'[w] = 0
  BY <1>1 DEF StartWrite, AtomicInv, Types, CallTypes, WritersInv, WriterInv
<1>6. WriterInv(w)'
  BY <1>2, <1>5 DEF WriterInv, InProgress
<1> QED BY <1>1, <1>2, <1>3, <1>4, <1>6, OwnStep DEF InProgress

\* Any reader's call that fails, and a writer's that did before mkstemp.
LEMMA ReturnStep ==
  ASSUME AtomicInv, NEW p \in Processes, NEW status, Return(p, status), UNCHANGED kernelVars,
         UNCHANGED job, got' \in [Processes -> Seq(Part)],
         \A q \in Processes \ {p} : got'[q] = got[q],
         status \in {"MC_OK", "MC_ERR_IO", "MC_ERR_TOO_LARGE", "MC_ERR_MEMORY"},
         p \in Writers => status \in WriterStates,
         p \in Readers /\ status = "MC_OK" =>
           \/ \E j \in Jobs : got'[p] = Prefix(j, j.parts)
           \/ Truncations /\ got'[p] = <<>>
  PROVE  AtomicInv'
<1>1. status \in ReaderStates BY DEF ReaderStates
<1>2. CallTypes BY DEF AtomicInv, Types
<1>3. /\ PcTypes' /\ Returned(p, status)
      /\ fd' \in [Processes -> Inodes \cup {NoInode}]
      /\ temp' \in [Processes -> Temps \cup {NoName}]
      /\ done' \in [Processes -> Nat] /\ size' \in [Processes -> Nat]
  BY <1>1, <1>2, ReturnTypes
<1>4. CallTypes' BY <1>2, <1>3 DEF CallTypes
<1>5. \A q \in Processes \ {p} : Same(q) BY <1>3 DEF Returned, Same
<1>6. p \in Writers => WriterInv(p)' BY <1>3 DEF Returned, WriterInv, InProgress
<1>7. p \in Readers => ReaderInv(p)' BY <1>3 DEF Returned, ReaderInv
<1>8. pc'[p] \notin InProgress /\ fd'[p] = NoInode BY <1>3 DEF Returned, InProgress
<1> QED BY <1>4, <1>5, <1>6, <1>7, <1>8, OwnStep

LEMMA FailReadStep ==
  ASSUME AtomicInv, NEW r \in Readers, NEW status,
         status \in {"MC_ERR_IO", "MC_ERR_TOO_LARGE", "MC_ERR_MEMORY"}, FailRead(r, status)
  PROVE  AtomicInv'
<1>1. r \in Processes /\ r \notin Writers BY AtomicFileAssumption DEF Processes
<1>2. /\ Return(r, status) /\ UNCHANGED kernelVars /\ UNCHANGED job
      /\ got' = [got EXCEPT ![r] = <<>>]
  BY DEF FailRead
<1>3. got' \in [Processes -> Seq(Part)] /\ \A q \in Processes \ {r} : got'[q] = got[q]
  <2>1. got \in [Processes -> Seq(Part)] BY DEF AtomicInv, Types, CallTypes
  <2>2. <<>> \in Seq(Part) OBVIOUS
  <2> QED BY <1>2, <2>1, <2>2
<1> QED BY <1>1, <1>2, <1>3, ReturnStep

LEMMA CollectStep ==
  ASSUME AtomicInv, NEW p \in Processes, Collect(p) PROVE AtomicInv'
<1>1. /\ UNCHANGED kernelVars /\ Goto(p, "idle") /\ UNCHANGED <<temp, fd, done, size>>
      /\ pc[p] \in {"MC_OK", "MC_ERR_IO", "MC_ERR_TOO_LARGE", "MC_ERR_MEMORY"}
      /\ job' = [job EXCEPT ![p] = NoJob] /\ got' = [got EXCEPT ![p] = <<>>]
  BY DEF Collect
<1>2. PcTypes' /\ pc'[p] = "idle" /\ \A q \in Processes \ {p} : pc'[q] = pc[q]
  <2>1. PcTypes /\ "idle" \in WriterStates /\ "idle" \in ReaderStates
    BY DEF AtomicInv, Types, CallTypes, WriterStates, ReaderStates
  <2> QED BY <1>1, <2>1, GotoTypes
<1>3. CallTypes' /\ got'[p] = <<>>
  BY <1>1, <1>2 DEF AtomicInv, Types, CallTypes
<1>4. \A q \in Processes \ {p} : Same(q)
  BY <1>1, <1>2 DEF AtomicInv, Types, CallTypes, Same
<1>5. p \in Writers => WriterInv(p)'
  BY <1>1, <1>2 DEF WriterInv, InProgress, AtomicInv, WritersInv
<1>6. p \in Readers => ReaderInv(p)'
  <2>1. p \in Readers => done[p] = 0
    BY <1>1 DEF AtomicInv, ReadersInv, ReaderInv
  <2> QED BY <1>1, <1>2, <1>3, <2>1 DEF ReaderInv
<1> QED BY <1>1, <1>2, <1>3, <1>4, <1>5, <1>6, OwnStep DEF InProgress

LEMMA CloseStep ==
  ASSUME AtomicInv, NEW w \in Writers, pc[w] = "close", Goto(w, "rename"),
         fd' = [fd EXCEPT ![w] = NoInode], UNCHANGED <<kernelVars, job, temp, done, size, got>>
  PROVE  AtomicInv'
<1>1. w \in Processes /\ w \notin Readers BY AtomicFileAssumption DEF Processes
<1>2. PcTypes' /\ pc'[w] = "rename" /\ \A q \in Processes \ {w} : pc'[q] = pc[q]
  <2>1. PcTypes /\ "rename" \in WriterStates
    BY DEF AtomicInv, Types, CallTypes, WriterStates
  <2> QED BY <1>1, <2>1, GotoTypes
<1>3. CallTypes' BY <1>2 DEF AtomicInv, Types, CallTypes
<1>4. \A q \in Processes \ {w} : Same(q)
  BY <1>2 DEF AtomicInv, Types, CallTypes, Same
<1>5. WriterInv(w)'
  BY <1>2 DEF WriterInv, InProgress, AtomicInv, WritersInv, Written, kernelVars
<1> QED BY <1>1, <1>2, <1>3, <1>4, <1>5, OwnStep DEF InProgress

LEMMA OpenReadStep ==
  ASSUME AtomicInv, NEW r \in Readers, OpenRead(r) PROVE AtomicInv'
<1>1. r \in Processes /\ r \notin Writers BY AtomicFileAssumption DEF Processes
<1>2. /\ pc[r] = "idle" /\ dir[Dest] # NoInode /\ Goto(r, "fstat")
      /\ fd' = [fd EXCEPT ![r] = dir[Dest]]
      /\ UNCHANGED kernelVars /\ UNCHANGED <<job, temp, done, size, got>>
  BY DEF OpenRead
<1>3. PcTypes' /\ pc'[r] = "fstat" /\ \A q \in Processes \ {r} : pc'[q] = pc[q]
  <2>1. PcTypes /\ "fstat" \in ReaderStates
    BY DEF AtomicInv, Types, CallTypes, ReaderStates
  <2> QED BY <1>1, <1>2, <2>1, GotoTypes
<1>4. dir[Dest] \in Inodes
  BY <1>2 DEF AtomicInv, Types, KernelTypes, Names
<1>5. CallTypes' BY <1>2, <1>3, <1>4 DEF AtomicInv, Types, CallTypes
<1>6. \A q \in Processes \ {r} : Same(q)
  BY <1>2, <1>3 DEF AtomicInv, Types, CallTypes, Same
<1>7. fd'[r] = dir[Dest] BY <1>1, <1>2 DEF AtomicInv, Types, CallTypes
<1>8. ReaderInv(r)'
  <2>1. Whole(dir[Dest])' BY <1>2 DEF AtomicInv, DestInv, Whole, kernelVars
  <2>2. got'[r] = <<>> /\ done'[r] = 0
    BY <1>2 DEF AtomicInv, ReadersInv, ReaderInv
  <2>3. Whole(fd[r])' BY <2>1, <1>7, <1>2 DEF Whole, kernelVars
  <2> QED BY <1>3, <1>4, <1>7, <2>2, <2>3 DEF ReaderInv
<1> QED BY <1>1, <1>2, <1>5, <1>6, <1>7, <1>8, OwnStep

LEMMA StatStep ==
  ASSUME AtomicInv, NEW r \in Readers, Stat(r) PROVE AtomicInv'
<1>1. r \in Processes /\ r \notin Writers BY AtomicFileAssumption DEF Processes
<1>2. CASE FailRead(r, "MC_ERR_TOO_LARGE") \/ FailRead(r, "MC_ERR_MEMORY")
  BY <1>2, FailReadStep
<1>3. CASE /\ size' = [size EXCEPT ![r] = Len(inode[fd[r]].data)] /\ Goto(r, "read")
           /\ pc[r] = "fstat" /\ UNCHANGED kernelVars
           /\ UNCHANGED <<job, temp, fd, done, got>>
  <2>1. PcTypes' /\ pc'[r] = "read" /\ \A q \in Processes \ {r} : pc'[q] = pc[q]
    <3>1. PcTypes /\ "read" \in ReaderStates
      BY DEF AtomicInv, Types, CallTypes, ReaderStates
    <3> QED BY <1>1, <1>3, <3>1, GotoTypes
  <2>2. fd[r] \in Inodes /\ Whole(fd[r]) /\ done[r] = 0 /\ got[r] = <<>>
    BY <1>3 DEF AtomicInv, ReadersInv, ReaderInv
  <2>3. inode[fd[r]].data \in Seq(Part)
    BY <2>2 DEF AtomicInv, Types, KernelTypes, InodeType
  <2>4. size \in [Processes -> Nat] /\ Len(inode[fd[r]].data) \in Nat
    BY <2>3 DEF AtomicInv, Types, CallTypes
  <2>5. /\ size' \in [Processes -> Nat] /\ size'[r] = Len(inode[fd[r]].data)
        /\ \A q \in Processes \ {r} : size'[q] = size[q]
    BY <1>1, <1>3, <2>4
  <2>6. CallTypes' BY <1>3, <2>1, <2>5 DEF AtomicInv, Types, CallTypes
  <2>7. \A q \in Processes \ {r} : Same(q) BY <1>3, <2>1, <2>5 DEF Same
  <2>8. ReadInv(r)'
    <3>1. CASE \E j \in Jobs : inode[fd[r]].data = Prefix(j, j.parts)
      <4>1. PICK j \in Jobs : inode[fd[r]].data = Prefix(j, j.parts) BY <3>1
      <4>2. j.parts \in Nat BY AtomicFileAssumption
      <4>3. size'[r] = j.parts BY <2>5, <4>1, <4>2, PrefixIsSeq
      <4>4. got'[r] = Prefix(j, done'[r]) /\ done'[r] = 0 BY <1>3, <2>2, PrefixIsEmpty
      <4>5. inode'[fd'[r]].data = Prefix(j, j.parts) BY <1>3, <4>1 DEF kernelVars
      <4> QED BY <4>2, <4>3, <4>4, <4>5 DEF ReadInv
    <3>2. CASE Truncations /\ inode[fd[r]].data = <<>>
      BY <1>3, <2>2, <2>5, <3>2 DEF ReadInv
    <3> QED BY <2>2, <3>1, <3>2 DEF Whole
  <2>9. ReaderInv(r)' BY <1>3, <2>1, <2>2, <2>8 DEF ReaderInv
  <2> QED BY <1>1, <1>3, <2>6, <2>7, <2>9, OwnStep
<1> QED BY <1>2, <1>3 DEF Stat

LEMMA ReadPartStep ==
  ASSUME AtomicInv, NEW r \in Readers, ReadPart(r) PROVE AtomicInv'
<1> DEFINE data == inode[fd[r]].data
<1>1. r \in Processes /\ r \notin Writers BY AtomicFileAssumption DEF Processes
<1>2. /\ pc[r] = "read" /\ done[r] < size[r] /\ done[r] < Len(data)
      /\ got' = [got EXCEPT ![r] = Append(@, data[done[r] + 1])]
      /\ done' = [done EXCEPT ![r] = @ + 1]
      /\ UNCHANGED kernelVars /\ UNCHANGED <<pc, job, temp, fd, size>>
  BY DEF ReadPart, Reading
<1>3. done \in [Processes -> Nat] /\ size \in [Processes -> Nat] /\ got \in [Processes -> Seq(Part)]
  BY DEF AtomicInv, Types, CallTypes
<1>4. PICK j \in Jobs : /\ size[r] = j.parts /\ got[r] = Prefix(j, done[r])
                        /\ data \in {Prefix(j, j.parts), <<>>}
  <2>1. ReadInv(r) BY <1>2 DEF AtomicInv, ReadersInv, ReaderInv
  <2>2. ~(size[r] = 0 /\ done[r] = 0) BY <1>2
  <2> QED BY <2>1, <2>2 DEF ReadInv
<1>5. done[r] \in Nat /\ j.parts \in Nat /\ done[r] < j.parts
  BY <1>1, <1>2, <1>3, <1>4, AtomicFileAssumption
<1>6. data = Prefix(j, j.parts) BY <1>2, <1>4, <1>5
<1> HIDE DEF data
<1>7. /\ Append(got[r], data[done[r] + 1]) = Prefix(j, done[r] + 1)
      /\ data[done[r] + 1] \in Part
  BY <1>4, <1>5, <1>6, PrefixGrows
<1>8. Prefix(j, done[r] + 1) \in Seq(Part)
  <2>1. done[r] + 1 \in Nat BY <1>5
  <2> QED BY <2>1, PrefixIsSeq
<1>9. /\ got' \in [Processes -> Seq(Part)] /\ got'[r] = Prefix(j, done[r] + 1)
      /\ \A q \in Processes \ {r} : got'[q] = got[q]
  BY <1>1, <1>2, <1>3, <1>7, <1>8
<1>10. /\ done' \in [Processes -> Nat] /\ done'[r] = done[r] + 1
       /\ \A q \in Processes \ {r} : done'[q] = done[q]
  BY <1>1, <1>2, <1>3
<1>11. CallTypes' BY <1>2, <1>9, <1>10 DEF AtomicInv, Types, CallTypes, PcTypes
<1>12. \A q \in Processes \ {r} : Same(q) BY <1>2, <1>9, <1>10 DEF Same
<1>13. ReadInv(r)'
  <2>1. size'[r] = j.parts /\ done'[r] <= size'[r] BY <1>2, <1>4, <1>5, <1>10
  <2>2. inode'[fd'[r]].data = Prefix(j, j.parts) BY <1>2, <1>6 DEF data, kernelVars
  <2>3. got'[r] = Prefix(j, done'[r]) BY <1>9, <1>10
  <2> QED BY <2>1, <2>2, <2>3 DEF ReadInv
<1>14. ReaderInv(r)' 
  <2>1. fd[r] \in Inodes BY <1>2 DEF AtomicInv, ReadersInv, ReaderInv
  <2> QED BY <1>2, <1>13, <2>1 DEF ReaderInv
<1> QED BY <1>1, <1>2, <1>11, <1>12, <1>14, OwnStep

LEMMA EndReadStep ==
  ASSUME AtomicInv, NEW r \in Readers, EndRead(r) PROVE AtomicInv'
<1>1. r \in Processes /\ r \notin Writers BY AtomicFileAssumption DEF Processes
<1>2. /\ pc[r] = "read" /\ done[r] = size[r] /\ Return(r, "MC_OK")
      /\ UNCHANGED kernelVars /\ UNCHANGED job /\ got' = got
  BY DEF EndRead
<1>3. got' \in [Processes -> Seq(Part)] BY <1>2 DEF AtomicInv, Types, CallTypes
<1>4. \/ \E j \in Jobs : got[r] = Prefix(j, j.parts)
      \/ Truncations /\ got[r] = <<>>
  BY <1>2 DEF AtomicInv, ReadersInv, ReaderInv, ReadInv
<1> QED BY <1>1, <1>2, <1>3, <1>4, ReturnStep

----------------------------------------------------------------------------
(* Steps of a writer on the inode it is writing.                           *)

\* No other name, no reader and neither version of the destination has it.
LEMMA OwnInode ==
  ASSUME AtomicInv, NEW w \in Writers, pc[w] \in InProgress
  PROVE  /\ temp[w] \in Temps /\ temp[w] \in Names /\ temp[w] # Dest
         /\ dir[temp[w]] \in Inodes /\ dir[temp[w]] # NoInode
         /\ dir[Dest] # dir[temp[w]] /\ diskDir[Dest] # dir[temp[w]]
         /\ \A r \in Readers : fd[r] # dir[temp[w]]
         /\ \A v \in Writers \ {w} : pc[v] \in InProgress => dir[temp[v]] # dir[temp[w]]
<1>1. temp[w] \in Temps /\ dir[temp[w]] \in Inodes /\ dir[temp[w]] # NoInode
  BY AtomicFileAssumption DEF AtomicInv, WritersInv, WriterInv
<1>2. temp[w] \in Names /\ temp[w] # Dest /\ Dest \in Names
  BY <1>1, AtomicFileAssumption DEF Names
<1>3. dir[Dest] # dir[temp[w]]
  BY <1>1, <1>2 DEF AtomicInv, NamesInv, OneName
<1>4. ASSUME NEW v \in Writers \ {w}, pc[v] \in InProgress PROVE dir[temp[v]] # dir[temp[w]]
  <2>1. temp[v] \in Names
    BY <1>4 DEF AtomicInv, WritersInv, WriterInv, Names
  <2>2. temp[v] # temp[w] BY <1>4 DEF AtomicInv, Apart
  <2> QED BY <1>1, <1>2, <2>1, <2>2 DEF AtomicInv, NamesInv, OneName
<1> QED BY <1>1, <1>2, <1>3, <1>4 DEF AtomicInv, Apart

(***************************************************************************)
(* A step that changes nothing but w's inode and how far w has come.       *)
(***************************************************************************)
LEMMA WritingStep ==
  ASSUME AtomicInv, NEW w \in Writers, pc[w] \in InProgress, pc'[w] \in InProgress,
         UNCHANGED <<dir, diskDir, job, temp, size, got>>, CallTypes',
         fd' = fd, \A q \in Processes \ {w} : pc'[q] = pc[q] /\ done'[q] = done[q],
         \A i \in Inodes : i # dir[temp[w]] => inode'[i] = inode[i],
         inode' \in [Inodes -> InodeType],
         Written(w)'.disk <= Len(Written(w)'.data), WriterInv(w)',
         \A k \in DOMAIN Written(w)'.data :
           \E j \in Jobs : Written(w)'.data[k][1] = j.of /\ Written(w)'.mode = j.mode
  PROVE  AtomicInv'
<1> DEFINE mine == dir[temp[w]]
<1>1. w \in Processes BY DEF Processes
<1>2. Written(w)' = inode'[mine] BY DEF Written
<1>3. KernelTypes' 
  <2>1. \A i \in Inodes : inode'[i].disk <= Len(inode'[i].data)
    BY <1>2 DEF AtomicInv, Types, KernelTypes
  <2> QED BY <2>1 DEF AtomicInv, Types, KernelTypes
<1>4. NamesInv' BY DEF AtomicInv, NamesInv, OneName
<1>5. \A i \in Inodes : Whole(i) /\ i # mine => Whole(i)' BY DEF Whole
<1>6. DestInv'
  <2>1. dir[Dest] \in Inodes \cup {NoInode} /\ diskDir[Dest] \in Inodes \cup {NoInode}
    BY DEF AtomicInv, Types, KernelTypes, Names
  <2>2. dir[Dest] # NoInode => dir[Dest] \in Inodes /\ Whole(dir[Dest]) /\ dir[Dest] # mine
    BY <2>1, OwnInode DEF AtomicInv, DestInv
  <2>3. diskDir[Dest] # NoInode => diskDir[Dest] \in Inodes /\ Whole(diskDir[Dest]) /\ diskDir[Dest] # mine
    BY <2>1, OwnInode DEF AtomicInv, DestInv
  <2>4. dir[Dest] # NoInode => Whole(dir[Dest])' BY <1>5, <2>2
  <2>5. diskDir[Dest] # NoInode => Whole(diskDir[Dest])' BY <1>5, <2>3
  <2> QED BY <2>4, <2>5 DEF DestInv, Whole
<1>7. WritersInv'
  <2> SUFFICES ASSUME NEW v \in Writers, v # w PROVE WriterInv(v)' BY DEF WritersInv
  <2>1. Same(v) BY DEF Same, Processes
  <2>2. pc[v] \in InProgress => dir[temp[v]] \in Inodes /\ dir[temp[v]] # mine
    BY OwnInode DEF AtomicInv, WritersInv, WriterInv
  <2>3. WriterInv(v) BY DEF AtomicInv, WritersInv
  <2> QED BY <2>1, <2>2, <2>3 DEF WriterInv, Same, Written, InProgress
<1>8. Apart'
  <2>1. \A v \in Writers : pc'[v] \in InProgress => pc[v] \in InProgress BY DEF Processes
  <2> QED BY <2>1 DEF AtomicInv, Apart
<1>9. ReadersInv'
  <2> SUFFICES ASSUME NEW r \in Readers PROVE ReaderInv(r)' BY DEF ReadersInv
  <2>1. Same(r) BY AtomicFileAssumption DEF Same, Processes
  <2>2. fd[r] # mine BY OwnInode
  <2>3. ReaderInv(r) BY DEF AtomicInv, ReadersInv
  <2> QED BY <2>1, <2>2, <2>3 DEF ReaderInv, ReadInv, Whole, Same
<1>10. PrivateInv'
  <2> SUFFICES ASSUME NEW i \in Inodes, NEW k \in DOMAIN inode'[i].data
      PROVE \E j \in Jobs : inode'[i].data[k][1] = j.of /\ inode'[i].mode = j.mode
    BY DEF PrivateInv
  <2>1. CASE i = mine BY <1>2, <2>1
  <2>2. CASE i # mine BY <2>2 DEF AtomicInv, PrivateInv
  <2> QED BY <2>1, <2>2
<1> QED BY <1>3, <1>4, <1>6, <1>7, <1>8, <1>9, <1>10 DEF AtomicInv, Types


\* What AtomicInv says of w's own inode, by name.
LEMMA OwnFacts ==
  ASSUME AtomicInv, NEW w \in Writers, pc[w] \in InProgress
  PROVE  /\ w \in Processes /\ w \notin Readers
         /\ job[w] \in Jobs /\ job[w].parts \in Nat /\ done[w] \in Nat
         /\ inode \in [Inodes -> InodeType] /\ Written(w) \in InodeType
         /\ PcTypes /\ WriterInv(w)
<1>1. WriterInv(w) /\ w \in Processes BY DEF AtomicInv, WritersInv, Processes
<1>2. job[w] \in Jobs BY <1>1 DEF WriterInv
<1>3. inode \in [Inodes -> InodeType] /\ Written(w) \in InodeType
  BY OwnInode DEF AtomicInv, Types, KernelTypes, Written
<1>4. PcTypes /\ done[w] \in Nat BY <1>1 DEF AtomicInv, Types, CallTypes
<1> QED BY <1>1, <1>2, <1>3, <1>4, AtomicFileAssumption DEF Processes

LEMMA FchmodStep ==
  ASSUME AtomicInv, NEW w \in Writers, pc[w] = "fchmod", Goto(w, "write"),
         inode' = [inode EXCEPT ![fd[w]].mode = FchmodMode(w)],
         UNCHANGED <<dir, diskDir, job, temp, fd, done, size, got>>
  PROVE  AtomicInv'
<1> DEFINE i == dir[temp[w]]
<1>1. pc[w] \in InProgress BY DEF InProgress
<1>2. /\ w \in Processes /\ w \notin Readers /\ job[w] \in Jobs /\ job[w].parts \in Nat
      /\ inode \in [Inodes -> InodeType] /\ inode[i] \in InodeType /\ PcTypes /\ WriterInv(w)
  BY <1>1, OwnFacts DEF Written
<1>3. fd[w] = i /\ i \in Inodes /\ done[w] = 0 /\ inode[i].data = <<>>
  BY <1>1, <1>2, OwnInode DEF WriterInv, Written
<1>4. /\ inode' \in [Inodes -> InodeType] /\ inode'[i].mode = job[w].mode
      /\ inode'[i].data = <<>> /\ inode'[i].disk = inode[i].disk
      /\ \A k \in Inodes : k # i => inode'[k] = inode[k]
  <2>1. job[w].mode \in {"0600", "0644"} BY <1>2, AtomicFileAssumption
  <2> QED BY <1>2, <1>3, <2>1 DEF FchmodMode, InodeType
<1>5. PcTypes' /\ pc'[w] = "write" /\ \A q \in Processes \ {w} : pc'[q] = pc[q]
  <2>1. "write" \in WriterStates BY DEF WriterStates
  <2> QED BY <1>2, <2>1, GotoTypes
<1>6. CallTypes' BY <1>5 DEF AtomicInv, Types, CallTypes
<1>7. Written(w)' = inode'[i] BY DEF Written
<1>8. inode[i].disk <= Len(inode[i].data) BY <1>3 DEF AtomicInv, Types, KernelTypes
<1> HIDE DEF i
<1>9. WriterInv(w)'
  <2>1. Prefix(job[w], 0) = <<>> BY <1>2, PrefixIsEmpty
  <2>2. temp'[w] \in Temps /\ dir'[temp'[w]] \in Inodes /\ fd'[w] = dir'[temp'[w]]
    BY <1>1, <1>3, OwnInode DEF i
  <2>3. /\ done'[w] <= job'[w].parts /\ Written(w)'.data = Prefix(job'[w], done'[w])
        /\ Written(w)'.mode = job'[w].mode
    BY <1>2, <1>3, <1>4, <1>7, <2>1
  <2> QED BY <1>2, <1>5, <2>2, <2>3 DEF WriterInv
<1>10. Written(w)'.disk <= Len(Written(w)'.data) BY <1>3, <1>4, <1>7, <1>8
<1>11. DOMAIN Written(w)'.data = {} BY <1>4, <1>7
<1>12. pc'[w] \in InProgress /\ \A q \in Processes \ {w} : pc'[q] = pc[q] /\ done'[q] = done[q]
  BY <1>5 DEF InProgress
<1> QED BY <1>1, <1>4, <1>6, <1>9, <1>10, <1>11, <1>12, WritingStep DEF i

LEMMA WritePartStep ==
  ASSUME AtomicInv, NEW w \in Writers, pc[w] = "write", ~WrittenFully(w),
         inode' = [inode EXCEPT ![fd[w]].data = Append(@, Contents(job[w])[done[w] + 1])],
         done' = [done EXCEPT ![w] = @ + 1],
         UNCHANGED <<dir, diskDir, pc, job, temp, fd, size, got>>
  PROVE  AtomicInv'
<1> DEFINE i == dir[temp[w]]
           e == Contents(job[w])[done[w] + 1]
<1>1. pc[w] \in InProgress BY DEF InProgress
<1>2. /\ w \in Processes /\ w \notin Readers /\ job[w] \in Jobs /\ job[w].parts \in Nat
      /\ inode \in [Inodes -> InodeType] /\ inode[i] \in InodeType /\ WriterInv(w)
      /\ done[w] \in Nat
  BY <1>1, OwnFacts DEF Written
<1>3. /\ fd[w] = i /\ i \in Inodes /\ done[w] < job[w].parts
      /\ inode[i].data = Prefix(job[w], done[w]) /\ inode[i].mode = job[w].mode
  BY <1>1, <1>2, OwnInode DEF WriterInv, Written, WrittenFully
<1>4. e \in Part /\ Append(inode[i].data, e) = Prefix(job[w], done[w] + 1)
  BY <1>2, <1>3, PrefixGrows, ContentsIsPrefix
<1>5. done[w] + 1 \in Nat /\ done[w] + 1 <= job[w].parts BY <1>2, <1>3
<1>6. /\ Prefix(job[w], done[w] + 1) \in Seq(Part)
      /\ Len(Prefix(job[w], done[w] + 1)) = done[w] + 1
      /\ DOMAIN Prefix(job[w], done[w] + 1) = 1..(done[w] + 1)
      /\ \A k \in 1..(done[w] + 1) : Prefix(job[w], done[w] + 1)[k] = <<job[w].of, k>>
  BY <1>2, <1>5, PrefixIsSeq
<1> HIDE DEF e
<1>7. /\ inode' \in [Inodes -> InodeType]
      /\ inode'[i].data = Prefix(job[w], done[w] + 1)
      /\ inode'[i].mode = inode[i].mode /\ inode'[i].disk = inode[i].disk
      /\ \A k \in Inodes : k # i => inode'[k] = inode[k]
  <2>1. inode' = [inode EXCEPT ![i].data = Prefix(job[w], done[w] + 1)]
    BY <1>2, <1>3, <1>4 DEF e
  <2>2. [inode[i] EXCEPT !.data = Prefix(job[w], done[w] + 1)] \in InodeType
    BY <1>2, <1>6 DEF InodeType
  <2>3. \A k \in Inodes :
          inode'[k] = IF k = i THEN [inode[i] EXCEPT !.data = Prefix(job[w], done[w] + 1)]
                      ELSE inode[k]
    BY <1>2, <2>1
  <2>4. inode' \in [Inodes -> InodeType] BY <1>2, <1>3, <2>1, <2>2
  <2>5. inode'[i] = [inode[i] EXCEPT !.data = Prefix(job[w], done[w] + 1)]
    BY <1>3, <2>3
  <2>6. inode[i] \in [data : Seq(Part), disk : Nat, mode : {"0600", "0644"}]
    BY <1>2 DEF InodeType
  <2> HIDE DEF i
  <2>7. /\ inode'[i].data = Prefix(job[w], done[w] + 1)
        /\ inode'[i].mode = inode[i].mode /\ inode'[i].disk = inode[i].disk
    BY <2>5, <2>6
  <2> QED BY <2>3, <2>4, <2>7
<1>8. /\ done' \in [Processes -> Nat] /\ done'[w] = done[w] + 1
      /\ \A q \in Processes \ {w} : done'[q] = done[q]
  <2>1. done \in [Processes -> Nat] BY DEF AtomicInv, Types, CallTypes
  <2> QED BY <1>2, <1>5, <2>1
<1>9. CallTypes' BY <1>8 DEF AtomicInv, Types, CallTypes, PcTypes
<1>10. Written(w)' = inode'[i] BY DEF Written
<1>11. inode[i].disk <= done[w]
  <2>1. inode[i].disk <= Len(inode[i].data) BY <1>3 DEF AtomicInv, Types, KernelTypes
  <2> QED BY <1>2, <1>3, <2>1, PrefixIsSeq
<1>12. inode[i].disk \in Nat BY <1>2 DEF InodeType
<1> HIDE DEF i
<1>13. WriterInv(w)'
  <2>1. temp'[w] \in Temps /\ dir'[temp'[w]] \in Inodes /\ fd'[w] = dir'[temp'[w]]
    BY <1>1, <1>3, OwnInode DEF i
  <2>2. /\ done'[w] <= job'[w].parts /\ Written(w)'.data = Prefix(job'[w], done'[w])
        /\ Written(w)'.mode = job'[w].mode
    BY <1>3, <1>5, <1>7, <1>8, <1>10
  <2> QED BY <1>2, <2>1, <2>2 DEF WriterInv
<1>14. Written(w)'.disk <= Len(Written(w)'.data)
  <2>1. Len(Written(w)'.data) = done[w] + 1 BY <1>6, <1>7, <1>10
  <2> QED BY <1>2, <1>7, <1>10, <1>11, <1>12, <2>1
<1>15. \A k \in DOMAIN Written(w)'.data :
         \E j \in Jobs : Written(w)'.data[k][1] = j.of /\ Written(w)'.mode = j.mode
  <2>1. \A k \in DOMAIN Written(w)'.data : Written(w)'.data[k][1] = job[w].of
    <3>1. Written(w)'.data = Prefix(job[w], done[w] + 1) BY <1>7, <1>10
    <3> QED BY <1>6, <3>1
  <2>2. Written(w)'.mode = job[w].mode BY <1>3, <1>7, <1>10
  <2> QED BY <1>2, <2>1, <2>2
<1>16. pc'[w] \in InProgress /\ \A q \in Processes \ {w} : pc'[q] = pc[q] /\ done'[q] = done[q]
  BY <1>1, <1>8
<1> QED BY <1>1, <1>7, <1>9, <1>13, <1>14, <1>15, <1>16, WritingStep DEF i

LEMMA FsyncStep ==
  ASSUME AtomicInv, NEW w \in Writers, pc[w] = "write", WrittenFully(w), Goto(w, "close"),
         inode' = [inode EXCEPT ![fd[w]].disk = Flushed(fd[w])],
         UNCHANGED <<dir, diskDir, job, temp, fd, done, size, got>>
  PROVE  AtomicInv'
<1> DEFINE i == dir[temp[w]]
<1>1. pc[w] \in InProgress BY DEF InProgress
<1>2. /\ w \in Processes /\ w \notin Readers /\ job[w] \in Jobs /\ job[w].parts \in Nat
      /\ inode \in [Inodes -> InodeType] /\ inode[i] \in InodeType /\ PcTypes /\ WriterInv(w)
  BY <1>1, OwnFacts DEF Written
<1>3. /\ fd[w] = i /\ i \in Inodes /\ inode[i].data = Prefix(job[w], job[w].parts)
  BY <1>1, <1>2, OwnInode DEF WriterInv, Written, WrittenFully
<1>4. /\ inode' \in [Inodes -> InodeType] /\ inode'[i].mode = inode[i].mode
      /\ inode'[i].data = inode[i].data /\ inode'[i].disk = Len(inode[i].data)
      /\ \A k \in Inodes : k # i => inode'[k] = inode[k]
  <2>1. Len(inode[i].data) \in Nat BY <1>2 DEF InodeType
  <2> QED BY <1>2, <1>3, <2>1 DEF Flushed, InodeType
<1>5. PcTypes' /\ pc'[w] = "close" /\ \A q \in Processes \ {w} : pc'[q] = pc[q]
  <2>1. "close" \in WriterStates BY DEF WriterStates
  <2> QED BY <1>2, <2>1, GotoTypes
<1>6. CallTypes' BY <1>5 DEF AtomicInv, Types, CallTypes
<1>7. Written(w)' = inode'[i] BY DEF Written
<1>8. \A k \in DOMAIN Written(w)'.data :
         \E j \in Jobs : Written(w)'.data[k][1] = j.of /\ Written(w)'.mode = j.mode
  BY <1>3, <1>4, <1>7 DEF AtomicInv, PrivateInv
<1>9. Len(inode[i].data) \in Nat BY <1>2 DEF InodeType
<1> HIDE DEF i
<1>10. WriterInv(w)'
  <2>1. temp'[w] \in Temps /\ dir'[temp'[w]] \in Inodes /\ fd'[w] = dir'[temp'[w]]
    BY <1>1, <1>3, OwnInode DEF i
  <2>2. /\ Written(w)'.data = Prefix(job'[w], job'[w].parts)
        /\ Written(w)'.disk = Len(Written(w)'.data)
    BY <1>3, <1>4, <1>7
  <2> QED BY <1>2, <1>5, <2>1, <2>2 DEF WriterInv
<1>11. Written(w)'.disk <= Len(Written(w)'.data) BY <1>4, <1>7, <1>9
<1>12. pc'[w] \in InProgress /\ \A q \in Processes \ {w} : pc'[q] = pc[q] /\ done'[q] = done[q]
  BY <1>5 DEF InProgress
<1> QED BY <1>1, <1>4, <1>6, <1>8, <1>10, <1>11, <1>12, WritingStep DEF i

----------------------------------------------------------------------------
(* Steps that change the directory.                                        *)

LEMMA MakeTempStep ==
  ASSUME AtomicInv, NEW w \in Writers, NEW n \in Temps, NEW i \in Inodes,
         pc[w] = "mkstemp", NameIsFree(n), Free(i), dir' = [dir EXCEPT ![n] = i],
         inode' = [inode EXCEPT ![i] = NewInode],
         temp' = [temp EXCEPT ![w] = n], fd' = [fd EXCEPT ![w] = i], Goto(w, "fchmod"),
         UNCHANGED <<diskDir, job, done, size, got>>
  PROVE  AtomicInv'
<1>1. /\ w \in Processes /\ w \notin Readers /\ n \in Names /\ n # Dest /\ Dest \in Names
      /\ i # NoInode
  BY AtomicFileAssumption DEF Processes, Names
<1>2. /\ dir \in [Names -> Inodes \cup {NoInode}] /\ inode \in [Inodes -> InodeType]
      /\ temp \in [Processes -> Temps \cup {NoName}] /\ fd \in [Processes -> Inodes \cup {NoInode}]
  BY DEF AtomicInv, Types, KernelTypes, CallTypes
<1>3. /\ dir' \in [Names -> Inodes \cup {NoInode}] /\ dir'[n] = i
      /\ \A m \in Names : m # n => dir'[m] = dir[m]
  BY <1>1, <1>2
<1>4. NewInode \in InodeType /\ NewInode.disk <= Len(NewInode.data)
  <2>1. <<>> \in Seq(Part) OBVIOUS
  <2> QED BY <2>1 DEF NewInode, InodeType
<1>5. /\ inode' \in [Inodes -> InodeType] /\ inode'[i] = NewInode
      /\ \A k \in Inodes : k # i => inode'[k] = inode[k]
  BY <1>2, <1>4
<1>6. /\ temp' \in [Processes -> Temps \cup {NoName}] /\ temp'[w] = n
      /\ fd' \in [Processes -> Inodes \cup {NoInode}] /\ fd'[w] = i
      /\ \A q \in Processes \ {w} : temp'[q] = temp[q] /\ fd'[q] = fd[q]
  BY <1>1, <1>2
<1>7. PcTypes' /\ pc'[w] = "fchmod" /\ \A q \in Processes \ {w} : pc'[q] = pc[q]
  <2>1. PcTypes /\ "fchmod" \in WriterStates
    BY DEF AtomicInv, Types, CallTypes, WriterStates
  <2> QED BY <1>1, <2>1, GotoTypes
<1>8. /\ dir[n] = NoInode /\ \A m \in Names : dir[m] # i /\ diskDir[m] # i
      /\ \A p \in Processes : fd[p] # i
  BY DEF NameIsFree, Free
<1>9. CallTypes' BY <1>6, <1>7 DEF AtomicInv, Types, CallTypes
<1>10. KernelTypes'
  <2>1. \A k \in Inodes : inode'[k].disk <= Len(inode'[k].data)
    BY <1>4, <1>5 DEF AtomicInv, Types, KernelTypes
  <2> QED BY <1>3, <1>5, <2>1 DEF AtomicInv, Types, KernelTypes
<1>11. NamesInv' BY <1>3, <1>8 DEF AtomicInv, NamesInv, OneName
<1>12. DestInv'
  <2>1. dir'[Dest] = dir[Dest] BY <1>1, <1>3
  <2>2. dir[Dest] # NoInode => dir[Dest] \in Inodes /\ dir[Dest] # i /\ Whole(dir[Dest])
    BY <1>1, <1>8 DEF AtomicInv, Types, KernelTypes, DestInv
  <2>3. diskDir[Dest] # NoInode => diskDir[Dest] \in Inodes /\ diskDir[Dest] # i /\ Whole(diskDir[Dest])
    BY <1>1, <1>8 DEF AtomicInv, Types, KernelTypes, DestInv
  <2> QED BY <1>5, <2>1, <2>2, <2>3 DEF DestInv, Whole
<1>13. \A v \in Writers \ {w} : pc[v] \in InProgress =>
         /\ temp[v] \in Temps /\ dir[temp[v]] \in Inodes /\ temp[v] # n /\ dir[temp[v]] # i
         /\ dir'[temp[v]] = dir[temp[v]]
  <2> SUFFICES ASSUME NEW v \in Writers \ {w}, pc[v] \in InProgress
      PROVE  /\ temp[v] \in Temps /\ dir[temp[v]] \in Inodes /\ temp[v] # n /\ dir[temp[v]] # i
             /\ dir'[temp[v]] = dir[temp[v]]
    OBVIOUS
  <2>1. temp[v] \in Temps /\ temp[v] \in Names /\ dir[temp[v]] \in Inodes BY OwnInode
  <2>2. temp[v] # n /\ dir[temp[v]] # i BY <1>8, <2>1, AtomicFileAssumption
  <2> QED BY <1>3, <2>1, <2>2
<1>14. WritersInv'
  <2> SUFFICES ASSUME NEW v \in Writers PROVE WriterInv(v)' BY DEF WritersInv
  <2>1. CASE v = w
    <3>1. job[w] \in Jobs /\ done[w] = 0 BY DEF AtomicInv, WritersInv, WriterInv
    <3> QED BY <1>3, <1>5, <1>6, <1>7, <2>1, <3>1 DEF WriterInv, Written, NewInode
  <2>2. CASE v # w
    <3>1. Same(v) BY <1>6, <1>7, <2>2 DEF Same, Processes
    <3>2. WriterInv(v) BY DEF AtomicInv, WritersInv
    <3>3. pc[v] \in InProgress =>
            dir'[temp[v]] = dir[temp[v]] /\ inode'[dir[temp[v]]] = inode[dir[temp[v]]]
      BY <1>5, <1>13, <2>2
    <3> QED BY <3>1, <3>2, <3>3 DEF WriterInv, Same, Written, InProgress
  <2> QED BY <2>1, <2>2
<1>15. Apart'
  <2> SUFFICES ASSUME NEW v \in Writers, pc'[v] \in InProgress
      PROVE  /\ diskDir'[Dest] # dir'[temp'[v]]
             /\ \A u \in Writers : pc'[u] \in InProgress /\ temp'[u] = temp'[v] => u = v
             /\ \A r \in Readers : fd'[r] # dir'[temp'[v]]
    BY DEF Apart
  <2>1. \A u \in Writers \ {w} : temp'[u] = temp[u] /\ pc'[u] = pc[u]
    BY <1>6, <1>7 DEF Processes
  <2>2. \A r \in Readers : r \in Processes /\ fd'[r] = fd[r]
    BY <1>1, <1>6 DEF Processes
  <2>3. CASE v = w BY <1>1, <1>3, <1>6, <1>8, <1>13, <2>1, <2>2, <2>3
  <2>4. CASE v # w
    <3>1. pc[v] \in InProgress /\ temp'[v] = temp[v] BY <2>1, <2>4
    <3>2. /\ diskDir[Dest] # dir[temp[v]] /\ \A r \in Readers : fd[r] # dir[temp[v]]
          /\ \A u \in Writers : pc[u] \in InProgress /\ temp[u] = temp[v] => u = v
      BY <3>1 DEF AtomicInv, Apart
    <3>3. dir'[temp[v]] = dir[temp[v]] /\ temp[v] # n BY <1>13, <2>4, <3>1
    <3> QED BY <1>6, <2>1, <2>2, <3>1, <3>2, <3>3
  <2> QED BY <2>3, <2>4
<1>16. ReadersInv'
  <2> SUFFICES ASSUME NEW r \in Readers PROVE ReaderInv(r)' BY DEF ReadersInv
  <2>1. Same(r) /\ fd[r] # i BY <1>1, <1>6, <1>7, <1>8 DEF Same, Processes
  <2>2. ReaderInv(r) BY DEF AtomicInv, ReadersInv
  <2> QED BY <1>5, <2>1, <2>2 DEF ReaderInv, ReadInv, Whole, Same
<1>17. PrivateInv'
  <2> SUFFICES ASSUME NEW k \in Inodes, NEW m \in DOMAIN inode'[k].data
      PROVE \E j \in Jobs : inode'[k].data[m][1] = j.of /\ inode'[k].mode = j.mode
    BY DEF PrivateInv
  <2>1. CASE k = i BY <1>5, <2>1 DEF NewInode
  <2>2. CASE k # i BY <1>5, <2>2 DEF AtomicInv, PrivateInv
  <2> QED BY <2>1, <2>2
<1> QED BY <1>9, <1>10, <1>11, <1>12, <1>14, <1>15, <1>16, <1>17 DEF AtomicInv, Types

\* The end of a write that made a temporary: its name goes, or moves to Dest.
LEMMA FinishStep ==
  ASSUME AtomicInv, NEW w \in Writers, NEW status, pc[w] \in InProgress,
         status \in {"MC_OK", "MC_ERR_IO"}, Return(w, status),
         UNCHANGED <<diskDir, inode, job, got>>, dir' \in [Names -> Inodes \cup {NoInode}],
         OneName(dir'), \A n \in Names \ {Dest, temp[w]} : dir'[n] = dir[n],
         dir'[Dest] # NoInode => Whole(dir'[Dest])
  PROVE  AtomicInv'
<1>1. w \in Processes /\ w \notin Readers BY OwnFacts
<1>2. CallTypes BY DEF AtomicInv, Types
<1>3. /\ PcTypes' /\ Returned(w, status)
      /\ fd' \in [Processes -> Inodes \cup {NoInode}]
      /\ temp' \in [Processes -> Temps \cup {NoName}]
      /\ done' \in [Processes -> Nat] /\ size' \in [Processes -> Nat]
  <2>1. status \in WriterStates BY DEF WriterStates
  <2> QED BY <1>1, <1>2, <2>1, ReturnTypes
<1>4. CallTypes' BY <1>2, <1>3 DEF CallTypes
<1>5. KernelTypes' BY DEF AtomicInv, Types, KernelTypes
<1>6. NamesInv' BY DEF AtomicInv, NamesInv, OneName
<1>7. DestInv' BY DEF AtomicInv, DestInv, Whole
<1>8. PrivateInv' BY DEF AtomicInv, PrivateInv
<1>9. \A q \in Processes \ {w} : Same(q) BY <1>3 DEF Returned, Same
<1>10. pc'[w] = status /\ pc'[w] \notin InProgress BY <1>3 DEF Returned, InProgress
<1>11. \A v \in Writers \ {w} : pc[v] \in InProgress =>
         dir[temp[v]] \in Inodes /\ dir'[temp[v]] = dir[temp[v]]
  <2> SUFFICES ASSUME NEW v \in Writers \ {w}, pc[v] \in InProgress
      PROVE dir[temp[v]] \in Inodes /\ dir'[temp[v]] = dir[temp[v]]
    OBVIOUS
  <2>1. temp[v] \in Names /\ temp[v] # Dest /\ dir[temp[v]] \in Inodes BY OwnInode
  <2>2. temp[v] # temp[w] BY DEF AtomicInv, Apart
  <2> QED BY <2>1, <2>2
<1>12. WritersInv'
  <2> SUFFICES ASSUME NEW v \in Writers PROVE WriterInv(v)' BY DEF WritersInv
  <2>1. CASE v = w BY <1>3, <2>1 DEF Returned, WriterInv, InProgress
  <2>2. CASE v # w
    <3>1. Same(v) /\ WriterInv(v)
      BY <1>9, <2>2 DEF Processes, AtomicInv, WritersInv
    <3>2. pc[v] \in InProgress =>
            dir'[temp[v]] = dir[temp[v]] /\ inode'[dir[temp[v]]] = inode[dir[temp[v]]]
      BY <1>11, <2>2
    <3> QED BY <3>1, <3>2 DEF WriterInv, Same, Written, InProgress
  <2> QED BY <2>1, <2>2
<1>13. Apart'
  <2> SUFFICES ASSUME NEW v \in Writers, pc'[v] \in InProgress
      PROVE  /\ diskDir'[Dest] # dir'[temp'[v]]
             /\ \A u \in Writers : pc'[u] \in InProgress /\ temp'[u] = temp'[v] => u = v
             /\ \A r \in Readers : fd'[r] # dir'[temp'[v]]
    BY DEF Apart
  <2>1. v # w BY <1>10
  <2>2. \A u \in Writers : u # w => pc'[u] = pc[u] /\ temp'[u] = temp[u]
    BY <1>9 DEF Same, Processes
  <2>3. \A r \in Readers : fd'[r] = fd[r] BY <1>1, <1>9 DEF Same, Processes
  <2>4. dir'[temp'[v]] = dir[temp[v]] BY <1>11, <2>1, <2>2
  <2> QED BY <1>10, <2>1, <2>2, <2>3, <2>4 DEF AtomicInv, Apart
<1>14. ReadersInv'
  <2> SUFFICES ASSUME NEW r \in Readers PROVE ReaderInv(r)' BY DEF ReadersInv
  <2>1. Same(r) /\ ReaderInv(r) BY <1>1, <1>9 DEF Processes, AtomicInv, ReadersInv
  <2> QED BY <2>1, ReaderUntouched
<1> QED BY <1>4, <1>5, <1>6, <1>7, <1>8, <1>12, <1>13, <1>14 DEF AtomicInv, Types

LEMMA FailWriteStep ==
  ASSUME AtomicInv, NEW w \in Writers, pc[w] \in InProgress, FailWrite(w)
  PROVE  AtomicInv'
<1>1. temp[w] \in Names /\ temp[w] # Dest /\ Dest \in Names BY OwnInode DEF Names
<1>2. dir \in [Names -> Inodes \cup {NoInode}] BY DEF AtomicInv, Types, KernelTypes
<1>3. /\ dir' \in [Names -> Inodes \cup {NoInode}] /\ dir'[temp[w]] = NoInode
      /\ \A n \in Names : n # temp[w] => dir'[n] = dir[n]
  BY <1>1, <1>2 DEF FailWrite, DiscardTemp
<1>4. OneName(dir') BY <1>3 DEF AtomicInv, NamesInv, OneName
<1>5. dir'[Dest] # NoInode => Whole(dir'[Dest]) BY <1>1, <1>3 DEF AtomicInv, DestInv
<1>6. Return(w, "MC_ERR_IO") /\ UNCHANGED <<diskDir, inode, job, got>> BY DEF FailWrite
<1> QED BY <1>3, <1>4, <1>5, <1>6, FinishStep

LEMMA RenameStep ==
  ASSUME AtomicInv, NEW w \in Writers, pc[w] = "rename", Return(w, "MC_OK"),
         dir' = [dir EXCEPT ![Dest] = dir[temp[w]], ![temp[w]] = NoInode],
         UNCHANGED <<diskDir, inode, job, got>>
  PROVE  AtomicInv'
<1>1. pc[w] \in InProgress BY DEF InProgress
<1>2. temp[w] \in Names /\ temp[w] # Dest /\ Dest \in Names /\ dir[temp[w]] \in Inodes
  BY <1>1, OwnInode DEF Names
<1>3. dir \in [Names -> Inodes \cup {NoInode}] BY DEF AtomicInv, Types, KernelTypes
<1>4. /\ dir' \in [Names -> Inodes \cup {NoInode}] /\ dir'[temp[w]] = NoInode
      /\ dir'[Dest] = dir[temp[w]]
      /\ \A n \in Names : n # temp[w] /\ n # Dest => dir'[n] = dir[n]
  BY <1>2, <1>3
<1>5. OneName(dir') BY <1>2, <1>4 DEF AtomicInv, NamesInv, OneName
<1>6. Whole(dir'[Dest])
  <2>1. WriterInv(w) /\ job[w] \in Jobs BY <1>1, OwnFacts
  <2> QED BY <1>4, <2>1 DEF WriterInv, Written, Whole
<1> QED BY <1>1, <1>4, <1>5, <1>6, FinishStep

----------------------------------------------------------------------------
(* The kernel's steps, and what ends a call from outside.                  *)

LEMMA KillStep ==
  ASSUME AtomicInv, NEW p \in Processes, Kill(p) PROVE AtomicInv'
<1>1. /\ UNCHANGED kernelVars /\ Goto(p, "idle")
      /\ job' = [job EXCEPT ![p] = NoJob] /\ temp' = [temp EXCEPT ![p] = NoName]
      /\ fd' = [fd EXCEPT ![p] = NoInode] /\ done' = [done EXCEPT ![p] = 0]
      /\ size' = [size EXCEPT ![p] = 0] /\ got' = [got EXCEPT ![p] = <<>>]
  BY DEF Kill
<1>2. PcTypes' /\ pc'[p] = "idle" /\ \A q \in Processes \ {p} : pc'[q] = pc[q]
  <2>1. PcTypes /\ "idle" \in WriterStates /\ "idle" \in ReaderStates
    BY DEF AtomicInv, Types, CallTypes, WriterStates, ReaderStates
  <2> QED BY <1>1, <2>1, GotoTypes
<1>3. CallTypes' /\ got'[p] = <<>> /\ fd'[p] = NoInode /\ done'[p] = 0
  BY <1>1, <1>2 DEF AtomicInv, Types, CallTypes
<1>4. \A q \in Processes \ {p} : Same(q)
  BY <1>1, <1>2 DEF AtomicInv, Types, CallTypes, Same
<1>5. p \in Writers => WriterInv(p)' BY <1>2, <1>3 DEF WriterInv, InProgress
<1>6. p \in Readers => ReaderInv(p)' BY <1>2, <1>3 DEF ReaderInv
<1> QED BY <1>1, <1>2, <1>3, <1>4, <1>5, <1>6, OwnStep DEF InProgress

LEMMA WriteBackStep ==
  ASSUME AtomicInv, NEW i \in Inodes, WriteBack(i) PROVE AtomicInv'
<1>1. /\ inode[i].disk < Len(inode[i].data) /\ inode' = [inode EXCEPT ![i].disk = @ + 1]
      /\ UNCHANGED <<dir, diskDir, callVars>>
  BY DEF WriteBack
<1>2. inode \in [Inodes -> InodeType] /\ inode[i].disk \in Nat /\ Len(inode[i].data) \in Nat
  BY DEF AtomicInv, Types, KernelTypes, InodeType
<1>3. /\ inode' \in [Inodes -> InodeType] /\ inode'[i].disk = inode[i].disk + 1
      /\ \A k \in Inodes : inode'[k].data = inode[k].data /\ inode'[k].mode = inode[k].mode
      /\ \A k \in Inodes : k # i => inode'[k] = inode[k]
  <2>1. inode[i].disk + 1 \in Nat BY <1>2
  <2> QED BY <1>1, <1>2, <2>1 DEF InodeType
<1>4. ~Whole(i) /\ inode'[i].disk <= Len(inode'[i].data) BY <1>1, <1>2, <1>3 DEF Whole
<1>5. KernelTypes'
  <2>1. \A k \in Inodes : inode'[k].disk <= Len(inode'[k].data)
    BY <1>3, <1>4 DEF AtomicInv, Types, KernelTypes
  <2> QED BY <1>1, <1>3, <2>1 DEF AtomicInv, Types, KernelTypes
<1>6. CallTypes' BY <1>1 DEF callVars, AtomicInv, Types, CallTypes, PcTypes
<1>7. NamesInv' BY <1>1 DEF AtomicInv, NamesInv, OneName
<1>8. \A k \in Inodes : Whole(k) => Whole(k)' BY <1>3, <1>4 DEF Whole
<1>9. DestInv'
  <2>1. /\ dir[Dest] # NoInode => dir[Dest] \in Inodes
        /\ diskDir[Dest] # NoInode => diskDir[Dest] \in Inodes
    BY DEF AtomicInv, Types, KernelTypes, Names
  <2>2. dir[Dest] # NoInode => Whole(dir[Dest])'
    BY <1>1, <1>8, <2>1 DEF callVars, AtomicInv, DestInv, Whole
  <2>3. diskDir[Dest] # NoInode => Whole(diskDir[Dest])'
    BY <1>1, <1>8, <2>1 DEF callVars, AtomicInv, DestInv, Whole
  <2> QED BY <1>1, <2>2, <2>3 DEF DestInv, Whole
<1>10. WritersInv'
  <2> SUFFICES ASSUME NEW w \in Writers PROVE WriterInv(w)' BY DEF WritersInv
  <2>1. Same(w) /\ WriterInv(w)
    BY <1>1 DEF callVars, Same, AtomicInv, WritersInv
  <2>2. pc[w] \in InProgress => dir[temp[w]] \in Inodes BY OwnInode
  <2>3. pc[w] \in {"close", "rename"} => dir[temp[w]] # i
    BY <1>1, <1>2, <2>1 DEF WriterInv, Written
  <2> QED BY <1>1, <1>3, <2>1, <2>2, <2>3 DEF WriterInv, Same, Written, InProgress
<1>11. Apart' BY <1>1 DEF callVars, AtomicInv, Apart
<1>12. ReadersInv'
  <2> SUFFICES ASSUME NEW r \in Readers PROVE ReaderInv(r)' BY DEF ReadersInv
  <2>1. Same(r) /\ ReaderInv(r)
    BY <1>1 DEF callVars, Same, AtomicInv, ReadersInv
  <2>2. pc[r] = "fstat" => Whole(fd[r])'
    BY <1>1, <1>8, <2>1 DEF callVars, ReaderInv, Whole
  <2>3. pc[r] = "read" => inode'[fd[r]].data = inode[fd[r]].data BY <1>3, <2>1 DEF ReaderInv
  <2>4. pc'[r] = "fstat" => Whole(fd[r])' /\ fd'[r] = fd[r] BY <2>1, <2>2 DEF Same
  <2>5. pc'[r] = "read" => ReadInv(r)' BY <2>1, <2>3 DEF ReaderInv, ReadInv, Same
  <2> QED BY <2>1, <2>4, <2>5 DEF ReaderInv, Same, Whole
<1>13. PrivateInv' BY <1>3 DEF AtomicInv, PrivateInv
<1> QED BY <1>5, <1>6, <1>7, <1>9, <1>10, <1>11, <1>12, <1>13 DEF AtomicInv, Types

LEMMA CommitDirStep ==
  ASSUME AtomicInv, CommitDir PROVE AtomicInv'
<1>1. diskDir' = dir /\ UNCHANGED <<dir, inode, callVars>> BY DEF CommitDir
<1>2. Types'
  BY <1>1 DEF callVars, AtomicInv, Types, KernelTypes, CallTypes, PcTypes
<1>3. NamesInv' /\ DestInv' /\ PrivateInv'
  BY <1>1 DEF AtomicInv, NamesInv, OneName, DestInv, Whole, PrivateInv
<1>4. WritersInv'
  BY <1>1 DEF callVars, AtomicInv, WritersInv, WriterInv, Written
<1>5. ReadersInv'
  BY <1>1 DEF callVars, AtomicInv, ReadersInv, ReaderInv, ReadInv, Whole
<1>6. Apart'
  <2>1. \A w \in Writers : pc[w] \in InProgress => dir[Dest] # dir[temp[w]] BY OwnInode
  <2> QED BY <1>1, <2>1 DEF callVars, AtomicInv, Apart
<1> QED BY <1>2, <1>3, <1>4, <1>5, <1>6 DEF AtomicInv

LEMMA PowerLossStep ==
  ASSUME AtomicInv, PowerLoss PROVE AtomicInv'
<1>1. /\ dir' = diskDir /\ diskDir' = diskDir
      /\ inode' = [i \in Inodes |-> [inode[i] EXCEPT !.data = SubSeq(@, 1, inode[i].disk)]]
  BY DEF PowerLoss
<1>2. \A i \in Inodes : /\ inode[i] \in InodeType /\ inode[i].data \in Seq(Part)
                        /\ inode[i].disk \in Nat /\ inode[i].disk <= Len(inode[i].data)
  BY DEF AtomicInv, Types, KernelTypes, InodeType
<1>3. \A i \in Inodes :
        /\ inode'[i].data = SubSeq(inode[i].data, 1, inode[i].disk)
        /\ inode'[i].disk = inode[i].disk /\ inode'[i].mode = inode[i].mode
  BY <1>1, <1>2 DEF InodeType
<1>4. \A i \in Inodes :
        /\ inode'[i].data \in Seq(Part) /\ Len(inode'[i].data) = inode[i].disk
        /\ \A k \in 1..inode[i].disk : inode'[i].data[k] = inode[i].data[k]
  <2> SUFFICES ASSUME NEW i \in Inodes
      PROVE /\ inode'[i].data \in Seq(Part) /\ Len(inode'[i].data) = inode[i].disk
            /\ \A k \in 1..inode[i].disk : inode'[i].data[k] = inode[i].data[k]
    OBVIOUS
  <2> DEFINE s == inode[i].data
             n == inode[i].disk
  <2>1. s \in Seq(Part) /\ n \in Nat /\ n <= Len(s) BY <1>2
  <2>2. inode'[i].data = SubSeq(s, 1, n) BY <1>3
  <2> HIDE DEF s, n
  <2>3. /\ SubSeq(s, 1, n) \in Seq(Part) /\ Len(SubSeq(s, 1, n)) = n
        /\ \A k \in 1..n : SubSeq(s, 1, n)[k] = s[k]
    BY <2>1, FirstPartsOf
  <2> QED BY <2>2, <2>3 DEF s, n
<1>5. KernelTypes'
  <2>1. \A i \in Inodes :
          [inode[i] EXCEPT !.data = SubSeq(inode[i].data, 1, inode[i].disk)] \in InodeType
    BY <1>2, <1>3, <1>4 DEF InodeType
  <2>2. inode' \in [Inodes -> InodeType] BY <1>1, <2>1
  <2>3. \A i \in Inodes : inode'[i].disk <= Len(inode'[i].data) BY <1>2, <1>3, <1>4
  <2> QED BY <1>1, <2>2, <2>3 DEF AtomicInv, Types, KernelTypes
<1>6. /\ pc' = [p \in Processes |-> "idle"] /\ job' = [p \in Processes |-> NoJob]
      /\ temp' = [p \in Processes |-> NoName] /\ fd' = [p \in Processes |-> NoInode]
      /\ done' = [p \in Processes |-> 0] /\ size' = [p \in Processes |-> 0]
      /\ got' = [p \in Processes |-> <<>>]
  BY DEF PowerLoss
<1>7. CallTypes'
  <2>1. "idle" \in WriterStates /\ "idle" \in ReaderStates /\ <<>> \in Seq(Part)
    BY DEF WriterStates, ReaderStates
  <2> QED BY <1>6, <2>1 DEF CallTypes, PcTypes, Processes
<1>8. NamesInv' BY <1>1 DEF AtomicInv, NamesInv, OneName
<1>9. \A i \in Inodes : Whole(i) => Whole(i)'
  <2> SUFFICES ASSUME NEW i \in Inodes, Whole(i) PROVE Whole(i)' OBVIOUS
  <2>1. inode[i].disk = Len(inode[i].data) BY DEF Whole
  <2>2. inode'[i].data = inode[i].data BY <1>2, <1>3, <2>1, WholeSubSeq
  <2> QED BY <1>3, <2>1, <2>2 DEF Whole
<1>10. DestInv'
  <2>1. diskDir[Dest] # NoInode => diskDir[Dest] \in Inodes
    BY DEF AtomicInv, Types, KernelTypes, Names
  <2>2. diskDir[Dest] # NoInode => Whole(diskDir[Dest])'
    BY <1>1, <1>9, <2>1 DEF AtomicInv, DestInv, Whole
  <2> QED BY <1>1, <2>2 DEF DestInv, Whole
<1>11. WritersInv' BY <1>6 DEF WritersInv, WriterInv, InProgress, Processes
<1>12. Apart' BY <1>6 DEF Apart, InProgress, Processes
<1>13. ReadersInv' BY <1>6 DEF ReadersInv, ReaderInv, Processes
<1>14. PrivateInv'
  <2> SUFFICES ASSUME NEW i \in Inodes, NEW k \in DOMAIN inode'[i].data
      PROVE \E j \in Jobs : inode'[i].data[k][1] = j.of /\ inode'[i].mode = j.mode
    BY DEF PrivateInv
  <2>1. k \in 1..inode[i].disk /\ k \in DOMAIN inode[i].data BY <1>2, <1>4
  <2> QED BY <1>3, <1>4, <2>1 DEF AtomicInv, PrivateInv
<1> QED BY <1>5, <1>7, <1>8, <1>10, <1>11, <1>12, <1>13, <1>14 DEF AtomicInv, Types

LEMMA TruncateStep ==
  ASSUME AtomicInv, Truncate PROVE AtomicInv'
<1> DEFINE i == dir[Dest]
<1>1. /\ Truncations /\ i \in Inodes /\ UNCHANGED <<dir, diskDir, callVars>>
      /\ inode' = [inode EXCEPT ![i].data = <<>>, ![i].disk = 0]
  BY DEF Truncate, AtomicInv, Types, KernelTypes, Names
<1>2. inode \in [Inodes -> InodeType] BY DEF AtomicInv, Types, KernelTypes
<1> HIDE DEF i
<1>3. /\ inode' \in [Inodes -> InodeType] /\ inode'[i].data = <<>> /\ inode'[i].disk = 0
      /\ \A k \in Inodes : k # i => inode'[k] = inode[k]
  <2>1. <<>> \in Seq(Part) OBVIOUS
  <2>2. inode[i] \in [data : Seq(Part), disk : Nat, mode : {"0600", "0644"}]
    BY <1>1, <1>2 DEF InodeType
  <2>3. [[inode[i] EXCEPT !.data = <<>>] EXCEPT !.disk = 0] \in InodeType
    BY <2>1, <2>2 DEF InodeType
  <2>4. inode' = [inode EXCEPT ![i] = [[inode[i] EXCEPT !.data = <<>>] EXCEPT !.disk = 0]]
    BY <1>1, <1>2
  <2>5. inode' \in [Inodes -> InodeType] BY <1>1, <1>2, <2>3, <2>4
  <2>6. inode'[i] = [[inode[i] EXCEPT !.data = <<>>] EXCEPT !.disk = 0] BY <1>1, <1>2, <2>4
  <2>7. inode'[i].data = <<>> /\ inode'[i].disk = 0 BY <2>2, <2>6
  <2>8. \A k \in Inodes : k # i => inode'[k] = inode[k] BY <1>2, <2>4
  <2> QED BY <2>5, <2>7, <2>8
<1>4. KernelTypes'
  <2>1. \A k \in Inodes : inode'[k].disk <= Len(inode'[k].data)
    BY <1>3 DEF AtomicInv, Types, KernelTypes
  <2> QED BY <1>1, <1>3, <2>1 DEF AtomicInv, Types, KernelTypes
<1>5. CallTypes' BY <1>1 DEF callVars, AtomicInv, Types, CallTypes, PcTypes
<1>6. NamesInv' BY <1>1 DEF AtomicInv, NamesInv, OneName
<1>7. \A k \in Inodes : Whole(k) => Whole(k)' BY <1>1, <1>3 DEF Whole
<1>8. DestInv'
  <2>1. /\ dir[Dest] # NoInode => dir[Dest] \in Inodes
        /\ diskDir[Dest] # NoInode => diskDir[Dest] \in Inodes
    BY DEF AtomicInv, Types, KernelTypes, Names
  <2>2. dir[Dest] # NoInode => Whole(dir[Dest])'
    BY <1>1, <1>7, <2>1 DEF callVars, AtomicInv, DestInv, Whole
  <2>3. diskDir[Dest] # NoInode => Whole(diskDir[Dest])'
    BY <1>1, <1>7, <2>1 DEF callVars, AtomicInv, DestInv, Whole
  <2> QED BY <1>1, <2>2, <2>3 DEF DestInv, Whole
<1>9. WritersInv'
  <2> SUFFICES ASSUME NEW w \in Writers PROVE WriterInv(w)' BY DEF WritersInv
  <2>1. Same(w) /\ WriterInv(w)
    BY <1>1 DEF callVars, Same, AtomicInv, WritersInv
  <2>2. pc[w] \in InProgress => dir[temp[w]] \in Inodes /\ dir[temp[w]] # i
    BY OwnInode DEF i
  <2> QED BY <1>1, <1>3, <2>1, <2>2 DEF WriterInv, Same, Written, InProgress
<1>10. Apart' BY <1>1 DEF callVars, AtomicInv, Apart
<1>11. ReadersInv'
  <2> SUFFICES ASSUME NEW r \in Readers PROVE ReaderInv(r)' BY DEF ReadersInv
  <2>1. Same(r) /\ ReaderInv(r)
    BY <1>1 DEF callVars, Same, AtomicInv, ReadersInv
  <2>2. pc'[r] = "fstat" => Whole(fd[r])' /\ fd'[r] = fd[r] BY <1>7, <2>1 DEF ReaderInv, Same
  <2>3. pc'[r] = "read" => ReadInv(r)'
    <3>1. CASE fd[r] = i BY <1>3, <2>1, <3>1 DEF ReaderInv, ReadInv, Same
    <3>2. CASE fd[r] # i BY <1>3, <2>1, <3>2 DEF ReaderInv, ReadInv, Same
    <3> QED BY <3>1, <3>2
  <2> QED BY <2>1, <2>2, <2>3 DEF ReaderInv, Same, Whole
<1>12. PrivateInv'
  <2> SUFFICES ASSUME NEW k \in Inodes, NEW m \in DOMAIN inode'[k].data
      PROVE \E j \in Jobs : inode'[k].data[m][1] = j.of /\ inode'[k].mode = j.mode
    BY DEF PrivateInv
  <2>1. k # i BY <1>3
  <2> QED BY <1>3, <2>1 DEF AtomicInv, PrivateInv
<1> QED BY <1>4, <1>5, <1>6, <1>8, <1>9, <1>10, <1>11, <1>12 DEF AtomicInv, Types

----------------------------------------------------------------------------
(* The invariant.                                                          *)

LEMMA WriteSteps ==
  ASSUME AtomicInv, NEW w \in Writers, WriteStep(w) PROVE AtomicInv'
<1>1. CASE MakeTemp(w)
  <2>1. CASE Return(w, "MC_ERR_IO") /\ UNCHANGED <<kernelVars, job, got>>
    <3>1. w \in Processes /\ w \notin Readers /\ "MC_ERR_IO" \in WriterStates
      BY AtomicFileAssumption DEF Processes, WriterStates
    <3>2. got' \in [Processes -> Seq(Part)] BY <2>1 DEF AtomicInv, Types, CallTypes
    <3> QED BY <2>1, <3>1, <3>2, ReturnStep
  <2> QED BY <1>1, <2>1, MakeTempStep DEF MakeTemp
<1>2. CASE Fchmod(w) BY <1>2, FailWriteStep, FchmodStep DEF Fchmod, InProgress
<1>3. CASE WritePart(w) BY <1>3, FailWriteStep, WritePartStep DEF WritePart, InProgress
<1>4. CASE Fsync(w) BY <1>4, FailWriteStep, FsyncStep DEF Fsync, InProgress
<1>5. CASE Close(w) BY <1>5, FailWriteStep, CloseStep DEF Close, InProgress
<1>6. CASE Rename(w) BY <1>6, FailWriteStep, RenameStep DEF Rename, InProgress
<1> QED BY <1>1, <1>2, <1>3, <1>4, <1>5, <1>6 DEF WriteStep

LEMMA ReadSteps ==
  ASSUME AtomicInv, NEW r \in Readers, OpenRead(r) \/ ReadStep(r) \/ ReadError(r)
  PROVE  AtomicInv'
BY OpenReadStep, StatStep, ReadPartStep, EndReadStep, FailReadStep
   DEF ReadStep, ReadError, EndOfFile, FileShrank

LEMMA AtomicInit == Init => AtomicInv
<1> SUFFICES ASSUME Init PROVE AtomicInv OBVIOUS
<1>1. PICK i \in Inodes, j \in Jobs :
        /\ dir \in {[n \in Names |-> NoInode], [n \in Names |-> IF n = Dest THEN i ELSE NoInode]}
        /\ inode = [k \in Inodes |->
                     IF k = i THEN [data |-> Contents(j), disk |-> j.parts, mode |-> j.mode]
                     ELSE NewInode]
  BY DEF Init
<1>2. /\ diskDir = dir /\ pc = [p \in Processes |-> "idle"]
      /\ job = [p \in Processes |-> NoJob] /\ temp = [p \in Processes |-> NoName]
      /\ fd = [p \in Processes |-> NoInode] /\ done = [p \in Processes |-> 0]
      /\ size = [p \in Processes |-> 0] /\ got = [p \in Processes |-> <<>>]
  BY DEF Init
<1>3. /\ dir \in [Names -> Inodes \cup {NoInode}]
      /\ \A n \in Names : dir[n] # NoInode => n = Dest /\ dir[n] = i
  BY <1>1
<1>4. /\ Contents(j) = Prefix(j, j.parts) /\ Contents(j) \in Seq(Part) /\ Len(Contents(j)) = j.parts
      /\ DOMAIN Contents(j) = 1..j.parts /\ j.parts \in Nat /\ j.mode \in {"0600", "0644"}
      /\ \A k \in 1..j.parts : Contents(j)[k] = <<j.of, k>>
  <2>1. j.parts \in Nat /\ j.mode \in {"0600", "0644"} BY AtomicFileAssumption
  <2>2. Contents(j) = Prefix(j, j.parts) BY ContentsIsPrefix
  <2>3. /\ Prefix(j, j.parts) \in Seq(Part) /\ Len(Prefix(j, j.parts)) = j.parts
        /\ DOMAIN Prefix(j, j.parts) = 1..j.parts
        /\ \A k \in 1..j.parts : Prefix(j, j.parts)[k] = <<j.of, k>>
    BY <2>1, PrefixIsSeq
  <2> QED BY <2>1, <2>2, <2>3
<1>5. /\ inode[i] = [data |-> Contents(j), disk |-> j.parts, mode |-> j.mode]
      /\ \A k \in Inodes : k # i => inode[k] = NewInode
  BY <1>1
<1>6. /\ [data |-> Contents(j), disk |-> j.parts, mode |-> j.mode] \in InodeType
      /\ NewInode \in InodeType /\ NewInode.disk = 0 /\ NewInode.data = <<>>
  <2>1. <<>> \in Seq(Part) OBVIOUS
  <2> QED BY <1>4, <2>1 DEF InodeType, NewInode
<1>7. KernelTypes
  <2>1. inode \in [Inodes -> InodeType] BY <1>1, <1>6
  <2>2. \A k \in Inodes : inode[k].disk <= Len(inode[k].data) BY <1>4, <1>5, <1>6
  <2> QED BY <1>2, <1>3, <2>1, <2>2 DEF KernelTypes
<1>8. CallTypes
  <2>1. "idle" \in WriterStates /\ "idle" \in ReaderStates /\ <<>> \in Seq(Part)
    BY DEF WriterStates, ReaderStates
  <2> QED BY <1>2, <2>1 DEF CallTypes, PcTypes, Processes
<1>9. NamesInv BY <1>2, <1>3 DEF NamesInv, OneName
<1>10. Whole(i) BY <1>4, <1>5 DEF Whole
<1>11. DestInv
  <2>1. Dest \in Names BY DEF Names
  <2> QED BY <1>2, <1>3, <1>10, <2>1 DEF DestInv
<1>12. WritersInv BY <1>2 DEF WritersInv, WriterInv, InProgress, Processes
<1>13. Apart BY <1>2 DEF Apart, InProgress, Processes
<1>14. ReadersInv BY <1>2 DEF ReadersInv, ReaderInv, Processes
<1>15. PrivateInv
  <2> SUFFICES ASSUME NEW k \in Inodes, NEW m \in DOMAIN inode[k].data
      PROVE \E o \in Jobs : inode[k].data[m][1] = o.of /\ inode[k].mode = o.mode
    BY DEF PrivateInv
  <2>1. k = i BY <1>5, <1>6
  <2>2. m \in 1..j.parts BY <1>4, <1>5, <2>1
  <2> QED BY <1>4, <1>5, <2>1, <2>2
<1> QED BY <1>7, <1>8, <1>9, <1>11, <1>12, <1>13, <1>14, <1>15 DEF AtomicInv, Types

LEMMA AtomicNext == AtomicInv /\ [Next]_vars => AtomicInv'
<1> SUFFICES ASSUME AtomicInv, [Next]_vars PROVE AtomicInv' OBVIOUS
<1>1. CASE UNCHANGED vars
  <2>1. Types' BY <1>1 DEF vars, kernelVars, callVars, AtomicInv, Types, KernelTypes, CallTypes, PcTypes
  <2>2. NamesInv' /\ DestInv' /\ PrivateInv' /\ Apart'
    BY <1>1 DEF vars, kernelVars, callVars, AtomicInv, NamesInv, OneName, DestInv, Whole,
       PrivateInv, Apart
  <2>3. \A p : Same(p) BY <1>1 DEF vars, callVars, Same
  <2>4. dir' = dir /\ inode' = inode BY <1>1 DEF vars, kernelVars
  <2>5. WritersInv' BY <2>3, <2>4, WriterUntouched DEF AtomicInv, WritersInv
  <2>6. ReadersInv' BY <2>3, <2>4, ReaderUntouched DEF AtomicInv, ReadersInv
  <2> QED BY <2>1, <2>2, <2>5, <2>6 DEF AtomicInv
<1>2. CASE \E w \in Writers : StartWrite(w) \/ WriteStep(w) BY <1>2, StartWriteStep, WriteSteps
<1>3. CASE \E r \in Readers : OpenRead(r) \/ ReadStep(r) \/ ReadError(r) BY <1>3, ReadSteps
<1>4. CASE \E p \in Processes : Collect(p) \/ Kill(p) BY <1>4, CollectStep, KillStep
<1>5. CASE \E i \in Inodes : WriteBack(i) BY <1>5, WriteBackStep
<1>6. CASE CommitDir BY <1>6, CommitDirStep
<1>7. CASE PowerLoss BY <1>7, PowerLossStep
<1>8. CASE Truncate BY <1>8, TruncateStep
<1> QED BY <1>1, <1>2, <1>3, <1>4, <1>5, <1>6, <1>7, <1>8 DEF Next

(***************************************************************************)
(* The inductive invariant: however calls interleave, fail, are killed or  *)
(* lose power, an inode that a name other than a live call's temporary     *)
(* reaches is whole and on disk (file_io.cc:154-196).                      *)
(***************************************************************************)
THEOREM AtomicInvariant == Spec => []AtomicInv
BY AtomicInit, AtomicNext, PTL DEF Spec

\* Types, and that a writer past mkstemp owns a name of its own inode.
THEOREM AtomicTypes == Spec => []TypeOK
<1>1. AtomicInv => TypeOK
  <2> SUFFICES ASSUME AtomicInv PROVE TypeOK OBVIOUS
  <2>1. \A i \in Inodes : inode[i].disk \in 0..Len(inode[i].data)
    <3> SUFFICES ASSUME NEW i \in Inodes PROVE inode[i].disk \in 0..Len(inode[i].data) OBVIOUS
    <3>1. /\ inode[i].data \in Seq(Part) /\ inode[i].disk \in Nat
          /\ inode[i].disk <= Len(inode[i].data)
      BY DEF AtomicInv, Types, KernelTypes, InodeType
    <3> QED BY <3>1
  <2>2. \A w \in Writers :
          /\ pc[w] \in WriterStates /\ job[w] \in Jobs \cup {NoJob}
          /\ pc[w] \in InProgress => temp[w] \in Temps /\ dir[temp[w]] \in Inodes
          /\ pc[w] \in {"fchmod", "write", "close"} => fd[w] = dir[temp[w]]
    BY DEF AtomicInv, Types, CallTypes, PcTypes, WritersInv, WriterInv, Processes
  <2>3. \A r \in Readers : pc[r] \in ReaderStates /\ done[r] <= size[r]
    <3> SUFFICES ASSUME NEW r \in Readers PROVE pc[r] \in ReaderStates /\ done[r] <= size[r]
      OBVIOUS
    <3>1. pc[r] \in ReaderStates /\ done[r] \in Nat /\ size[r] \in Nat /\ ReaderInv(r)
      BY DEF AtomicInv, Types, CallTypes, PcTypes, ReadersInv, Processes
    <3> QED BY <3>1 DEF ReaderInv, ReadInv
  <2> QED BY <2>1, <2>2, <2>3 DEF TypeOK, AtomicInv, Types, KernelTypes
<1> QED BY <1>1, AtomicInvariant, PTL

\* ReadFile returns one version, whole, whoever replaces the destination
\* between its open, its fstat and its reads.
THEOREM ReadsAreWhole == Spec => []ReadsOneVersion
<1>1. AtomicInv => ReadsOneVersion
  BY ContentsIsPrefix DEF AtomicInv, ReadersInv, ReaderInv, ReadsOneVersion
<1> QED BY <1>1, AtomicInvariant, PTL

\* Bytes written with mode 0600 are never in a file others may read.
THEOREM PrivateBytes == Spec => []PrivateStaysPrivate
<1>1. AtomicInv => PrivateStaysPrivate
  <2> SUFFICES ASSUME AtomicInv, NEW i \in Inodes, NEW j \in Jobs, j.mode = "0600",
                      NEW k \in DOMAIN inode[i].data, inode[i].data[k][1] = j.of
      PROVE  inode[i].mode = "0600"
    BY DEF PrivateStaysPrivate
  <2>1. PICK o \in Jobs : inode[i].data[k][1] = o.of /\ inode[i].mode = o.mode
    BY DEF AtomicInv, PrivateInv
  <2>2. o = j BY <2>1, AtomicFileAssumption
  <2> QED BY <2>1, <2>2
<1> QED BY <1>1, AtomicInvariant, PTL

----------------------------------------------------------------------------
(* The temporary, and the register.                                        *)

\* A writer's phase changes in steps of its own, or when a process dies.
LEMMA OthersStay ==
  ASSUME AtomicInv, NEW w \in Writers, StartWrite(w) \/ WriteStep(w)
  PROVE  \A p \in Processes \ {w} : pc'[p] = pc[p]
BY DEF AtomicInv, Types, CallTypes, PcTypes, StartWrite, WriteStep, MakeTemp, Fchmod, WritePart,
   Fsync, Close, Rename, FailWrite, Return, Goto

LEMMA ReadersMoveThemselves ==
  ASSUME AtomicInv, NEW r \in Readers, OpenRead(r) \/ ReadStep(r) \/ ReadError(r)
  PROVE  UNCHANGED <<kernelVars, job>> /\ \A w \in Writers : pc'[w] = pc[w]
BY AtomicFileAssumption
   DEF AtomicInv, Types, CallTypes, PcTypes, OpenRead, ReadStep, ReadError, Stat, ReadPart,
   EndOfFile, FileShrank, EndRead, FailRead, Return, Goto, kernelVars, Processes

\* No call that returns leaves its temporary behind.
THEOREM TemporariesGo == Spec => NoTempLeft
<1> DEFINE Gone == \A w \in Writers :
             (pc[w] \in InProgress /\ pc'[w] \in {"MC_OK", "MC_ERR_IO"})
               => dir'[temp[w]] = NoInode
<1>1. AtomicInv /\ [Next]_vars => [Gone]_vars
  <2> SUFFICES ASSUME AtomicInv, Next, NEW w \in Writers, pc[w] \in InProgress,
                      pc'[w] \in {"MC_OK", "MC_ERR_IO"}
      PROVE  dir'[temp[w]] = NoInode
    OBVIOUS
  <2>1. w \in Processes /\ temp[w] \in Names /\ dir \in [Names -> Inodes \cup {NoInode}] /\ PcTypes
    BY OwnInode DEF Processes, AtomicInv, Types, KernelTypes, CallTypes
  <2>2. pc'[w] # pc[w] BY DEF InProgress
  <2>3. CASE \E v \in Writers : StartWrite(v) \/ WriteStep(v)
    <3>1. StartWrite(w) \/ WriteStep(w) BY <2>1, <2>2, <2>3, OthersStay
    <3>2. ~StartWrite(w) /\ ~MakeTemp(w) BY DEF InProgress, StartWrite, MakeTemp
    <3>3. CASE FailWrite(w) BY <2>1, <3>3 DEF FailWrite, DiscardTemp
    <3>4. CASE Rename(w) /\ ~FailWrite(w) BY <2>1, <3>4 DEF Rename
    <3>5. CASE ~Rename(w) /\ ~FailWrite(w)
      <4>1. Goto(w, "write") \/ pc' = pc \/ Goto(w, "close") \/ Goto(w, "rename")
        BY <3>1, <3>2, <3>5 DEF WriteStep, Fchmod, WritePart, Fsync, Close
      <4> QED BY <2>1, <2>2, <4>1 DEF Goto, PcTypes
    <3> QED BY <3>3, <3>4, <3>5
  <2>4. CASE \E r \in Readers : OpenRead(r) \/ ReadStep(r) \/ ReadError(r)
    BY <2>2, <2>4, ReadersMoveThemselves
  <2>5. CASE \E p \in Processes : Collect(p) \/ Kill(p)
    BY <2>1, <2>2, <2>5 DEF Collect, Kill, Goto, PcTypes
  <2>6. CASE (\E i \in Inodes : WriteBack(i)) \/ CommitDir \/ Truncate
    BY <2>2, <2>6 DEF WriteBack, CommitDir, Truncate, callVars
  <2>7. CASE PowerLoss BY <2>1, <2>7 DEF PowerLoss
  <2> QED BY <2>3, <2>4, <2>5, <2>6, <2>7 DEF Next
<1> QED BY <1>1, AtomicInvariant, PTL DEF Spec, NoTempLeft

\* What the refinement maps to the register's variables.
Value == Version(dir[Dest])
Durable == DiskVersion(diskDir[Dest])
PhaseOf(step) == IF step \in {"mkstemp"} \cup InProgress THEN "busy" ELSE step
Phase == [w \in Writers |-> PhaseOf(pc[w])]
Asked == [w \in Writers |-> job[w]]

LEMMA DestIsNamed ==
  ASSUME AtomicInv
  PROVE  /\ Dest \in Names /\ dir[Dest] \in Inodes \cup {NoInode}
         /\ diskDir[Dest] \in Inodes \cup {NoInode} /\ NoInode \notin Inodes
         /\ \A i \in Inodes : inode[i].data \in Seq(Part)
BY AtomicFileAssumption DEF AtomicInv, Types, KernelTypes, Names, InodeType

\* What the destination named on disk names is on disk.
LEMMA DurableIsWhole ==
  ASSUME AtomicInv PROVE Durable = Version(diskDir[Dest])
<1>1. CASE diskDir[Dest] = NoInode BY <1>1 DEF Durable, DiskVersion, Version
<1>2. CASE diskDir[Dest] # NoInode
  <2>1. Whole(diskDir[Dest]) /\ diskDir[Dest] \in Inodes
    BY <1>2, DestIsNamed DEF AtomicInv, DestInv
  <2>2. inode[diskDir[Dest]].data \in Seq(Part) BY <2>1, DestIsNamed
  <2> QED BY <1>2, <2>1, <2>2, WholeSubSeq DEF Whole, Durable, DiskVersion, Version
<1> QED BY <1>1, <1>2

LEMMA DurableStaysWhole == (AtomicInv => Durable = Version(diskDir[Dest]))'
<1>1. AtomicInv => Durable = Version(diskDir[Dest]) BY DurableIsWhole
<1> QED BY <1>1, PTL

\* A step that leaves the destination, its bytes and the disk's name alone.
LEMMA SameVersions ==
  ASSUME AtomicInv, AtomicInv', dir'[Dest] = dir[Dest], diskDir' = diskDir,
         \A i \in Inodes : i = dir[Dest] \/ i = diskDir[Dest] => inode'[i].data = inode[i].data
  PROVE  Value' = Value /\ Durable' = Durable
<1>1. Durable = Version(diskDir[Dest]) /\ Durable' = Version(diskDir[Dest])'
  BY DurableIsWhole, DurableStaysWhole
<1>2. Version(diskDir[Dest])' = Version(diskDir[Dest]) BY DestIsNamed DEF Version
<1>3. Value' = Value BY DestIsNamed DEF Value, Version
<1> QED BY <1>1, <1>2, <1>3

\* A step of one writer, as its callers see it.
LEMMA CallerView ==
  ASSUME AtomicInv, NEW w \in Writers,
         \A v \in Writers \ {w} : pc'[v] = pc[v] /\ job'[v] = job[v]
  PROVE  /\ Phase' = [Phase EXCEPT ![w] = PhaseOf(pc'[w])]
         /\ Asked' = [Asked EXCEPT ![w] = job'[w]]
         /\ Phase[w] = PhaseOf(pc[w]) /\ Asked[w] = job[w]
BY DEF Phase, Asked

LEMMA NobodyMoves ==
  ASSUME \A w \in Writers : PhaseOf(pc'[w]) = PhaseOf(pc[w]) /\ job'[w] = job[w]
  PROVE  Phase' = Phase /\ Asked' = Asked
BY DEF Phase, Asked

\* Register's definitions, in the mapped variables.
LEMMA RegisterActions ==
  /\ \A w \in Writers :
       /\ Register!Ask(w) <=>
            /\ Phase[w] = "idle" /\ Phase' = [Phase EXCEPT ![w] = "busy"]
            /\ \E j \in Jobs : Asked' = [Asked EXCEPT ![w] = j]
            /\ Value' = Value /\ Durable' = Durable
       /\ Register!Replace(w) <=>
            /\ Phase[w] = "busy" /\ Phase' = [Phase EXCEPT ![w] = "MC_OK"]
            /\ Value' = Contents(Asked[w]) /\ Durable' = Durable /\ Asked' = Asked
       /\ Register!Refuse(w) <=>
            /\ Phase[w] = "busy" /\ Phase' = [Phase EXCEPT ![w] = "MC_ERR_IO"]
            /\ Value' = Value /\ Durable' = Durable /\ Asked' = Asked
       /\ Register!Leave(w) <=>
            /\ Phase[w] # "idle" /\ Phase' = [Phase EXCEPT ![w] = "idle"]
            /\ Asked' = [Asked EXCEPT ![w] = NoJob] /\ Value' = Value /\ Durable' = Durable
  /\ Register!Persist <=>
       Durable' = Value /\ Value' = Value /\ Phase' = Phase /\ Asked' = Asked
  /\ Register!PowerLoss <=>
       /\ Value' = Durable /\ Durable' = Durable
       /\ Phase' = [w \in Writers |-> "idle"] /\ Asked' = [w \in Writers |-> NoJob]
  /\ UNCHANGED Register!vars <=>
       Value' = Value /\ Durable' = Durable /\ Phase' = Phase /\ Asked' = Asked
<1> USE DEF Value, Durable, Phase, PhaseOf, Asked
<1>1. \A w \in Writers : Register!Ask(w) <=>
        /\ Phase[w] = "idle" /\ Phase' = [Phase EXCEPT ![w] = "busy"]
        /\ \E j \in Jobs : Asked' = [Asked EXCEPT ![w] = j]
        /\ Value' = Value /\ Durable' = Durable
  BY DEF Register!Ask
<1>2. \A w \in Writers : Register!Replace(w) <=>
        /\ Phase[w] = "busy" /\ Phase' = [Phase EXCEPT ![w] = "MC_OK"]
        /\ Value' = Contents(Asked[w]) /\ Durable' = Durable /\ Asked' = Asked
  BY DEF Register!Replace
<1>3. \A w \in Writers : Register!Refuse(w) <=>
        /\ Phase[w] = "busy" /\ Phase' = [Phase EXCEPT ![w] = "MC_ERR_IO"]
        /\ Value' = Value /\ Durable' = Durable /\ Asked' = Asked
  BY DEF Register!Refuse
<1>4. \A w \in Writers : Register!Leave(w) <=>
        /\ Phase[w] # "idle" /\ Phase' = [Phase EXCEPT ![w] = "idle"]
        /\ Asked' = [Asked EXCEPT ![w] = NoJob] /\ Value' = Value /\ Durable' = Durable
  BY DEF Register!Leave
<1>5. Register!Persist <=>
        Durable' = Value /\ Value' = Value /\ Phase' = Phase /\ Asked' = Asked
  BY DEF Register!Persist
<1>6. Register!PowerLoss <=>
        /\ Value' = Durable /\ Durable' = Durable
        /\ Phase' = [w \in Writers |-> "idle"] /\ Asked' = [w \in Writers |-> NoJob]
  BY DEF Register!PowerLoss
<1>7. UNCHANGED Register!vars <=>
        Value' = Value /\ Durable' = Durable /\ Phase' = Phase /\ Asked' = Asked
  BY DEF Register!vars
<1> QED BY <1>1, <1>2, <1>3, <1>4, <1>5, <1>6, <1>7

LEMMA RegisterInit == Init => Register!Init
<1> SUFFICES ASSUME Init PROVE Register!Init OBVIOUS
<1>1. AtomicInv BY AtomicInit
<1>2. diskDir = dir /\ pc = [p \in Processes |-> "idle"] /\ job = [p \in Processes |-> NoJob]
  BY DEF Init
<1>3. Durable = Value BY <1>1, <1>2, DurableIsWhole DEF Value
<1>4. Value \in Register!Whole
  <2>1. PICK i \in Inodes, j \in Jobs :
          /\ dir[Dest] \in {NoInode, i}
          /\ i # NoInode /\ inode[i].data = Contents(j)
    BY <1>1, DestIsNamed DEF Init
  <2> QED BY <2>1 DEF Register!Whole, Value, Version
<1>5. Phase = [w \in Writers |-> "idle"] /\ Asked = [w \in Writers |-> NoJob]
  BY <1>2 DEF Phase, PhaseOf, InProgress, Asked, Processes
<1> QED BY <1>3, <1>4, <1>5 DEF Register!Init, Value, Durable, Phase, PhaseOf, Asked

\* Each step of one writer is a step of the register, or none.
LEMMA WriterRefines ==
  ASSUME AtomicInv, AtomicInv', NEW w \in Writers, StartWrite(w) \/ WriteStep(w)
  PROVE  Register!Next \/ UNCHANGED Register!vars
<1> DEFINE Fails == /\ pc[w] \in {"mkstemp"} \cup InProgress /\ Return(w, "MC_ERR_IO")
                    /\ UNCHANGED <<diskDir, inode, job>> /\ dir'[Dest] = dir[Dest]
           Goes(step) == /\ pc[w] \in {"mkstemp"} \cup InProgress /\ step \in InProgress
                         /\ pc' = [pc EXCEPT ![w] = step] /\ UNCHANGED <<diskDir, job>>
                         /\ dir'[Dest] = dir[Dest]
                         /\ \A i \in Inodes : i = dir[Dest] \/ i = diskDir[Dest]
                              => inode'[i].data = inode[i].data
<1>1. /\ w \in Processes /\ PcTypes
      /\ \A v \in Writers \ {w} : pc'[v] = pc[v]
  BY OthersStay DEF Processes, AtomicInv, Types, CallTypes
<1>2. ASSUME Fails PROVE Register!Refuse(w)
  <2>1. pc'[w] = "MC_ERR_IO" BY <1>1, <1>2 DEF Return, Goto, PcTypes
  <2>2. Value' = Value /\ Durable' = Durable BY <1>2, SameVersions
  <2>3. /\ Phase[w] = "busy" /\ Phase' = [Phase EXCEPT ![w] = "MC_ERR_IO"] /\ Asked' = Asked
    BY <1>1, <1>2, <2>1, CallerView DEF PhaseOf, InProgress, Asked
  <2> QED BY <2>2, <2>3, RegisterActions
<1>3. ASSUME NEW step, Goes(step) PROVE UNCHANGED Register!vars
  <2>1. pc'[w] = step BY <1>1, <1>3 DEF PcTypes
  <2>2. Value' = Value /\ Durable' = Durable BY <1>3, SameVersions
  <2>3. \A v \in Writers : PhaseOf(pc'[v]) = PhaseOf(pc[v]) /\ job'[v] = job[v]
    BY <1>1, <1>3, <2>1 DEF PhaseOf
  <2> QED BY <2>2, <2>3, NobodyMoves, RegisterActions
<1>4. ASSUME pc[w] \in InProgress
      PROVE  /\ temp[w] \in Names /\ temp[w] # Dest /\ dir[temp[w]] \in Inodes
             /\ dir[temp[w]] # dir[Dest] /\ dir[temp[w]] # diskDir[Dest]
             /\ pc[w] \in {"fchmod", "write", "close"} => fd[w] = dir[temp[w]]
             /\ dir \in [Names -> Inodes \cup {NoInode}] /\ inode \in [Inodes -> InodeType]
  BY <1>4, OwnInode, OwnFacts DEF WriterInv, AtomicInv, Types, KernelTypes
<1>5. ASSUME pc[w] \in InProgress, FailWrite(w) PROVE Fails
  <2>1. dir'[Dest] = dir[Dest] BY <1>4, <1>5 DEF FailWrite, DiscardTemp, Names
  <2> QED BY <1>5, <2>1 DEF FailWrite
<1> HIDE DEF Fails
<1>6. CASE StartWrite(w)
  <2>1. PICK j \in Jobs : job' = [job EXCEPT ![w] = j] BY <1>6 DEF StartWrite
  <2>2. /\ pc[w] = "idle" /\ Goto(w, "mkstemp") /\ UNCHANGED kernelVars
        /\ job \in [Processes -> Jobs \cup {NoJob}]
    BY <1>6 DEF StartWrite, AtomicInv, Types, CallTypes
  <2>3. pc'[w] = "mkstemp" /\ job'[w] = j /\ \A v \in Writers \ {w} : job'[v] = job[v]
    BY <1>1, <2>1, <2>2 DEF Goto, PcTypes, Processes
  <2>4. Value' = Value /\ Durable' = Durable
    BY <2>2, SameVersions DEF kernelVars
  <2>5. /\ Phase[w] = "idle" /\ Phase' = [Phase EXCEPT ![w] = "busy"]
        /\ Asked' = [Asked EXCEPT ![w] = j]
    BY <1>1, <2>2, <2>3, CallerView DEF PhaseOf, InProgress
  <2>6. Register!Ask(w) BY <2>4, <2>5, RegisterActions
  <2> QED BY <2>6 DEF Register!Next
<1>7. CASE MakeTemp(w)
  <2>1. CASE Return(w, "MC_ERR_IO") /\ UNCHANGED <<kernelVars, job, got>>
    <3>1. Fails BY <1>7, <2>1 DEF Fails, MakeTemp, kernelVars
    <3> QED BY <1>2, <3>1 DEF Register!Next
  <2>2. ASSUME NEW n \in Temps, NEW i \in Inodes, Free(i), dir' = [dir EXCEPT ![n] = i],
               inode' = [inode EXCEPT ![i] = NewInode], Goto(w, "fchmod"),
               UNCHANGED <<diskDir, job, done, size, got>>
        PROVE  Goes("fchmod")
    <3>1. Dest \in Names /\ n \in Names /\ n # Dest BY AtomicFileAssumption DEF Names
    <3>2. dir \in [Names -> Inodes \cup {NoInode}] /\ inode \in [Inodes -> InodeType]
      BY DEF AtomicInv, Types, KernelTypes
    <3>3. dir[Dest] # i /\ diskDir[Dest] # i BY <2>2, <3>1 DEF Free
    <3>4. dir'[Dest] = dir[Dest] /\ \A k \in Inodes : k # i => inode'[k] = inode[k]
      BY <2>2, <3>1, <3>2
    <3> QED BY <1>7, <2>2, <3>3, <3>4 DEF MakeTemp, Goto, InProgress
  <2> QED BY <1>3, <1>7, <2>1, <2>2 DEF MakeTemp
<1>8. CASE Fchmod(w)
  <2>1. pc[w] = "fchmod" /\ pc[w] \in InProgress BY <1>8 DEF Fchmod, InProgress
  <2>2. CASE ~FailWrite(w)
    <3>1. /\ inode' = [inode EXCEPT ![dir[temp[w]]].mode = FchmodMode(w)] /\ Goto(w, "write")
          /\ UNCHANGED <<dir, diskDir, job>>
      BY <1>4, <1>8, <2>1, <2>2 DEF Fchmod
    <3>2. \A k \in Inodes : k # dir[temp[w]] => inode'[k] = inode[k] BY <1>4, <2>1, <3>1
    <3>3. Goes("write") BY <1>4, <2>1, <3>1, <3>2 DEF Goto, InProgress
    <3> QED BY <1>3, <3>3
  <2> QED BY <1>2, <1>5, <2>1, <2>2 DEF Register!Next
<1>9. CASE WritePart(w)
  <2>1. pc[w] = "write" /\ pc[w] \in InProgress BY <1>9 DEF WritePart, InProgress
  <2>2. CASE ~FailWrite(w)
    <3> DEFINE e == Contents(job[w])[done[w] + 1]
    <3>1. /\ inode' = [inode EXCEPT ![dir[temp[w]]].data = Append(@, e)]
          /\ UNCHANGED <<dir, diskDir, job, pc>>
      BY <1>4, <1>9, <2>1, <2>2 DEF WritePart
    <3> HIDE DEF e
    <3>2. \A k \in Inodes : k # dir[temp[w]] => inode'[k] = inode[k] BY <1>4, <2>1, <3>1
    <3>3. pc' = [pc EXCEPT ![w] = "write"] BY <1>1, <2>1, <3>1 DEF PcTypes
    <3>4. Goes("write") BY <1>4, <2>1, <3>1, <3>2, <3>3
    <3> QED BY <1>3, <3>4
  <2> QED BY <1>2, <1>5, <2>1, <2>2 DEF Register!Next
<1>10. CASE Fsync(w)
  <2>1. pc[w] = "write" /\ pc[w] \in InProgress BY <1>10 DEF Fsync, InProgress
  <2>2. CASE ~FailWrite(w)
    <3>1. /\ inode' = [inode EXCEPT ![dir[temp[w]]].disk = Flushed(dir[temp[w]])]
          /\ Goto(w, "close") /\ UNCHANGED <<dir, diskDir, job>>
      BY <1>4, <1>10, <2>1, <2>2 DEF Fsync
    <3>2. \A k \in Inodes : k # dir[temp[w]] => inode'[k] = inode[k] BY <1>4, <2>1, <3>1
    <3>3. Goes("close") BY <1>4, <2>1, <3>1, <3>2 DEF Goto, InProgress
    <3> QED BY <1>3, <3>3
  <2> QED BY <1>2, <1>5, <2>1, <2>2 DEF Register!Next
<1>11. CASE Close(w)
  <2>1. pc[w] = "close" /\ pc[w] \in InProgress BY <1>11 DEF Close, InProgress
  <2>2. CASE ~FailWrite(w)
    <3>1. Goto(w, "rename") /\ UNCHANGED <<kernelVars, job>> BY <1>11, <2>2 DEF Close
    <3>2. Goes("rename") BY <2>1, <3>1 DEF Goto, InProgress, kernelVars
    <3> QED BY <1>3, <3>2
  <2> QED BY <1>2, <1>5, <2>1, <2>2 DEF Register!Next
<1>12. CASE Rename(w)
  <2>1. pc[w] = "rename" /\ pc[w] \in InProgress BY <1>12 DEF Rename, InProgress
  <2>2. CASE ~FailWrite(w)
    <3>1. /\ dir' = [dir EXCEPT ![Dest] = dir[temp[w]], ![temp[w]] = NoInode]
          /\ Return(w, "MC_OK") /\ UNCHANGED <<diskDir, inode, job>>
      BY <1>12, <2>2 DEF Rename
    <3>2. dir'[Dest] = dir[temp[w]] BY <1>4, <2>1, <3>1 DEF Names
    <3>3. pc'[w] = "MC_OK" BY <1>1, <3>1 DEF Return, Goto, PcTypes
    <3>4. Value' = Contents(job[w])
      <4>1. job[w] \in Jobs /\ WriterInv(w) BY <2>1, OwnFacts
      <4>2. inode[dir[temp[w]]].data = Contents(job[w])
        BY <2>1, <4>1, ContentsIsPrefix DEF WriterInv, Written
      <4> QED BY <1>4, <2>1, <3>1, <3>2, <4>2, DestIsNamed DEF Value, Version
    <3>5. Durable' = Durable
      <4>1. Durable' = Version(diskDir[Dest])' /\ Durable = Version(diskDir[Dest])
        BY DurableIsWhole, DurableStaysWhole
      <4> QED BY <3>1, <4>1 DEF Version
    <3>6. /\ Phase[w] = "busy" /\ Phase' = [Phase EXCEPT ![w] = "MC_OK"]
          /\ Asked' = Asked /\ Asked[w] = job[w]
      BY <1>1, <2>1, <3>1, <3>3, CallerView DEF PhaseOf, InProgress, Asked
    <3>7. Register!Replace(w) BY <3>4, <3>5, <3>6, RegisterActions
    <3> QED BY <3>7 DEF Register!Next
  <2> QED BY <1>2, <1>5, <2>1, <2>2 DEF Register!Next
<1> QED BY <1>6, <1>7, <1>8, <1>9, <1>10, <1>11, <1>12 DEF WriteStep

\* So is every other step.
LEMMA OthersRefine ==
  ASSUME AtomicInv, AtomicInv', ~Truncations, Next, ~\E w \in Writers : StartWrite(w) \/ WriteStep(w)
  PROVE  Register!Next \/ UNCHANGED Register!vars
<1>1. CASE \E r \in Readers : OpenRead(r) \/ ReadStep(r) \/ ReadError(r)
  <2>1. UNCHANGED <<kernelVars, job>> /\ \A w \in Writers : pc'[w] = pc[w]
    BY <1>1, ReadersMoveThemselves
  <2>2. Value' = Value /\ Durable' = Durable BY <2>1, SameVersions DEF kernelVars
  <2>3. Phase' = Phase /\ Asked' = Asked BY <2>1, NobodyMoves
  <2> QED BY <2>2, <2>3, RegisterActions
<1>2. ASSUME NEW p \in Processes, Collect(p) \/ Kill(p)
      PROVE  Register!Next \/ UNCHANGED Register!vars
  <2>1. /\ UNCHANGED kernelVars /\ pc[p] # "idle" /\ pc' = [pc EXCEPT ![p] = "idle"]
        /\ job' = [job EXCEPT ![p] = NoJob]
    BY <1>2 DEF Collect, Kill, Goto
  <2>2. PcTypes /\ job \in [Processes -> Jobs \cup {NoJob}] BY DEF AtomicInv, Types, CallTypes
  <2>3. /\ pc'[p] = "idle" /\ job'[p] = NoJob
        /\ \A q \in Processes \ {p} : pc'[q] = pc[q] /\ job'[q] = job[q]
    BY <2>1, <2>2 DEF PcTypes
  <2>4. Value' = Value /\ Durable' = Durable BY <2>1, SameVersions DEF kernelVars
  <2>5. CASE p \in Writers
    <3>1. /\ Phase[p] # "idle" /\ Phase' = [Phase EXCEPT ![p] = "idle"]
          /\ Asked' = [Asked EXCEPT ![p] = NoJob]
      BY <2>1, <2>3, <2>5, CallerView DEF PhaseOf, InProgress, Processes
    <3>2. Register!Leave(p) BY <2>4, <2>5, <3>1, RegisterActions
    <3> QED BY <2>5, <3>2 DEF Register!Next
  <2>6. CASE p \notin Writers
    <3>1. Phase' = Phase /\ Asked' = Asked BY <2>3, <2>6, NobodyMoves DEF Processes
    <3> QED BY <2>4, <3>1, RegisterActions
  <2> QED BY <2>5, <2>6
<1>3. ASSUME NEW i \in Inodes, WriteBack(i) PROVE UNCHANGED Register!vars
  <2>1. /\ inode' = [inode EXCEPT ![i].disk = @ + 1] /\ UNCHANGED <<dir, diskDir, callVars>>
    BY <1>3 DEF WriteBack
  <2>2. inode \in [Inodes -> InodeType] BY DEF AtomicInv, Types, KernelTypes
  <2>3. \A k \in Inodes : inode'[k].data = inode[k].data BY <2>1, <2>2 DEF InodeType
  <2>4. Value' = Value /\ Durable' = Durable BY <2>1, <2>3, SameVersions
  <2>5. Phase' = Phase /\ Asked' = Asked BY <2>1, NobodyMoves DEF callVars
  <2> QED BY <2>4, <2>5, RegisterActions
<1>4. CASE CommitDir
  <2>1. diskDir' = dir /\ UNCHANGED <<dir, inode, callVars>> BY <1>4 DEF CommitDir
  <2>2. Durable' = Version(diskDir[Dest])' BY DurableStaysWhole
  <2>3. Value' = Value /\ Durable' = Value BY <2>1, <2>2 DEF Value, Version
  <2>4. Phase' = Phase /\ Asked' = Asked BY <2>1, NobodyMoves DEF callVars
  <2>5. Register!Persist BY <2>3, <2>4, RegisterActions
  <2> QED BY <2>5 DEF Register!Next
<1>5. CASE PowerLoss
  <2>1. /\ dir' = diskDir /\ diskDir' = diskDir
        /\ inode' = [i \in Inodes |-> [inode[i] EXCEPT !.data = SubSeq(@, 1, inode[i].disk)]]
        /\ pc' = [p \in Processes |-> "idle"] /\ job' = [p \in Processes |-> NoJob]
    BY <1>5 DEF PowerLoss
  <2>2. inode \in [Inodes -> InodeType] BY DEF AtomicInv, Types, KernelTypes
  <2>3. \A i \in Inodes : inode'[i].data = SubSeq(inode[i].data, 1, inode[i].disk)
    BY <2>1, <2>2 DEF InodeType
  <2>4. Version(diskDir[Dest])' = Durable
    BY <2>1, <2>3, DestIsNamed DEF Version, Durable, DiskVersion
  <2>5. Value' = Durable /\ Durable' = Durable
    BY <2>1, <2>4, DurableStaysWhole DEF Value, Version
  <2>6. Phase' = [w \in Writers |-> "idle"] /\ Asked' = [w \in Writers |-> NoJob]
    BY <2>1 DEF Phase, PhaseOf, InProgress, Asked, Processes
  <2>7. Register!PowerLoss BY <2>5, <2>6, RegisterActions
  <2> QED BY <2>7 DEF Register!Next
<1> QED BY <1>1, <1>2, <1>3, <1>4, <1>5 DEF Next, Truncate

\* The destination is a register, for any number of writers, readers, files
\* and contents, as long as nobody truncates it in place.
THEOREM DestinationIsARegister ==
  ASSUME ~Truncations PROVE Spec => ImplementsRegister
<1>1. AtomicInv /\ AtomicInv' /\ [Next]_vars => [Register!Next]_Register!vars
  <2> SUFFICES ASSUME AtomicInv, AtomicInv', [Next]_vars
      PROVE  Register!Next \/ UNCHANGED Register!vars
    OBVIOUS
  <2>1. CASE UNCHANGED vars
    <3>1. UNCHANGED <<dir, diskDir, inode, pc, job>> BY <2>1 DEF vars, kernelVars, callVars
    <3>2. Value' = Value /\ Durable' = Durable BY <3>1, SameVersions
    <3>3. Phase' = Phase /\ Asked' = Asked BY <3>1, NobodyMoves
    <3> QED BY <3>2, <3>3, RegisterActions
  <2>2. CASE Next BY <2>2, WriterRefines, OthersRefine
  <2> QED BY <2>1, <2>2
<1> QED BY <1>1, RegisterInit, AtomicInvariant, PTL
    DEF Spec, ImplementsRegister, Register!RegisterSpec

=============================================================================
