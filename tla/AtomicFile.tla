----------------------------- MODULE AtomicFile -----------------------------
(***************************************************************************)
(* fileio::WriteFileAtomically and fileio::ReadFile (src/src/util/         *)
(* file_io.cc): processes writing and reading one destination, one action  *)
(* per system call, over a POSIX directory with a page cache.              *)
(*                                                                         *)
(* The kernel: names map to inodes; an inode's bytes reach the disk in     *)
(* order, at any time or at fsync; the directory reaches it at any time,   *)
(* as a whole (a journal commit), and is never fsynced by this code.  A    *)
(* power loss keeps what reached the disk.  A process may be killed        *)
(* anywhere.  unlink of a temporary this call created does not fail.       *)
(***************************************************************************)
EXTENDS Naturals, Sequences

CONSTANTS
  Writers, Readers,
  Jobs,        \* [of, parts, mode]: contents to write, by parts, and the mode
  Dest,        \* the destination's name
  Temps,       \* names mkstemp can make
  Inodes, NoInode,
  MaxParts,    \* ReadFile's max_size
  Truncations  \* whether other programs truncate the destination in place

ASSUME AtomicFileAssumption ==
  /\ Dest \notin Temps /\ NoInode \notin Inodes /\ MaxParts \in Nat
  /\ Truncations \in BOOLEAN
  /\ Writers \cap Readers = {}
  /\ \A j \in Jobs : j.parts \in Nat /\ j.mode \in {"0600", "0644"}
  /\ \A i, j \in Jobs : i.of = j.of => i = j

VARIABLES
  dir,      \* the directory, as every process sees it
  diskDir,  \* the directory a power loss would leave
  inode,    \* [data, disk, mode]: bytes, how many are on disk, permissions
  pc,       \* where each process is
  job,      \* a writer's arguments
  temp,     \* the name mkstemp made
  fd,       \* the inode each process has open
  done,     \* parts written or read so far
  size,     \* st_size, as ReadFile saw it
  got       \* bytes ReadFile has in its buffer

kernelVars == <<dir, diskDir, inode>>
callVars == <<pc, job, temp, fd, done, size, got>>
vars == <<kernelVars, callVars>>

Processes == Writers \cup Readers
Names == Temps \cup {Dest}
NoJob == [of |-> "none", parts |-> 0, mode |-> "none"]
NoName == "none"
Absent == <<<<"absent", 0>>>>
Contents(j) == [k \in 1..j.parts |-> <<j.of, k>>]
NewInode == [data |-> <<>>, disk |-> 0, mode |-> "0600"]

Init ==
  /\ \E i \in Inodes :
       /\ dir \in {[n \in Names |-> NoInode],
                   [n \in Names |-> IF n = Dest THEN i ELSE NoInode]}
       /\ \E j \in Jobs :
            inode = [k \in Inodes |->
                      IF k = i THEN [data |-> Contents(j), disk |-> j.parts,
                                     mode |-> j.mode]
                      ELSE NewInode]
  /\ diskDir = dir
  /\ pc = [p \in Processes |-> "idle"] /\ job = [p \in Processes |-> NoJob]
  /\ temp = [p \in Processes |-> NoName] /\ fd = [p \in Processes |-> NoInode]
  /\ done = [p \in Processes |-> 0] /\ size = [p \in Processes |-> 0]
  /\ got = [p \in Processes |-> <<>>]

Goto(p, step) == pc' = [pc EXCEPT ![p] = step]

\* The call ends: its descriptor is closed, its buffer kept for the caller.
Return(p, status) ==
  /\ Goto(p, status) /\ fd' = [fd EXCEPT ![p] = NoInode]
  /\ temp' = [temp EXCEPT ![p] = NoName] /\ done' = [done EXCEPT ![p] = 0]
  /\ size' = [size EXCEPT ![p] = 0]

Collect(p) ==
  /\ pc[p] \in {"MC_OK", "MC_ERR_IO", "MC_ERR_TOO_LARGE", "MC_ERR_MEMORY"}
  /\ Goto(p, "idle") /\ job' = [job EXCEPT ![p] = NoJob]
  /\ got' = [got EXCEPT ![p] = <<>>]
  /\ UNCHANGED <<kernelVars, temp, fd, done, size>>

----------------------------------------------------------------------------
(* WriteFileAtomically.  c_api.cc never gives it a null `data` with a      *)
(* size, which it would refuse.                                            *)

StartWrite(w) ==
  /\ pc[w] = "idle" /\ \E j \in Jobs : job' = [job EXCEPT ![w] = j]
  /\ Goto(w, "mkstemp") /\ UNCHANGED <<kernelVars, temp, fd, done, size, got>>

\* No name and no process holds the inode, on disk or in memory.
Free(i) ==
  /\ \A n \in Names : dir[n] # i /\ diskDir[n] # i
  /\ \A p \in Processes : fd[p] # i

LeaveTempMutant(w) == UNCHANGED dir
\* unlink(mutable_path), on every error after mkstemp.
DiscardTemp(w) == dir' = [dir EXCEPT ![temp[w]] = NoInode]
FailWrite(w) ==
  /\ DiscardTemp(w) /\ Return(w, "MC_ERR_IO")
  /\ UNCHANGED <<diskDir, inode, job, got>>

TakeAnyNameMutant(n) == TRUE
\* mkstemp never opens a file that exists.
NameIsFree(n) == dir[n] = NoInode

\* The name and the file are created together, 0600.  The std::strings of the
\* path may throw before that, through extern "C": undefined, here a Kill.
MakeTemp(w) ==
  /\ pc[w] = "mkstemp"
  /\ \/ Return(w, "MC_ERR_IO") /\ UNCHANGED <<kernelVars, job, got>>
     \/ \E n \in Temps, i \in Inodes :
          /\ NameIsFree(n) /\ Free(i)
          /\ dir' = [dir EXCEPT ![n] = i]
          /\ inode' = [inode EXCEPT ![i] = NewInode]
          /\ temp' = [temp EXCEPT ![w] = n] /\ fd' = [fd EXCEPT ![w] = i]
          /\ Goto(w, "fchmod")
          /\ UNCHANGED <<diskDir, job, done, size, got>>

FchmodModeMutant(w) == "0644"
\* The mode the caller asked for; umask has no part in it.
FchmodMode(w) == job[w].mode

Fchmod(w) ==
  /\ pc[w] = "fchmod"
  /\ \/ FailWrite(w)
     \/ /\ inode' = [inode EXCEPT ![fd[w]].mode = FchmodMode(w)]
        /\ Goto(w, "write")
        /\ UNCHANGED <<dir, diskDir, job, temp, fd, done, size, got>>

\* WriteFully's loop is over, or there was nothing to write.
WrittenFully(w) == done[w] = job[w].parts

\* One write(2) of any length is any number of these; EINTR writes nothing.
WritePart(w) ==
  /\ pc[w] = "write" /\ ~WrittenFully(w)
  /\ \/ FailWrite(w)
     \/ /\ inode' = [inode EXCEPT ![fd[w]].data =
                      Append(@, Contents(job[w])[done[w] + 1])]
        /\ done' = [done EXCEPT ![w] = @ + 1]
        /\ UNCHANGED <<dir, diskDir, pc, job, temp, fd, size, got>>

FlushedMutant(i) == inode[i].disk
\* fsync: how many of the inode's parts are on disk afterwards.
Flushed(i) == Len(inode[i].data)

Fsync(w) ==
  /\ pc[w] = "write" /\ WrittenFully(w)
  /\ \/ FailWrite(w)
     \/ /\ inode' = [inode EXCEPT ![fd[w]].disk = Flushed(fd[w])]
        /\ Goto(w, "close")
        /\ UNCHANGED <<dir, diskDir, job, temp, fd, done, size, got>>

Close(w) ==
  /\ pc[w] = "close"
  /\ \/ FailWrite(w)
     \/ /\ fd' = [fd EXCEPT ![w] = NoInode] /\ Goto(w, "rename")
        /\ UNCHANGED <<kernelVars, job, temp, done, size, got>>

\* The destination's name moves to the temporary's inode; the old name goes.
Rename(w) ==
  /\ pc[w] = "rename"
  /\ \/ FailWrite(w)
     \/ /\ dir' = [dir EXCEPT ![Dest] = dir[temp[w]], ![temp[w]] = NoInode]
        /\ Return(w, "MC_OK") /\ UNCHANGED <<diskDir, inode, job, got>>

WriteStep(w) ==
  \/ MakeTemp(w) \/ Fchmod(w) \/ WritePart(w) \/ Fsync(w) \/ Close(w) \/ Rename(w)

----------------------------------------------------------------------------
(* ReadFile.                                                               *)

FailRead(r, status) ==
  Return(r, status) /\ got' = [got EXCEPT ![r] = <<>>]
                    /\ UNCHANGED <<kernelVars, job>>

\* open, fstat or read fails, or the destination is not a regular file.
ReadError(r) == pc[r] \in {"idle", "fstat", "read"} /\ FailRead(r, "MC_ERR_IO")

OpenRead(r) ==
  /\ pc[r] = "idle" /\ dir[Dest] # NoInode
  /\ fd' = [fd EXCEPT ![r] = dir[Dest]] /\ Goto(r, "fstat")
  /\ UNCHANGED <<kernelVars, job, temp, done, size, got>>

\* The size checks and the allocation.
Stat(r) ==
  /\ pc[r] = "fstat"
  /\ IF Len(inode[fd[r]].data) > MaxParts THEN FailRead(r, "MC_ERR_TOO_LARGE")
     ELSE \/ FailRead(r, "MC_ERR_MEMORY")
          \/ /\ size' = [size EXCEPT ![r] = Len(inode[fd[r]].data)]
             /\ Goto(r, "read")
             /\ UNCHANGED <<kernelVars, job, temp, fd, done, got>>

ReopenedMutant(r) == IF dir[Dest] = NoInode THEN fd[r] ELSE dir[Dest]
\* The inode read(2) reads: the descriptor's, wherever the name has gone.
Reading(r) == fd[r]

ReadPart(r) ==
  /\ pc[r] = "read" /\ done[r] < size[r]
  /\ done[r] < Len(inode[Reading(r)].data)
  /\ got' = [got EXCEPT ![r] = Append(@, inode[Reading(r)].data[done[r] + 1])]
  /\ done' = [done EXCEPT ![r] = @ + 1]
  /\ UNCHANGED <<kernelVars, pc, job, temp, fd, size>>

RetryMutant(r) == UNCHANGED vars
ShortReadMutant(r) == Return(r, "MC_OK") /\ UNCHANGED <<kernelVars, job, got>>
\* read(2) returns 0 before size bytes came: the file shrank.
FileShrank(r) == FailRead(r, "MC_ERR_IO")

EndOfFile(r) ==
  /\ pc[r] = "read" /\ done[r] < size[r]
  /\ done[r] >= Len(inode[Reading(r)].data) /\ FileShrank(r)

EndRead(r) ==
  /\ pc[r] = "read" /\ done[r] = size[r]
  /\ Return(r, "MC_OK") /\ UNCHANGED <<kernelVars, job, got>>

ReadStep(r) == Stat(r) \/ ReadPart(r) \/ EndOfFile(r) \/ EndRead(r)

----------------------------------------------------------------------------
(* The kernel and what may happen to it.                                   *)

WriteBack(i) ==
  /\ inode[i].disk < Len(inode[i].data)
  /\ inode' = [inode EXCEPT ![i].disk = @ + 1]
  /\ UNCHANGED <<dir, diskDir, callVars>>

CommitDir == diskDir' = dir /\ UNCHANGED <<dir, inode, callVars>>

\* The process dies: its descriptors go, its temporary stays.
Kill(p) ==
  /\ pc[p] # "idle" /\ Goto(p, "idle")
  /\ job' = [job EXCEPT ![p] = NoJob] /\ temp' = [temp EXCEPT ![p] = NoName]
  /\ fd' = [fd EXCEPT ![p] = NoInode] /\ done' = [done EXCEPT ![p] = 0]
  /\ size' = [size EXCEPT ![p] = 0] /\ got' = [got EXCEPT ![p] = <<>>]
  /\ UNCHANGED kernelVars

\* A program that does not replace the destination as this one does.
Truncate ==
  /\ Truncations /\ dir[Dest] # NoInode
  /\ inode' = [inode EXCEPT ![dir[Dest]].data = <<>>, ![dir[Dest]].disk = 0]
  /\ UNCHANGED <<dir, diskDir, callVars>>

PowerLoss ==
  /\ dir' = diskDir /\ UNCHANGED diskDir
  /\ inode' = [i \in Inodes |->
                [inode[i] EXCEPT !.data = SubSeq(@, 1, inode[i].disk)]]
  /\ pc' = [p \in Processes |-> "idle"] /\ job' = [p \in Processes |-> NoJob]
  /\ temp' = [p \in Processes |-> NoName] /\ fd' = [p \in Processes |-> NoInode]
  /\ done' = [p \in Processes |-> 0] /\ size' = [p \in Processes |-> 0]
  /\ got' = [p \in Processes |-> <<>>]

Next ==
  \/ \E w \in Writers : StartWrite(w) \/ WriteStep(w)
  \/ \E r \in Readers : OpenRead(r) \/ ReadStep(r) \/ ReadError(r)
  \/ \E p \in Processes : Collect(p) \/ Kill(p)
  \/ \E i \in Inodes : WriteBack(i)
  \/ CommitDir \/ PowerLoss \/ Truncate

Spec == Init /\ [][Next]_vars

(***************************************************************************)
(* A system call that a process is in returns in the end; one that a       *)
(* signal interrupts (EINTR, no step here) is not interrupted for ever.    *)
(***************************************************************************)
FairSpec ==
  /\ Spec /\ \A w \in Writers : WF_vars(WriteStep(w))
  /\ \A r \in Readers : WF_vars(ReadStep(r))

----------------------------------------------------------------------------
(* Properties.                                                             *)

WriterStates == {"idle", "mkstemp", "fchmod", "write", "close", "rename",
                 "MC_OK", "MC_ERR_IO"}
ReaderStates == {"idle", "fstat", "read", "MC_OK", "MC_ERR_IO",
                 "MC_ERR_TOO_LARGE", "MC_ERR_MEMORY"}
InProgress == {"fchmod", "write", "close", "rename"}

\* Types; a writer past mkstemp owns a name that maps to its own inode.
TypeOK ==
  /\ dir \in [Names -> Inodes \cup {NoInode}]
  /\ diskDir \in [Names -> Inodes \cup {NoInode}]
  /\ \A i \in Inodes : inode[i].disk \in 0..Len(inode[i].data)
  /\ \A w \in Writers :
       /\ pc[w] \in WriterStates /\ job[w] \in Jobs \cup {NoJob}
       /\ pc[w] \in InProgress =>
            temp[w] \in Temps /\ dir[temp[w]] \in Inodes
       /\ pc[w] \in {"fchmod", "write", "close"} => fd[w] = dir[temp[w]]
  /\ \A r \in Readers : pc[r] \in ReaderStates /\ done[r] <= size[r]

Version(i) == IF i = NoInode THEN Absent ELSE inode[i].data
DiskVersion(i) ==
  IF i = NoInode THEN Absent ELSE SubSeq(inode[i].data, 1, inode[i].disk)

(***************************************************************************)
(* The destination is a register (FileRegister.tla): neither an error, nor *)
(* a killed process, nor another writer, nor a power loss at any point     *)
(* leaves it missing, short or mixed, and a write that fails leaves it     *)
(* exactly as it was (file_io.h:13-17, model_crypt.h:311-313).             *)
(***************************************************************************)
Register == INSTANCE FileRegister
  WITH value <- Version(dir[Dest]), durable <- DiskVersion(diskDir[Dest]),
       phase <- [w \in Writers |->
                  IF pc[w] \in {"mkstemp"} \cup InProgress THEN "busy"
                  ELSE pc[w]],
       asked <- [w \in Writers |-> job[w]]
ImplementsRegister == Register!RegisterSpec

(***************************************************************************)
(* ReadFile returns one version, whole, however many writers replace the   *)
(* destination, and whoever truncates it, between its open, its fstat and  *)
(* its reads (file_io.cc:24-26, 40-41).                                    *)
(***************************************************************************)
ReadsOneVersion ==
  \A r \in Readers : pc[r] = "MC_OK" =>
    (\E j \in Jobs : got[r] = Contents(j)) \/ (Truncations /\ got[r] = <<>>)

(***************************************************************************)
(* Bytes written with mode 0600 are in no file with wider permissions, be  *)
(* it the temporary, one a crash left behind, or a destination that was    *)
(* readable by all before (file_io.h:23-25, c_api.cc:238-239).             *)
(***************************************************************************)
PrivateStaysPrivate ==
  \A i \in Inodes, j \in Jobs :
    (j.mode = "0600" /\ \E k \in DOMAIN inode[i].data : inode[i].data[k][1] = j.of)
      => inode[i].mode = "0600"

(***************************************************************************)
(* A call that returns has removed its temporary, or renamed it away:      *)
(* after any error the directory holds only what others put there.         *)
(***************************************************************************)
NoTempLeft ==
  [][\A w \in Writers :
       (pc[w] \in InProgress /\ pc'[w] \in {"MC_OK", "MC_ERR_IO"})
         => dir'[temp[w]] = NoInode]_vars

(***************************************************************************)
(* Every call returns, whatever others do to the destination meanwhile, or *)
(* its process is gone: neither loop waits for bytes that no longer come.  *)
(***************************************************************************)
CallsReturn ==
  \A p \in Processes :
    pc[p] \in {"mkstemp", "fstat", "read"} \cup InProgress
      ~> pc[p] \notin {"mkstemp", "fstat", "read"} \cup InProgress
=============================================================================
