--------------------------------- MODULE Fs ---------------------------------
(***************************************************************************)
(* Inodes, directories, path names, open files and the system calls that   *)
(* use them: kernel/fs.c, kernel/file.c, kernel/sysfile.c, and the parts   *)
(* of fork() and exit() that share and close files.                        *)
(*                                                                         *)
(* A step ends where a call may have to wait for an inode's lock, and      *)
(* where iput() gives up a lock to free an inode: in between, a call       *)
(* touches nothing but what its locks protect and reference counts, each   *)
(* changed under itable.lock.  A crash finds no call in progress: the log  *)
(* commits only when no transaction is open, and what was not committed is *)
(* lost as a whole.                                                        *)
(*                                                                         *)
(* The record fs is the disk and the tables of the kernel; an operator     *)
(* named after a C function maps it to what the call makes of it.  An      *)
(* inode's entry in the inode table is identified with its number, and the *)
(* content of a directory is a function from names to inodes.              *)
(***************************************************************************)
EXTENDS Integers, Sequences, FiniteSets, FiniteSetsExt

CONSTANTS Procs, initproc,
          NINODES,     \* inodes of the disk
          Names,       \* names in directories, apart from "." and ".."
          Paths,       \* per call: its arguments [abs, els], els a sequence of names
          NFILE, NOFILE,
          MaxNlink,    \* bound: no link() once a file has this many links
          Calls,       \* per process: the system calls it makes
          Nobody

ROOTINO == 1
Inodes == 1..NINODES
Files == 1..NFILE
Fds == 1..NOFILE

ASSUME FsAssumption ==
  /\ IsFiniteSet(Procs) /\ initproc \in Procs /\ Nobody \notin Procs
  /\ IsFiniteSet(Names) /\ {".", ".."} \cap Names = {}
  /\ {NINODES, NFILE, NOFILE, MaxNlink} \subseteq Nat \ {0}
  /\ DOMAIN Paths = {"open", "openw", "create", "mkdir", "mknod", "unlink", "chdir", "link", "new"}
  /\ \A w \in DOMAIN Paths : Paths[w] \subseteq [abs : BOOLEAN, els : Seq(Names \cup {".", ".."})]

VARIABLES fs,        \* disk, inode table, file table
          pc, c,     \* per process: control point, and the locals of its call
          cwd, ofile \* per process: p->cwd (0 if it does not exist), p->ofile
vars == <<fs, pc, c, cwd, ofile>>

NoEnts == [n \in Names \cup {".."} |-> 0]
NoFile == [ref |-> 0, ip |-> 0]
Root == [abs |-> TRUE, els |-> <<>>]
\* ip, dp and old are references the call holds; freeing is an inode its iput() is freeing.
Idle == [call |-> "none", ip |-> 0, dp |-> 0, old |-> 0, freeing |-> 0,
         rest |-> <<>>, parent |-> FALSE, name |-> "", new |-> Root]

\* The tables of a kernel that has just started, with init's working directory.
Boot(x) == [x EXCEPT !.ref = [i \in Inodes |-> IF i = ROOTINO THEN 1 ELSE 0],
                     !.valid = [i \in Inodes |-> FALSE],
                     !.type = [i \in Inodes |-> "none"], !.nlink = [i \in Inodes |-> 0],
                     !.lk = [i \in Inodes |-> Nobody], !.file = [f \in Files |-> NoFile]]

\* The disk mkfs leaves: only the root directory, which is its own parent.  lost counts the
\* links whose entry was erased with the directory it was in, removed before it was written.
Mkfs == [dtype |-> [i \in Inodes |-> IF i = ROOTINO THEN "dir" ELSE "none"],
         dnlink |-> [i \in Inodes |-> IF i = ROOTINO THEN 1 ELSE 0],
         ents |-> [i \in Inodes |-> IF i = ROOTINO THEN [NoEnts EXCEPT ![".."] = ROOTINO]
                                    ELSE NoEnts],
         lost |-> [i \in Inodes |-> 0],
         ref |-> 0, valid |-> 0, type |-> 0, nlink |-> 0, lk |-> 0, file |-> 0, panic |-> FALSE]

Rebooted ==
  /\ pc = [p \in Procs |-> "user"] /\ c = [p \in Procs |-> Idle]
  /\ cwd = [p \in Procs |-> IF p = initproc THEN ROOTINO ELSE 0]
  /\ ofile = [p \in Procs |-> [d \in Fds |-> 0]]
Init == fs = Boot(Mkfs) /\ Rebooted

-----------------------------------------------------------------------------
(* fs.c                                                                    *)

iget(x, i) == [x EXCEPT !.ref[i] = @ + 1, !.valid[i] = IF x.ref[i] = 0 THEN FALSE ELSE @]
idup(x, i) == [x EXCEPT !.ref[i] = @ + 1]

Free(i) == fs.lk[i] = Nobody

\* ilock(), of an inode that is not locked: read from disk if need be.
ilock(x, p, i) ==
  LET y == [x EXCEPT !.lk[i] = p]
  IN IF x.valid[i] THEN y
     ELSE [y EXCEPT !.valid[i] = TRUE, !.type[i] = x.dtype[i], !.nlink[i] = x.dnlink[i],
                    !.panic = @ \/ x.dtype[i] = "none"]
iunlock(x, i) == [x EXCEPT !.lk[i] = Nobody]
iupdate(x, i) == [x EXCEPT !.dtype[i] = x.type[i], !.dnlink[i] = x.nlink[i]]
\* Fault: iupdate() is forgotten.
NlinkInCore(x, i, n) == [x EXCEPT !.nlink[i] = n]
SetNlink(x, i, n) == iupdate([x EXCEPT !.nlink[i] = n], i)

\* Fault: other references are not looked at.
Unlinked(x, i) == x.valid[i] /\ x.nlink[i] = 0
\* Is iput() of inode i the one that frees it?
Last(x, i) == x.ref[i] = 1 /\ x.valid[i] /\ x.nlink[i] = 0

\* A reference is dropped.  What the table says of an inode nobody refers to is forgotten at
\* once: iget() takes the entry as empty.
Drop(x, i) ==
  IF x.ref[i] > 1 THEN [x EXCEPT !.ref[i] = @ - 1]
  ELSE [x EXCEPT !.ref[i] = @ - 1, !.valid[i] = FALSE, !.type[i] = "none", !.nlink[i] = 0]

\* iput(): if it frees the inode, only up to its iupdate(), with the inode locked;
\* iput_end() does the rest.  The lock must be free: itable.lock is held.
iput(x, p, i) ==
  IF Last(x, i)
    THEN iupdate([x EXCEPT !.panic = @ \/ x.lk[i] # Nobody, !.lk[i] = p,
                           !.ents[i] = NoEnts, !.type[i] = "none",
                           !.lost = [j \in Inodes |-> @[j] + Cardinality(
                                       {n \in Names : x.ents[i][n] = j})]], i)
    ELSE Drop(x, i)

\* The inode that an iput(x, p, i) leaves to be freed.
ToFree(x, i) == IF Last(x, i) THEN i ELSE 0

\* iput() has freed inode i: another call may have allocated it again, and wait for its lock.
Freed(x, i) == [iunlock(x, i) EXCEPT !.valid[i] = FALSE]

dirlookup(x, i, name) == IF name = "." THEN i ELSE x.ents[i][name]

\* ialloc(): a free inode of the disk, 0 if there is none.
FreeInode(x) == LET S == {i \in Inodes : x.dtype[i] = "none"} IN IF S = {} THEN 0 ELSE Min(S)
ialloc(x, i, type) == iget([x EXCEPT !.dtype[i] = type, !.dnlink[i] = 0, !.ents[i] = NoEnts], i)

\* dirlink(), of a name that is not present.
dirlink(x, i, name, j) == [x EXCEPT !.ents[i][name] = j]
isdirempty(x, i) == \A n \in Names : x.ents[i][n] = 0

-----------------------------------------------------------------------------
(* System calls: the parts they have in common.                            *)

At(p, l) == pc[p] = l /\ c[p].freeing = 0
Goto(p, l) == pc' = [pc EXCEPT ![p] = l]

\* p goes on at l with the locals d, after an iput() of i in state x.
Put(p, x, i, l, d) ==
  /\ fs' = iput(x, p, i) /\ Goto(p, l) /\ c' = [c EXCEPT ![p] = [d EXCEPT !.freeing = ToFree(x, i)]]
\* The same, without an iput().
Go(p, x, l, d) == fs' = x /\ Goto(p, l) /\ c' = [c EXCEPT ![p] = d]

\* The two steps that end an iput(): the inode is unlocked, and the reference dropped.
iput_end(p) ==
  LET i == c[p].freeing IN
  /\ i # 0
  /\ IF fs.lk[i] = p THEN fs' = Freed(fs, i) /\ UNCHANGED c
     ELSE fs' = Drop(fs, i) /\ c' = [c EXCEPT ![p].freeing = 0]
  /\ UNCHANGED <<pc, cwd, ofile>>

\* namex() begins: at the root, or at the working directory.
Start(x, p, path) == IF path.abs THEN iget(x, ROOTINO) ELSE idup(x, cwd[p])
From(p, path) == IF path.abs THEN ROOTINO ELSE cwd[p]

\* A call with a path name; new is the second one, of link().
call(p, what, path, new) ==
  /\ At(p, "user") /\ cwd[p] # 0 /\ what \in Calls[p]
  /\ what = "link" => \A i \in Inodes : fs.dtype[i] # "dir" => fs.dnlink[i] < MaxNlink
  /\ Go(p, Start(fs, p, path), "namex",
        [Idle EXCEPT !.call = what, !.ip = From(p, path), !.rest = path.els, !.new = new,
                     !.parent = what \in {"create", "mkdir", "mknod", "unlink"}])
  /\ UNCHANGED <<cwd, ofile>>

\* Where the call goes when namex() returns 0.
Failed(p) == IF c[p].old # 0 THEN "link_bad" ELSE "user"
NoPath(p) == IF c[p].old # 0 THEN [c[p] EXCEPT !.ip = 0, !.dp = 0] ELSE Idle

\* One path element, or the end of the path.
namex(p) ==
  LET i == c[p].ip
      x == ilock(fs, p, i)
      next == dirlookup(x, i, Head(c[p].rest))
  IN /\ At(p, "namex")
     /\ IF c[p].rest = <<>>
          THEN IF c[p].parent THEN Put(p, fs, i, Failed(p), NoPath(p)) ELSE Go(p, fs, "found", c[p])
          ELSE /\ Free(i)
               /\ IF x.type[i] # "dir" THEN Put(p, iunlock(x, i), i, Failed(p), NoPath(p))
                  ELSE IF c[p].parent /\ Len(c[p].rest) = 1
                    THEN Go(p, iunlock(x, i), "parent",
                            [c[p] EXCEPT !.dp = i, !.ip = 0, !.name = Head(c[p].rest)])
                  ELSE IF next = 0 THEN Put(p, iunlock(x, i), i, Failed(p), NoPath(p))
                  ELSE Put(p, iunlock(iget(x, next), i), i, "namex",
                           [c[p] EXCEPT !.ip = next, !.rest = Tail(@)])
     /\ UNCHANGED <<cwd, ofile>>

\* The call ends with an iunlockput() of its last inode.
Quit(p, x, i) == Put(p, iunlock(x, i), i, "user", Idle) /\ UNCHANGED <<cwd, ofile>>

\* Fault: the directory stays locked.
KeepLocked(p) ==
  At(p, "put_parent") /\ Put(p, fs, c[p].dp, "user", Idle) /\ UNCHANGED <<cwd, ofile>>
\* After a failure, the directory is still locked.
put_parent(p) == At(p, "put_parent") /\ Quit(p, fs, c[p].dp)

-----------------------------------------------------------------------------
(* sysfile.c                                                               *)

Called(p, l, calls) == At(p, l) /\ c[p].call \in calls

\* sys_open() without O_CREATE: "openw" is to write.
open_found(p) ==
  LET i == c[p].ip
      x == ilock(fs, p, i)
  IN /\ Called(p, "found", {"open", "openw"}) /\ Free(i)
     /\ IF x.type[i] = "dir" /\ c[p].call = "openw" THEN Quit(p, x, i)
        ELSE Go(p, x, "opened", c[p]) /\ UNCHANGED <<cwd, ofile>>

\* create(): the parent directory.
create(p) ==
  LET d == c[p].dp
      x == ilock(fs, p, d)
      i == dirlookup(x, d, c[p].name)
      new == FreeInode(x)
      type == CASE c[p].call = "mkdir" -> "dir" [] c[p].call = "mknod" -> "dev" [] OTHER -> "file"
  IN /\ Called(p, "parent", {"create", "mkdir", "mknod"}) /\ Free(d)
     /\ IF i = 0 /\ new = 0 THEN Quit(p, x, d)
        ELSE /\ IF i # 0 THEN Put(p, iunlock(iget(x, i), d), d, "exists", [c[p] EXCEPT !.ip = i, !.dp = 0])
                ELSE Go(p, ialloc(x, new, type), "new", [c[p] EXCEPT !.ip = new])
             /\ UNCHANGED <<cwd, ofile>>

Created(p) == IF c[p].call = "create" THEN "opened" ELSE "made"

exists(p) ==
  LET i == c[p].ip
      x == ilock(fs, p, i)
  IN /\ At(p, "exists") /\ Free(i)
     /\ IF c[p].call = "create" /\ x.type[i] # "dir"
          THEN Go(p, x, Created(p), c[p]) /\ UNCHANGED <<cwd, ofile>>
          ELSE Quit(p, x, i)

\* The new inode, with both locked; dirlink() fails when the disk is full.
create_new(p) ==
  LET i == c[p].ip
      d == c[p].dp
      x == SetNlink(ilock(fs, p, i), i, 1)
      isdir == x.type[i] = "dir"
      y == IF isdir THEN dirlink(x, i, "..", d) ELSE x
      z == dirlink(IF isdir THEN SetNlink(y, d, y.nlink[d] + 1) ELSE y, d, c[p].name, i)
  IN /\ At(p, "new") /\ Free(i)
     /\ \E full \in BOOLEAN :
          IF full THEN Put(p, iunlock(SetNlink(y, i, 0), i), i, "put_parent", [c[p] EXCEPT !.ip = 0])
          ELSE Put(p, iunlock(z, d), d, Created(p), [c[p] EXCEPT !.dp = 0])
     /\ UNCHANGED <<cwd, ofile>>

\* sys_mkdir(), sys_mknod()
made(p) == At(p, "made") /\ Quit(p, fs, c[p].ip)

FirstFree(S) == IF S = {} THEN 0 ELSE Min(S)
filealloc == FirstFree({f \in Files : fs.file[f].ref = 0})
fdalloc(p) == FirstFree({d \in Fds : ofile[p][d] = 0})

\* The end of sys_open(); a device may have a major number that is out of range.
opened(p) ==
  LET i == c[p].ip
  IN /\ At(p, "opened")
     /\ \E bad \in IF fs.type[i] = "dev" THEN BOOLEAN ELSE {FALSE} :
          IF bad \/ 0 \in {filealloc, fdalloc(p)} THEN Quit(p, fs, i)
          ELSE /\ Go(p, [iunlock(fs, i) EXCEPT !.file[filealloc] = [ref |-> 1, ip |-> i]], "user", Idle)
               /\ ofile' = [ofile EXCEPT ![p][fdalloc(p)] = filealloc]
               /\ UNCHANGED cwd

unlink(p) ==
  LET d == c[p].dp
      x == ilock(fs, p, d)
      i == dirlookup(x, d, c[p].name)
  IN /\ Called(p, "parent", {"unlink"}) /\ Free(d)
     /\ IF c[p].name \in {".", ".."} \/ i = 0 THEN Quit(p, x, d)
        ELSE Go(p, iget(x, i), "unlink2", [c[p] EXCEPT !.ip = i]) /\ UNCHANGED <<cwd, ofile>>

Removable(x, i) == x.type[i] = "dir" => isdirempty(x, i)

unlink2(p) ==
  LET i == c[p].ip
      d == c[p].dp
      x == ilock(fs, p, i)
      y == dirlink([x EXCEPT !.panic = @ \/ x.nlink[i] < 1], d, c[p].name, 0)
      z == IF x.type[i] = "dir" THEN SetNlink(y, d, y.nlink[d] - 1) ELSE y
  IN /\ At(p, "unlink2") /\ Free(i)
     /\ IF Removable(x, i) THEN Put(p, iunlock(z, d), d, "unlink3", [c[p] EXCEPT !.dp = 0])
        ELSE Put(p, iunlock(x, i), i, "put_parent", [c[p] EXCEPT !.ip = 0])
     /\ UNCHANGED <<cwd, ofile>>
unlink3(p) ==
  LET i == c[p].ip IN At(p, "unlink3") /\ Quit(p, SetNlink(fs, i, fs.nlink[i] - 1), i)

\* sys_link(): the old name is found; the new one is looked up.
link_found(p) ==
  LET i == c[p].ip
      x == ilock(fs, p, i)
      new == c[p].new
  IN /\ Called(p, "found", {"link"}) /\ Free(i)
     /\ IF x.type[i] = "dir" THEN Quit(p, x, i)
        ELSE /\ Go(p, Start(iunlock(SetNlink(x, i, x.nlink[i] + 1), i), p, new), "namex",
                   [c[p] EXCEPT !.old = i, !.ip = From(p, new), !.rest = new.els, !.parent = TRUE])
             /\ UNCHANGED <<cwd, ofile>>

link_parent(p) ==
  LET d == c[p].dp
      x == ilock(fs, p, d)
      e == [c[p] EXCEPT !.dp = 0]
  IN /\ Called(p, "parent", {"link"}) /\ Free(d)
     /\ \E full \in BOOLEAN :
          IF full \/ dirlookup(x, d, c[p].name) # 0 THEN Put(p, iunlock(x, d), d, "link_bad", e)
          ELSE Put(p, iunlock(dirlink(x, d, c[p].name, c[p].old), d), d, "link_put", e)
     /\ UNCHANGED <<cwd, ofile>>
link_put(p) ==
  At(p, "link_put") /\ Put(p, fs, c[p].old, "user", Idle) /\ UNCHANGED <<cwd, ofile>>
link_bad(p) ==
  LET i == c[p].old
      x == ilock(fs, p, i)
  IN At(p, "link_bad") /\ Free(i) /\ Quit(p, SetNlink(x, i, x.nlink[i] - 1), i)

chdir(p) ==
  LET i == c[p].ip
      x == ilock(fs, p, i)
  IN /\ Called(p, "found", {"chdir"}) /\ Free(i)
     /\ IF x.type[i] # "dir" THEN Quit(p, x, i)
        ELSE /\ Put(p, iunlock(x, i), cwd[p], "user", Idle)
             /\ cwd' = [cwd EXCEPT ![p] = i] /\ UNCHANGED ofile

-----------------------------------------------------------------------------
(* file.c, and the files of a process                                      *)

\* A file with one reference less.
Closed(file) == IF file.ref = 1 THEN NoFile ELSE [file EXCEPT !.ref = @ - 1]

\* fileclose() of the descriptor d, which is cleared; p goes on at l.
fileclose(p, d, l) ==
  LET f == ofile[p][d]
      x == [fs EXCEPT !.file[f] = Closed(@)]
  IN /\ f # 0
     /\ IF fs.file[f].ref = 1 /\ fs.file[f].ip # 0 THEN Put(p, x, fs.file[f].ip, l, Idle)
        ELSE Go(p, x, l, Idle)
     /\ ofile' = [ofile EXCEPT ![p][d] = 0] /\ UNCHANGED cwd

Ready(p, what) == At(p, "user") /\ cwd[p] # 0 /\ what \in Calls[p]
\* argfd(): the descriptor is open.
argfd(p, d) == ofile[p][d] # 0
close(p, d) == Ready(p, "close") /\ argfd(p, d) /\ fileclose(p, d, "user")

\* Fault: the file is not counted twice.
NoDup(x, f) == x
filedup(x, f) == [x EXCEPT !.file[f].ref = @ + 1]
dup(p, d) ==
  /\ Ready(p, "dup") /\ argfd(p, d) /\ fdalloc(p) # 0
  /\ fs' = filedup(fs, ofile[p][d])
  /\ ofile' = [ofile EXCEPT ![p][fdalloc(p)] = ofile[p][d]] /\ UNCHANGED <<pc, c, cwd>>

\* filestat(), and the like: the lock of an open file is taken and given back.
filestat(p, d) ==
  LET i == fs.file[ofile[p][d]].ip
  IN /\ Ready(p, "fstat") /\ argfd(p, d) /\ i # 0 /\ Free(i)
     /\ fs' = iunlock(ilock(fs, p, i), i) /\ UNCHANGED <<pc, c, cwd, ofile>>

\* sys_pipe(): two files that have no inode, or nothing at all.
sys_pipe(p) ==
  LET f == filealloc
      g == FirstFree({h \in Files : h > f /\ fs.file[h].ref = 0})
      d == fdalloc(p)
      e == FirstFree({h \in Fds : h > d /\ ofile[p][h] = 0})
  IN /\ Ready(p, "pipe") /\ 0 \notin {f, g, d, e}
     /\ fs' = [fs EXCEPT !.file[f] = [ref |-> 1, ip |-> 0], !.file[g] = [ref |-> 1, ip |-> 0]]
     /\ ofile' = [ofile EXCEPT ![p][d] = f, ![p][e] = g] /\ UNCHANGED <<pc, c, cwd>>

\* The files, with a reference more for each of the descriptors O.
Shared(file, O) ==
  [f \in Files |-> [file[f] EXCEPT !.ref = @ + Cardinality({d \in Fds : O[d] = f})]]
\* fork(): the child shares the files and the working directory.
fork(p, q) ==
  /\ Ready(p, "fork") /\ At(q, "user") /\ cwd[q] = 0
  /\ fs' = idup([fs EXCEPT !.file = Shared(@, ofile[p])], cwd[p])
  /\ cwd' = [cwd EXCEPT ![q] = cwd[p]] /\ ofile' = [ofile EXCEPT ![q] = ofile[p]]
  /\ UNCHANGED <<pc, c>>

\* exit(): the descriptors are closed one after the other, then the working directory is put.
exit(p) ==
  LET open == {d \in Fds : ofile[p][d] # 0}
  IN /\ At(p, "exit") \/ (Ready(p, "exit") /\ p # initproc)
     /\ IF open # {} THEN fileclose(p, Min(open), "exit")
        ELSE Put(p, fs, cwd[p], "user", Idle) /\ cwd' = [cwd EXCEPT ![p] = 0] /\ UNCHANGED ofile

crash ==
  /\ \A p \in Procs : pc[p] \in {"user", "exit"} /\ c[p].freeing = 0
  /\ fs' = Boot(fs)
  /\ pc' = [p \in Procs |-> "user"] /\ c' = [p \in Procs |-> Idle]
  /\ cwd' = [p \in Procs |-> IF p = initproc THEN ROOTINO ELSE 0]
  /\ ofile' = [p \in Procs |-> [d \in Fds |-> 0]]

Next ==
  \/ \E p \in Procs :
       \/ \E what \in {"open", "openw", "create", "mkdir", "mknod", "unlink", "chdir"} :
            \E path \in Paths[what] : call(p, what, path, Root)
       \/ \E path \in Paths["link"], new \in Paths["new"] : call(p, "link", path, new)
  \/ \E p \in Procs :
       \/ iput_end(p) \/ namex(p) \/ put_parent(p) \/ open_found(p) \/ create(p) \/ exists(p)
       \/ create_new(p) \/ made(p) \/ opened(p) \/ unlink(p) \/ unlink2(p) \/ unlink3(p)
       \/ link_found(p) \/ link_parent(p) \/ link_put(p) \/ link_bad(p) \/ chdir(p)
       \/ sys_pipe(p) \/ exit(p)
       \/ \E d \in Fds : close(p, d) \/ dup(p, d) \/ filestat(p, d)
       \/ \E q \in Procs : fork(p, q)
  \/ crash

Spec == Init /\ [][Next]_vars

-----------------------------------------------------------------------------
(* Properties                                                              *)

Holders(S, F(_), i) == Cardinality({s \in S : F(s) = i})

\* Every reference is counted, and nothing else is: an inode's count is the working directories,
\* open files and calls in progress that refer to it, a file's count its descriptors.  A count
\* too low frees an inode in use, one too high never frees it (fs.c iput(), file.c fileclose()).
RefInv ==
  /\ \A i \in Inodes :
       fs.ref[i] = LET Cwd(p) == cwd[p]  File(f) == fs.file[f].ip  Ip(p) == c[p].ip
                       Dp(p) == c[p].dp  Old(p) == c[p].old  Freeing(p) == c[p].freeing
                   IN Holders(Procs, Cwd, i) + Holders(Files, File, i) + Holders(Procs, Ip, i)
                      + Holders(Procs, Dp, i) + Holders(Procs, Old, i) + Holders(Procs, Freeing, i)
  /\ \A f \in Files : fs.file[f].ref = Cardinality({s \in Procs \X Fds : ofile[s[1]][s[2]] = f})

Entries(i) == {e \in Inodes \X Names : fs.ents[e[1]][e[2]] = i}
Subdirs(i) == {n \in Names : fs.ents[i][n] # 0 /\ fs.dtype[fs.ents[i][n]] = "dir"}
Links(i) == Cardinality(Entries(i)) + Cardinality(Subdirs(i)) + fs.lost[i]
               + (IF i = ROOTINO THEN 1 ELSE 0)

\* On disk, an entry names an allocated inode, and an inode has at least as many links as
\* entries name it (a subdirectory's ".." included): a call that is interrupted by the steps of
\* another, runs out of disk or inodes, or is cut short by a crash never leaves an entry to an
\* inode that will be freed.  With no call in progress the two numbers are equal.
LinkInv ==
  /\ \A i \in Inodes : Entries(i) # {} => fs.dtype[i] # "none"
  /\ \A i \in Inodes : fs.dtype[i] # "none" => fs.dnlink[i] >= Links(i)
  /\ (\A p \in Procs : pc[p] \in {"user", "exit"}) =>
       \A i \in Inodes : fs.dtype[i] # "none" => fs.dnlink[i] = Links(i)

\* The inode whose lock p wants next, 0 if none.
Wanted(p) ==
  IF c[p].freeing # 0 THEN 0
  ELSE CASE pc[p] = "namex" -> IF c[p].rest = <<>> THEN 0 ELSE c[p].ip
         [] pc[p] \in {"found", "exists", "new", "unlink2"} -> c[p].ip
         [] pc[p] = "parent" -> c[p].dp
         [] pc[p] = "link_bad" -> c[p].old
         [] OTHER -> 0

\* Calls that hold a directory's lock while they wait for another inode's never wait for each
\* other in a circle, and none waits for a lock it already holds.
NoDeadlock ==
  ~ \E S \in SUBSET Procs :
      S # {} /\ \A p \in S : Wanted(p) # 0 /\ fs.lk[Wanted(p)] \in S

\* ilock() never reads a free inode ("ilock: no type"), unlink finds a link to remove ("unlink:
\* nlink < 1"), and iput() finds the lock of the inode it frees free: it waits holding
\* itable.lock otherwise (fs.c:344 "no other process can have ip locked").
NoPanic == ~ fs.panic
=============================================================================
