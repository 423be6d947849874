------------------------------- MODULE Files -------------------------------
(***************************************************************************)
(* Descriptors: the fd_list of each thread, and the vfs_file_t they name,  *)
(* which are freed by a count, ref_cnt, of the further descriptors.        *)
(* sys_open and sys_close of kobjects/objs/obj_fs.c, user_pipe, user_dup,  *)
(* user_fork and user_exit of process/.                                    *)
(*                                                                         *)
(* System calls run with interrupts on.  A call is split where another     *)
(* thread that shares a file can see the difference: between a descriptor  *)
(* and its count, and inside ref_cnt++ and ref_cnt--, each a load and a    *)
(* store.  fork has interrupts off.  What a pipe's two ends share is left  *)
(* out, and so is what user_dup spoils by writing outside the table.       *)
(***************************************************************************)
EXTENDS Integers, FiniteSets

CONSTANTS
  Thread,   \* threads, the first of which is Init0
  Init0,
  File,     \* the vfs_file_t there is memory for
  Null,   \* the null pointer
  FdMax,    \* FD_MAX
  MaxStrays \* bound: once a file has so many copies outside, none is put there

ASSUME FilesAssumption ==
  /\ Init0 \in Thread
  /\ Null \notin File
  /\ FdMax \in Nat \ {0}
  /\ MaxStrays \in Nat

VARIABLES
  fd,      \* fd_list
  inUse,   \* the files that are allocated
  ref,     \* ref_cnt
  call,    \* where each thread is: see Calls
  lost,    \* history: files that no descriptor was ever given to
  strays,  \* history: how often a file's pointer was put outside the tables
  raced    \* history: a count was written while another thread updated it

fileVars == <<fd, inUse, ref, call, lost, strays, raced>>

Fds == 0 .. FdMax - 1
Outside == FdMax   \* stands for every number that is no place in the table

(* at: none (not forked yet), user, exited; counting and counted: in       *)
(* copy_fd before the load and before the store of ref_cnt++; closing,     *)
(* dropping: in f->ops->close, likewise; clearing: before fd_list[fd]=0.   *)
(* fd: the descriptor in question; to, from: user_dup's newfd, which is not *)
(* checked, and tmp when it has one, -1 otherwise; val: the ref_cnt that   *)
(* was loaded.                                                             *)
Calls == [at : {"none", "user", "exited", "counting", "counted", "closing",
                "dropping", "clearing"},
          fd : Fds, to : Fds \cup {-1, Outside}, from : Fds \cup {-1}, val : Nat]

InUser == [at |-> "user", fd |-> 0, to |-> -1, from |-> -1, val |-> 0]

(* The init thread, after it has closed the two descriptors that           *)
(* create_user_thread installs                                             *)
FilesInit ==
  /\ fd = [t \in Thread |-> [i \in Fds |-> Null]]
  /\ inUse = {}
  /\ ref = [f \in File |-> 0]
  /\ call = [t \in Thread |-> IF t = Init0 THEN InUser ELSE [InUser EXCEPT !.at = "none"]]
  /\ lost = {}
  /\ strays = [f \in File |-> 0]
  /\ raced = FALSE

----------------------------------------------------------------------------
(* thread_add_fd puts f in the first empty slot of the table. *)
FirstFree(tab, i) == tab[i] = Null /\ \A j \in Fds : j < i => tab[j] # Null
TableFull(tab) == \A i \in Fds : tab[i] # Null
Added(tab, f) == [i \in Fds |-> IF FirstFree(tab, i) THEN f ELSE tab[i]]

FileAt(t) == fd[t][call[t].fd]

(* t writes the count of f: is another thread in the middle of doing so?   *)
Races(t, f) ==
  \E u \in Thread \ {t} : call[u].at \in {"counted", "dropping"} /\ FileAt(u) = f

(* sys_open.  A file that finds no descriptor is not given back. *)
Open(t, f) ==
  /\ call[t].at = "user" /\ f \notin inUse
  /\ inUse' = inUse \cup {f}
  /\ ref' = [ref EXCEPT ![f] = 0]
  /\ strays' = [strays EXCEPT ![f] = 0]
  /\ fd' = [fd EXCEPT ![t] = Added(@, f)]
  /\ lost' = IF TableFull(fd[t]) THEN lost \cup {f} ELSE lost
  /\ UNCHANGED <<call, raced>>

(* user_pipe: a file for either end.  Nobody sets their count: the first    *)
(* has what its memory held, 0 on a new page, and the second is a copy.    *)
OpenPipe(t, f, g) ==
  /\ call[t].at = "user" /\ {f, g} \cap inUse = {} /\ f # g
  /\ inUse' = inUse \cup {f, g}
  /\ ref' = [ref EXCEPT ![g] = ref[f]]
  /\ strays' = [strays EXCEPT ![f] = 0, ![g] = 0]
  /\ fd' = [fd EXCEPT ![t] = Added(Added(@, f), g)]
  /\ lost' = lost \cup (IF TableFull(fd[t]) THEN {f} ELSE {})
                  \cup (IF TableFull(Added(fd[t], f)) THEN {g} ELSE {})
  /\ UNCHANGED <<call, raced>>

(* Mutant of Fork: the copied descriptors are not counted. *)
ForkUncounted(t, u) ==
  /\ call[t].at = "user" /\ call[u].at = "none"
  /\ fd' = [fd EXCEPT ![u] = fd[t]]
  /\ call' = [call EXCEPT ![u] = InUser]
  /\ UNCHANGED <<ref, raced, inUse, lost, strays>>

(* user_fork: the table is copied, and _fork_cpy_fd counts its entries *)
Fork(t, u) ==
  /\ call[t].at = "user" /\ call[u].at = "none"
  /\ fd' = [fd EXCEPT ![u] = fd[t]]
  /\ ref' = [f \in File |-> ref[f] + Cardinality({i \in Fds : fd[t][i] = f})]
  /\ raced' = (raced \/ \E i \in Fds : fd[t][i] # Null /\ Races(t, fd[t][i]))
  /\ call' = [call EXCEPT ![u] = InUser]
  /\ UNCHANGED <<inUse, lost, strays>>

(* user_exit closes nothing: the descriptors of the dead still count. *)
Exit(t) ==
  /\ call[t].at = "user"
  /\ call' = [call EXCEPT ![t].at = "exited"]
  /\ UNCHANGED <<fd, inUse, ref, lost, strays, raced>>

----------------------------------------------------------------------------
(* user_dup(i, n), n = -1 for dup: copy_fd as far as thread_add_fd, which  *)
(* finds a slot or fails the call.  n may lie outside the table. *)
Dup(t, i, n) ==
  /\ call[t].at = "user"
  /\ i # n /\ fd[t][i] # Null
  /\ n = Outside => \A f \in File : strays[f] < MaxStrays
  /\ \E k \in Fds :
       /\ FirstFree(fd[t], k)
       /\ fd' = [fd EXCEPT ![t][k] = fd[t][i]]
       /\ call' = [call EXCEPT ![t] = [at |-> "counting", fd |-> k, to |-> n,
                                        from |-> IF n = -1 THEN -1 ELSE k, val |-> 0]]
  /\ UNCHANGED <<inUse, ref, lost, strays, raced>>

CountLoad(t) ==
  /\ call[t].at = "counting"
  /\ call' = [call EXCEPT ![t].at = "counted", ![t].val = ref[FileAt(t)]]
  /\ UNCHANGED <<fd, inUse, ref, lost, strays, raced>>

(* user_dup moves the copy to newfd.  When newfd is the copy's own slot it *)
(* has just been closed, and stays so. *)
Moved(tab, from, to) == [[tab EXCEPT ![to] = tab[from]] EXCEPT ![from] = Null]

(* t gives up slot i, whose pointer it has written outside the table. *)
PutOutside(t, i) ==
  /\ fd' = [fd EXCEPT ![t][i] = Null]
  /\ strays' = [strays EXCEPT ![fd[t][i]] = @ + 1]

(* Mutant of CountStore: newfd is overwritten without being closed. *)
CountStoreNoClose(t) ==
  LET c == call[t]
  IN  /\ c.at = "counted"
      /\ ref' = [ref EXCEPT ![FileAt(t)] = c.val + 1]
      /\ raced' = (raced \/ Races(t, FileAt(t)))
      /\ call' = [call EXCEPT ![t] = InUser]
      /\ IF c.to = Outside THEN PutOutside(t, c.from)
         ELSE /\ fd' = IF c.to = -1 THEN fd ELSE [fd EXCEPT ![t] = Moved(@, c.from, c.to)]
              /\ UNCHANGED strays
      /\ UNCHANGED <<inUse, lost>>

(* The count is stored; dup returns, and dup2 closes newfd if it is open.  *)
(* Outside the table thread_get_fd finds nothing to close.                 *)
CountStore(t) ==
  LET c == call[t]
  IN  /\ c.at = "counted"
      /\ ref' = [ref EXCEPT ![FileAt(t)] = c.val + 1]
      /\ raced' = (raced \/ Races(t, FileAt(t)))
      /\ \/ /\ c.to = -1
            /\ call' = [call EXCEPT ![t] = InUser]
            /\ UNCHANGED <<fd, strays>>
         \/ /\ c.to \in Fds /\ fd[t][c.to] # Null
            /\ call' = [call EXCEPT ![t].at = "closing", ![t].fd = c.to, ![t].val = 0]
            /\ UNCHANGED <<fd, strays>>
         \/ /\ c.to \in Fds /\ fd[t][c.to] = Null
            /\ fd' = [fd EXCEPT ![t] = Moved(@, c.from, c.to)]
            /\ call' = [call EXCEPT ![t] = InUser]
            /\ UNCHANGED strays
         \/ /\ c.to = Outside
            /\ PutOutside(t, c.from)
            /\ call' = [call EXCEPT ![t] = InUser]
      /\ UNCHANGED <<inUse, lost>>

(* sys_close(i) as far as f->ops->close *)
Close(t, i) ==
  /\ call[t].at = "user" /\ fd[t][i] # Null
  /\ call' = [call EXCEPT ![t] = [InUser EXCEPT !.at = "closing", !.fd = i]]
  /\ UNCHANGED <<fd, inUse, ref, lost, strays, raced>>

(* Mutant of CloseTest: the count is lowered before it is tested. *)
CloseTestLate(t) ==
  /\ call[t].at = "closing"
  /\ ref' = [ref EXCEPT ![FileAt(t)] = @ - 1]
  /\ inUse' = IF ref[FileAt(t)] = 1 THEN inUse \ {FileAt(t)} ELSE inUse
  /\ call' = [call EXCEPT ![t].at = "clearing"]
  /\ UNCHANGED <<fd, lost, strays, raced>>

(* vfs_close and pipe_close: no other descriptor, and the file is freed;   *)
(* otherwise ref_cnt--. *)
CloseTest(t) ==
  /\ call[t].at = "closing"
  /\ \/ /\ ref[FileAt(t)] = 0
        /\ inUse' = inUse \ {FileAt(t)}
        /\ call' = [call EXCEPT ![t].at = "clearing"]
     \/ /\ ref[FileAt(t)] # 0
        /\ call' = [call EXCEPT ![t].at = "dropping", ![t].val = ref[FileAt(t)]]
        /\ UNCHANGED inUse
  /\ UNCHANGED <<fd, ref, lost, strays, raced>>

DropStore(t) ==
  /\ call[t].at = "dropping"
  /\ ref' = [ref EXCEPT ![FileAt(t)] = call[t].val - 1]
  /\ raced' = (raced \/ Races(t, FileAt(t)))
  /\ call' = [call EXCEPT ![t].at = "clearing"]
  /\ UNCHANGED <<fd, inUse, lost, strays>>

(* The end of sys_close, and of the user_dup that called it *)
Clear(t) ==
  LET c   == call[t]
      tab == [fd[t] EXCEPT ![c.fd] = Null]
  IN  /\ c.at = "clearing"
      /\ fd' = [fd EXCEPT ![t] = IF c.to = -1 THEN tab ELSE Moved(tab, c.from, c.to)]
      /\ call' = [call EXCEPT ![t] = InUser]
      /\ UNCHANGED <<inUse, ref, lost, strays, raced>>

(* What follows from a count that has been spoilt is left out: after a race *)
(* the model stops.                                                        *)
FilesNext ==
  /\ ~raced
  /\ \E t \in Thread :
      \/ \E f \in File : Open(t, f)
      \/ \E f, g \in File : OpenPipe(t, f, g)
      \/ \E u \in Thread : Fork(t, u)
      \/ Exit(t)
      \/ \E i \in Fds : Close(t, i)
      \/ \E i \in Fds, n \in Fds \cup {-1, Outside} : Dup(t, i, n)
      \/ CountLoad(t) \/ CountStore(t) \/ CloseTest(t) \/ DropStore(t) \/ Clear(t)

FilesSpec == FilesInit /\ [][FilesNext]_fileVars
----------------------------------------------------------------------------
(* Types; no count is ever lowered from 0, which would make it 2^32 - 1.   *)
FilesTypeOK ==
  /\ fd \in [Thread -> [Fds -> File \cup {Null}]]
  /\ inUse \subseteq File /\ lost \subseteq inUse
  /\ ref \in [File -> Nat] /\ strays \in [File -> Nat]
  /\ call \in [Thread -> Calls]
  /\ raced \in BOOLEAN

Descriptors(f) == {w \in Thread \X Fds : fd[w[1]][w[2]] = f}
Uncounted(f)   == {t \in Thread : call[t].at \in {"counting", "counted"} /\ FileAt(t) = f}
Dropped(f)     == {t \in Thread : call[t].at = "clearing" /\ FileAt(t) = f}

(* Until two threads have updated one count at once, ref_cnt is the number *)
(* of a file's descriptors but one, give or take those of the calls that   *)
(* are in progress: through forks in the middle of another thread's close, *)
(* and through every path of user_dup; each time a dup2 to a number outside *)
(* the table succeeds it is one more.  So a file lives exactly as long as  *)
(* its last descriptor, and one that was put outside a table for ever.     *)
RefExact ==
  ~raced => \A f \in inUse \ lost :
    ref[f] + 1 = Cardinality(Descriptors(f)) - Cardinality(Uncounted(f))
                   - Cardinality(Dropped(f)) + strays[f]

(* Until then no descriptor names a freed file, except the one that a      *)
(* sys_close has yet to clear: no read or write through one thread's table *)
(* can meet a file that another thread has closed.                         *)
NoDangling ==
  ~raced => \A t \in Thread, i \in Fds :
    fd[t][i] \in inUse \cup {Null} \/ (call[t].at = "clearing" /\ call[t].fd = i)
=============================================================================
