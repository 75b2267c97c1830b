------------------------------- MODULE Files --------------------------------
(***************************************************************************)
(* The file descriptors of the HAL: the pool that open and close share     *)
(* with the redirection of the standard streams at start-up, the high      *)
(* water mark that shortens searches in it, and the lock that ioctl puts   *)
(* on a device.  There is no operating system: calls do not interleave.    *)
(*                                                                         *)
(* Names of devices and file systems stand for their alt_dev.              *)
(***************************************************************************)
EXTENDS Integers, FiniteSetsExt

CONSTANTS
  ALT_MAX_FD,
  console, null,   \* the device of the standard streams, and /dev/null
  FileSystems,
  NoDev

ASSUME PoolAssumption == ALT_MAX_FD \in Nat /\ ALT_MAX_FD > 3
ASSUME DevicesAssumption == NoDev \notin FileSystems \union {console, null} /\ console # null

VARIABLES
  alt_dev_list,  \* the devices registered
  alt_fd_list,   \* of each descriptor its device and its flags
  alt_max_fd,
  boot,          \* what alt_main does next; "main" when the program runs
  held           \* history: how the program has opened what it has open

vars == <<alt_dev_list, alt_fd_list, alt_max_fd, boot, held>>

fds == 0 .. ALT_MAX_FD - 1
STDIN_FILENO == 0
STDOUT_FILENO == 1
STDERR_FILENO == 2

Access == {"O_RDONLY", "O_WRONLY", "O_RDWR"}

flags(acc, nonblock, dev) == [acc |-> acc, nonblock |-> nonblock, excl |-> FALSE, dev |-> dev]
no_flags == flags("O_RDONLY", FALSE, FALSE)
descriptor(dev, fd_flags) == [dev |-> dev, fd_flags |-> fd_flags]

Init ==
  /\ alt_dev_list = {null}
  /\ alt_fd_list = [fd \in fds |-> descriptor(IF fd <= 2 THEN null ELSE NoDev, no_flags)]
  /\ alt_max_fd = -1 /\ boot = "sys_init"
  /\ held = << >>

-----------------------------------------------------------------------------
(* The pool.                                                               *)

free == {fd \in fds : alt_fd_list[fd].dev = NoDev}

\* Mutant: the mark stays where it is.
raised_not(fd) == alt_max_fd
raised(fd) == IF fd > alt_max_fd THEN fd ELSE alt_max_fd

\* alt_file_locked
alt_file_locked(dev, fd) ==
  \E i \in 0 .. raised(fd) :
    i # fd /\ alt_fd_list[i].dev = dev /\ alt_fd_list[i].fd_flags.excl

\* alt_release_fd, on a list of descriptors.
released(list, fd) ==
  IF fd > 2 THEN [list EXCEPT ![fd] = descriptor(NoDev, no_flags)] ELSE list

exists(name) == name \in alt_dev_list \union FileSystems

\* alt_get_fd
Allocates(name, index) == exists(name) /\ free # {} /\ index = Min(free)

opened(name, acc, nonblock) ==
  descriptor(name, flags(acc, nonblock, name \in alt_dev_list))
taken(name, acc, nonblock, index) ==
  [alt_fd_list EXCEPT ![index] = opened(name, acc, nonblock)]

\* open, where it ends well: the descriptor allocated refers to the device.
Opens(name, acc, nonblock, index) ==
  /\ Allocates(name, index)
  /\ name \in alt_dev_list => ~alt_file_locked(name, index)

\* Where it ends before it has a descriptor: no such device, or none free.
FindsNone(name) ==
  /\ ~exists(name) \/ free = {}
  /\ UNCHANGED <<alt_fd_list, alt_max_fd>>

\* Mutant: what was allocated is not given back.
Refused_kept(name, acc, nonblock, index) ==
  /\ Allocates(name, index)
  /\ name \in alt_dev_list => alt_file_locked(name, index)
  /\ alt_max_fd' = raised(index)
  /\ alt_fd_list' = taken(name, acc, nonblock, index)

\* And after: the device is locked, or the file system has an error of its own.
Refused(name, acc, nonblock, index) ==
  /\ Allocates(name, index)
  /\ name \in alt_dev_list => alt_file_locked(name, index)
  /\ alt_max_fd' = raised(index)
  /\ alt_fd_list' = released(taken(name, acc, nonblock, index), index)

-----------------------------------------------------------------------------
(* Start-up: alt_sys_init registers the console, alt_io_redirect opens it  *)
(* for each stream, through a descriptor that is released at once.         *)

alt_sys_init ==
  /\ boot = "sys_init" /\ boot' = "stdout"
  /\ alt_dev_list' = alt_dev_list \union {console}
  /\ UNCHANGED <<alt_fd_list, alt_max_fd, held>>

alt_open_fd(fd, acc) ==
  \E old \in fds :
    /\ Opens(console, acc, FALSE, old)
    /\ alt_max_fd' = raised(old)
    /\ LET list == taken(console, acc, FALSE, old)
       IN alt_fd_list' = released([list EXCEPT ![fd] = list[old]], old)
    /\ UNCHANGED <<alt_dev_list, held>>

alt_io_redirect ==
  \/ boot = "stdout" /\ alt_open_fd(STDOUT_FILENO, "O_WRONLY") /\ boot' = "stdin"
  \/ boot = "stdin" /\ alt_open_fd(STDIN_FILENO, "O_RDONLY") /\ boot' = "stderr"
  \/ boot = "stderr" /\ alt_open_fd(STDERR_FILENO, "O_WRONLY") /\ boot' = "main"

-----------------------------------------------------------------------------
(* What the program calls, with descriptors it holds.                      *)

own == DOMAIN held \union {STDIN_FILENO, STDOUT_FILENO, STDERR_FILENO}

ALT_OPEN(name, acc, nonblock) ==
  /\ boot = "main"
  /\ \/ \E index \in fds :
          /\ Opens(name, acc, nonblock, index)
          /\ alt_max_fd' = raised(index)
          /\ alt_fd_list' = taken(name, acc, nonblock, index)
          /\ held' = [fd \in DOMAIN held \union {index} |->
                        IF fd = index THEN [dev |-> name, acc |-> acc] ELSE held[fd]]
     \/ FindsNone(name) /\ UNCHANGED held
     \/ \E index \in fds : Refused(name, acc, nonblock, index) /\ UNCHANGED held
  /\ UNCHANGED <<alt_dev_list, boot>>

\* Released even when the close of the device fails.
ALT_CLOSE(fd) ==
  /\ boot = "main" /\ fd \in own
  /\ alt_fd_list' = released(alt_fd_list, fd)
  /\ held' = [i \in DOMAIN held \ {fd} |-> held[i]]
  /\ UNCHANGED <<alt_dev_list, alt_max_fd, boot>>

\* alt_fd_lock, for devices.  The loop ends one short of the high water mark.
TIOCEXCL(fd) ==
  /\ boot = "main" /\ fd \in own /\ alt_fd_list[fd].fd_flags.dev
  /\ \A i \in 0 .. alt_max_fd - 1 : i # fd => alt_fd_list[i].dev # alt_fd_list[fd].dev
  /\ alt_fd_list' = [alt_fd_list EXCEPT ![fd].fd_flags.excl = TRUE]
  /\ UNCHANGED <<alt_dev_list, alt_max_fd, boot, held>>

\* alt_fd_unlock
TIOCNXCL(fd) ==
  /\ boot = "main" /\ fd \in own /\ alt_fd_list[fd].fd_flags.dev
  /\ alt_fd_list' = [alt_fd_list EXCEPT ![fd].fd_flags.excl = FALSE]
  /\ UNCHANGED <<alt_dev_list, alt_max_fd, boot, held>>

\* fcntl with F_SETFL
F_SETFL(fd, nonblock) ==
  /\ boot = "main" /\ fd \in own
  /\ alt_fd_list' = [alt_fd_list EXCEPT ![fd].fd_flags.nonblock = nonblock]
  /\ UNCHANGED <<alt_dev_list, alt_max_fd, boot, held>>

\* Whether read and write call the device.
ALT_READ(fd) == alt_fd_list[fd].fd_flags.acc # "O_WRONLY" /\ alt_fd_list[fd].dev # null
ALT_WRITE(fd) == alt_fd_list[fd].fd_flags.acc # "O_RDONLY"

Next ==
  \/ alt_sys_init \/ alt_io_redirect
  \/ \E name \in FileSystems \union {console, null, NoDev}, acc \in Access, nonblock \in BOOLEAN :
       ALT_OPEN(name, acc, nonblock)
  \/ \E fd \in own :
       \/ ALT_CLOSE(fd) \/ TIOCEXCL(fd) \/ TIOCNXCL(fd)
       \/ \E nonblock \in BOOLEAN : F_SETFL(fd, nonblock)

Spec == Init /\ [][Next]_vars
-----------------------------------------------------------------------------
(* Properties.                                                             *)

\* The pool holds what the program has open and nothing else: redirection and
\* failed calls leave nothing behind.  Each descriptor still refers to what was
\* opened, in the way it was opened, and closing the standard streams leaves
\* them on the console.
PoolIsWhatIsOpen ==
  boot = "main" =>
    /\ \A fd \in fds \ own : alt_fd_list[fd] = descriptor(NoDev, no_flags)
    /\ \A fd \in DOMAIN held :
         /\ alt_fd_list[fd].dev = held[fd].dev
         /\ ALT_READ(fd) => held[fd].acc \in {"O_RDONLY", "O_RDWR"}
         /\ ALT_WRITE(fd) => held[fd].acc \in {"O_WRONLY", "O_RDWR"}
    /\ ALT_READ(STDIN_FILENO) /\ ALT_WRITE(STDOUT_FILENO) /\ ALT_WRITE(STDERR_FILENO)
    /\ \A fd \in 0 .. 2 : alt_fd_list[fd].dev = console

sharers(fd) == {i \in fds \ {fd} : alt_fd_list[i].dev = alt_fd_list[fd].dev}

\* A lock that holds keeps everybody else from opening the device: the search
\* for it misses no descriptor, although it ends at the high water mark.  And a
\* lock is granted to the only user of the device, but for one: that search ends
\* one short of the mark, and above the mark nothing is open.
\* (alt_fd_lock.c:43 says "if there are no other open file descriptors".)
LockKeepsOthersOut ==
  [][\A fd \in fds :
       alt_fd_list'[fd].fd_flags.excl =>
         IF alt_fd_list[fd].fd_flags.excl
           THEN sharers(fd)' \subseteq sharers(fd)
           ELSE sharers(fd) \subseteq {alt_max_fd}]_vars
=============================================================================
