---------------------------- MODULE Files_proofs ----------------------------
(***************************************************************************)
(* Proofs about the file descriptors, for every size of the pool and every *)
(* set of file systems: the pool holds what is open and nothing else, and  *)
(* the search for a lock misses no descriptor.                             *)
(***************************************************************************)
EXTENDS Files, WellFoundedInduction, TLAPS

-----------------------------------------------------------------------------
(* Descriptors.                                                            *)

Names == FileSystems \union {console, null, NoDev}
Flags == [acc : Access, nonblock : BOOLEAN, excl : BOOLEAN, dev : BOOLEAN]
Descriptors == [dev : Names, fd_flags : Flags]
Streams == 0 .. 2
Stages == {"sys_init", "stdout", "stdin", "stderr", "main"}

LEMMA Numbers ==
  /\ ALT_MAX_FD \in Nat /\ ALT_MAX_FD > 3
  /\ Streams \subseteq fds /\ fds \subseteq Nat
  /\ \A fd \in fds : fd \in Nat /\ fd < ALT_MAX_FD
  BY PoolAssumption DEF Streams, fds

LEMMA Integral ==
  ASSUME NEW fd \in fds
  PROVE  fd \in Int
  BY Numbers

LEMMA LeastOf ==
  ASSUME NEW S \in SUBSET fds, S # {}
  PROVE  Min(S) \in S
  <1>1. S \subseteq Nat
    BY Numbers
  <1>2. PICK x \in S : \A y \in S : ~(<<y, x>> \in OpToRel(<, Nat))
    BY <1>1, WFMin, NatLessThanWellFounded
  <1>3. \A y \in S : x =< y
    <2> SUFFICES ASSUME NEW y \in S
                 PROVE  x =< y
      OBVIOUS
    <2>1. x \in Nat /\ y \in Nat
      BY <1>1
    <2>2. <<y, x>> \in Nat \X Nat
      BY <2>1
    <2>3. ~(y < x)
      BY <1>2, <2>2 DEF OpToRel
    <2> QED
      BY <2>1, <2>3
  <1> QED
    BY <1>3 DEF Min

LEMMA NoFlags ==
  /\ no_flags \in Flags
  /\ no_flags.acc = "O_RDONLY" /\ ~no_flags.excl /\ ~no_flags.dev
  BY DEF no_flags, flags, Flags, Access

LEMMA Unset ==
  ASSUME NEW dev \in Names
  PROVE  /\ descriptor(dev, no_flags) \in Descriptors
         /\ descriptor(dev, no_flags).dev = dev
         /\ descriptor(dev, no_flags).fd_flags = no_flags
  BY NoFlags DEF descriptor, Descriptors

LEMMA Opened ==
  ASSUME NEW name \in Names, NEW acc \in Access, NEW nonblock \in BOOLEAN
  PROVE  /\ opened(name, acc, nonblock) \in Descriptors
         /\ opened(name, acc, nonblock).dev = name
         /\ opened(name, acc, nonblock).fd_flags.acc = acc
         /\ ~opened(name, acc, nonblock).fd_flags.excl
         /\ opened(name, acc, nonblock).fd_flags.dev <=> name \in alt_dev_list
  <1> DEFINE isDev == (name \in alt_dev_list)
             f == flags(acc, nonblock, isDev)
  <1>1. opened(name, acc, nonblock) = [dev |-> name, fd_flags |-> f]
    BY Zenon DEF opened, descriptor
  <1>2. isDev \in BOOLEAN
    OBVIOUS
  <1>3. f.acc = acc /\ ~f.excl /\ (f.dev <=> name \in alt_dev_list)
    BY DEF flags
  <1> HIDE DEF isDev
  <1>4. f \in Flags
    BY <1>2 DEF Flags, flags
  <1> HIDE DEF f
  <1> QED
    BY <1>1, <1>3, <1>4 DEF Descriptors

LEMMA Replaced ==
  ASSUME NEW fd \in fds, NEW d \in Descriptors,
         alt_fd_list \in [fds -> Descriptors],
         alt_fd_list' = [alt_fd_list EXCEPT ![fd] = d]
  PROVE  /\ alt_fd_list' \in [fds -> Descriptors]
         /\ alt_fd_list'[fd] = d
         /\ \A i \in fds \ {fd} : alt_fd_list'[i] = alt_fd_list[i]
  OBVIOUS
\* What the lock, unlock and fcntl change: flags of one descriptor.
LEMMA Locked ==
  ASSUME NEW fd \in fds, alt_fd_list \in [fds -> Descriptors], NEW excl \in BOOLEAN,
         alt_fd_list' = [alt_fd_list EXCEPT ![fd].fd_flags.excl = excl]
  PROVE  /\ alt_fd_list' \in [fds -> Descriptors]
         /\ \A i \in fds \ {fd} : alt_fd_list'[i] = alt_fd_list[i]
         /\ alt_fd_list'[fd].dev = alt_fd_list[fd].dev
         /\ alt_fd_list'[fd].fd_flags.acc = alt_fd_list[fd].fd_flags.acc
         /\ alt_fd_list'[fd].fd_flags.dev = alt_fd_list[fd].fd_flags.dev
         /\ alt_fd_list'[fd].fd_flags.excl = excl
  BY DEF Descriptors, Flags

LEMMA Blocking ==
  ASSUME NEW fd \in fds, alt_fd_list \in [fds -> Descriptors], NEW nonblock \in BOOLEAN,
         alt_fd_list' = [alt_fd_list EXCEPT ![fd].fd_flags.nonblock = nonblock]
  PROVE  /\ alt_fd_list' \in [fds -> Descriptors]
         /\ \A i \in fds \ {fd} : alt_fd_list'[i] = alt_fd_list[i]
         /\ alt_fd_list'[fd].dev = alt_fd_list[fd].dev
         /\ alt_fd_list'[fd].fd_flags.acc = alt_fd_list[fd].fd_flags.acc
         /\ alt_fd_list'[fd].fd_flags.dev = alt_fd_list[fd].fd_flags.dev
         /\ alt_fd_list'[fd].fd_flags.excl = alt_fd_list[fd].fd_flags.excl
  BY DEF Descriptors, Flags
-----------------------------------------------------------------------------
(* The invariant.                                                          *)

dev(fd) == alt_fd_list[fd].dev
acc(fd) == alt_fd_list[fd].fd_flags.acc
excl(fd) == alt_fd_list[fd].fd_flags.excl
is_dev(fd) == alt_fd_list[fd].fd_flags.dev

Pool ==
  /\ alt_fd_list \in [fds -> Descriptors]
  /\ alt_max_fd \in Int /\ boot \in Stages
  /\ alt_dev_list = IF boot = "sys_init" THEN {null} ELSE {null, console}

\* What nobody holds is as alt_release_fd leaves it.
Unused == \A fd \in fds \ own : dev(fd) = NoDev /\ alt_fd_list[fd] = descriptor(NoDev, no_flags)

\* What the program holds is what it opened, and below the high water mark.
Holdings ==
  /\ DOMAIN held \subseteq fds \ Streams
  /\ \A fd \in DOMAIN held :
       /\ held[fd].dev = dev(fd) /\ held[fd].acc = acc(fd)
       /\ dev(fd) # NoDev /\ fd <= alt_max_fd
  /\ boot # "main" => DOMAIN held = {}

\* How far the redirection has got.
Redirected ==
  /\ \A fd \in Streams : dev(fd) # NoDev
  /\ boot \in {"stdin", "stderr", "main"} =>
       dev(STDOUT_FILENO) = console /\ acc(STDOUT_FILENO) = "O_WRONLY" /\ alt_max_fd >= 2
  /\ boot \in {"stderr", "main"} => dev(STDIN_FILENO) = console /\ acc(STDIN_FILENO) = "O_RDONLY"
  /\ boot = "main" => dev(STDERR_FILENO) = console /\ acc(STDERR_FILENO) = "O_WRONLY"

\* Only the program locks, and only devices.
Locks ==
  \A fd \in fds :
    /\ excl(fd) => boot = "main" /\ is_dev(fd)
    /\ is_dev(fd) => dev(fd) \in alt_dev_list

FilesInv == Pool /\ Unused /\ Holdings /\ Redirected /\ Locks

LEMMA Start == Init => FilesInv
  <1> SUFFICES ASSUME Init
               PROVE  FilesInv
    OBVIOUS
  <1>1. \A fd \in fds : /\ alt_fd_list[fd] = descriptor(IF fd <= 2 THEN null ELSE NoDev, no_flags)
                        /\ alt_fd_list[fd] \in Descriptors
                        /\ dev(fd) = (IF fd <= 2 THEN null ELSE NoDev)
                        /\ ~excl(fd) /\ ~is_dev(fd)
    <2> TAKE fd \in fds
    <2>1. (IF fd <= 2 THEN null ELSE NoDev) \in Names
      BY DEF Names
    <2>2. alt_fd_list[fd] = descriptor(IF fd <= 2 THEN null ELSE NoDev, no_flags)
      BY DEF Init
    <2> QED
      BY <2>1, <2>2, Unset, NoFlags DEF dev, excl, is_dev
  <1>2. DOMAIN held = {}
    BY DEF Init
  <1>3. Pool
    <2>1. alt_fd_list \in [fds -> Descriptors]
      BY <1>1 DEF Init
    <2> QED
      BY <2>1 DEF Pool, Init, Stages
  <1>4. Unused
    <2> SUFFICES ASSUME NEW fd \in fds \ own
                 PROVE  dev(fd) = NoDev /\ alt_fd_list[fd] = descriptor(NoDev, no_flags)
      BY DEF Unused
    <2>1. fd \in Nat /\ fd # 0 /\ fd # 1 /\ fd # 2
      BY Numbers DEF own, STDIN_FILENO, STDOUT_FILENO, STDERR_FILENO
    <2>2. ~(fd <= 2)
      BY <2>1
    <2> QED
      BY <1>1, <2>2
  <1>5. Holdings
    BY <1>2 DEF Holdings
  <1>6. Redirected
    <2>1. \A fd \in Streams : dev(fd) = null
      BY <1>1, Numbers DEF Streams
    <2> QED
      BY <2>1, DevicesAssumption DEF Redirected, Init
  <1>7. Locks
    BY <1>1 DEF Locks
  <1> QED
    BY <1>3, <1>4, <1>5, <1>6, <1>7 DEF FilesInv

-----------------------------------------------------------------------------
(* What the steps rest on.                                                 *)

LEMMA StreamsAre == Streams = {STDIN_FILENO, STDOUT_FILENO, STDERR_FILENO}
  BY DEF Streams, STDIN_FILENO, STDOUT_FILENO, STDERR_FILENO

LEMMA HeldIs ==
  ASSUME FilesInv
  PROVE  \A fd \in DOMAIN held : /\ fd \in fds /\ fd \notin Streams /\ fd \in Int
                                 /\ fd <= alt_max_fd /\ dev(fd) # NoDev
                                 /\ held[fd].dev = dev(fd) /\ held[fd].acc = acc(fd)
  <1>1. \A fd \in DOMAIN held : fd \in fds \ Streams /\ fd <= alt_max_fd
    BY DEF FilesInv, Holdings
  <1>2. \A fd \in DOMAIN held : dev(fd) # NoDev /\ held[fd].dev = dev(fd) /\ held[fd].acc = acc(fd)
    BY DEF FilesInv, Holdings
  <1>3. \A fd \in fds : fd \in Int
    BY Numbers
  <1> QED
    BY <1>1, <1>2, <1>3

\* A free descriptor is one that nobody holds.
LEMMA FreeIsUnused ==
  ASSUME FilesInv, NEW fd \in free
  PROVE  fd \in fds \ own /\ fd \notin Streams /\ fd \notin DOMAIN held
  <1>1. fd \in fds /\ dev(fd) = NoDev
    BY DEF free, dev
  <1>2. fd \notin Streams
    BY <1>1 DEF FilesInv, Redirected
  <1>3. fd \notin DOMAIN held
    BY <1>1 DEF FilesInv, Holdings
  <1> QED
    BY <1>1, <1>2, <1>3, StreamsAre DEF own

LEMMA AllocatesFree ==
  ASSUME FilesInv, NEW name, NEW index, Allocates(name, index)
  PROVE  /\ index \in free /\ index \in fds /\ name \in Names /\ name # NoDev
         /\ index \in Nat /\ index >= 3 /\ index \notin Streams
         /\ alt_fd_list[index] = descriptor(NoDev, no_flags)
  <1>1. free # {} /\ free \subseteq fds /\ index = Min(free)
    BY DEF Allocates, free
  <1>2. index \in free
    BY <1>1, LeastOf
  <1>3. index \in fds \ Streams
    BY <1>2, FreeIsUnused
  <1>4. index \in Nat /\ index # 0 /\ index # 1 /\ index # 2
    BY <1>3, Numbers DEF Streams
  <1>5. alt_dev_list \subseteq {null, console}
    BY DEF FilesInv, Pool
  <1>6. alt_fd_list[index] = descriptor(NoDev, no_flags)
    BY <1>2, FreeIsUnused DEF FilesInv, Unused
  <1> QED
    BY <1>2, <1>3, <1>4, <1>5, <1>6, DevicesAssumption DEF Allocates, exists, Names

\* A descriptor that was allocated and released is as it was.
LEMMA GivenBack ==
  ASSUME NEW list \in [fds -> Descriptors], NEW index \in Nat, index >= 3, index \in fds,
         list[index] = descriptor(NoDev, no_flags), NEW d
  PROVE  released([list EXCEPT ![index] = d], index) = list
  <1>1. index > 2
    OBVIOUS
  <1>2. released([list EXCEPT ![index] = d], index)
          = [[list EXCEPT ![index] = d] EXCEPT ![index] = list[index]]
    BY <1>1 DEF released
  <1> QED
    BY <1>2

\* Where it was copied to another one first, that one has what was opened.
LEMMA CopiedOver ==
  ASSUME NEW list \in [fds -> Descriptors], NEW index \in fds, index > 2,
         list[index] = descriptor(NoDev, no_flags), NEW d, NEW fd \in fds, fd # index
  PROVE  released([[list EXCEPT ![index] = d] EXCEPT ![fd] = d], index) = [list EXCEPT ![fd] = d]
  <1>1. released([[list EXCEPT ![index] = d] EXCEPT ![fd] = d], index)
          = [[[list EXCEPT ![index] = d] EXCEPT ![fd] = d] EXCEPT ![index] = list[index]]
    BY DEF released
  <1> QED
    BY <1>1

LEMMA Raised ==
  ASSUME NEW fd \in Int, alt_max_fd \in Int
  PROVE  raised(fd) \in Int /\ raised(fd) >= alt_max_fd /\ raised(fd) >= fd
  BY DEF raised

\* Nothing is open above the high water mark.
LEMMA BelowMark ==
  ASSUME FilesInv, boot = "main", NEW fd \in own
  PROVE  fd <= alt_max_fd
  <1>1. CASE fd \in DOMAIN held
    BY <1>1 DEF FilesInv, Holdings
  <1>2. CASE fd \in Streams
    <2>1. alt_max_fd \in Int /\ alt_max_fd >= 2
      BY DEF FilesInv, Redirected, Pool
    <2>2. fd \in Nat /\ fd <= 2
      BY <1>2 DEF Streams
    <2> QED
      BY <2>1, <2>2
  <1> QED
    BY <1>1, <1>2, StreamsAre DEF own

\* What a locked descriptor is.
LEMMA LockedIs ==
  ASSUME FilesInv, NEW fd \in fds, excl(fd)
  PROVE  /\ boot = "main" /\ fd \in own /\ dev(fd) \in alt_dev_list /\ dev(fd) # NoDev
         /\ fd <= alt_max_fd
  <1>1. boot = "main" /\ dev(fd) \in alt_dev_list
    BY DEF FilesInv, Locks
  <1>2. fd \in own
    <2> SUFFICES ASSUME fd \notin own
                 PROVE  FALSE
      OBVIOUS
    <2>1. alt_fd_list[fd] = descriptor(NoDev, no_flags)
      BY DEF FilesInv, Unused
    <2>2. NoDev \in Names
      BY DEF Names
    <2> QED
      BY <2>1, <2>2, Unset, NoFlags DEF excl
  <1>3. alt_dev_list \subseteq {null, console}
    BY DEF FilesInv, Pool
  <1>4. fd <= alt_max_fd
    BY <1>1, <1>2, BelowMark
  <1> QED
    BY <1>1, <1>2, <1>3, <1>4, DevicesAssumption
-----------------------------------------------------------------------------
(* The steps.                                                              *)

LEMMA SysInitKeeps == FilesInv /\ alt_sys_init => FilesInv'
  <1> SUFFICES ASSUME FilesInv, alt_sys_init
               PROVE  FilesInv'
    OBVIOUS
  <1>1. Pool'
    BY DEF FilesInv, Pool, alt_sys_init, Stages
  <1>2. Unused' /\ Holdings' /\ Redirected'
    BY DEF FilesInv, Unused, Holdings, Redirected, alt_sys_init, own, dev, acc
  <1>3. Locks'
    BY DEF FilesInv, Locks, alt_sys_init, dev, excl, is_dev
  <1> QED
    BY <1>1, <1>2, <1>3 DEF FilesInv

\* One stream is redirected; the descriptor used for it is free again.
LEMMA RedirectOne ==
  ASSUME FilesInv, NEW fd \in Streams, NEW access \in Access,
         alt_open_fd(fd, access), boot \notin {"sys_init", "main"}, boot' \in Stages \ {"sys_init"}
  PROVE  /\ Pool' /\ Unused' /\ Holdings' /\ Locks'
         /\ alt_max_fd' >= 3
         /\ dev(fd)' = console /\ acc(fd)' = access
         /\ \A i \in Streams \ {fd} : dev(i)' = dev(i) /\ acc(i)' = acc(i)
         /\ \A i \in fds : excl(i)' => excl(i)
  <1> DEFINE d == opened(console, access, FALSE)
  <1>1. PICK old \in fds :
          /\ Opens(console, access, FALSE, old)
          /\ alt_max_fd' = raised(old)
          /\ LET took == taken(console, access, FALSE, old)
             IN alt_fd_list' = released([took EXCEPT ![fd] = took[old]], old)
          /\ UNCHANGED <<alt_dev_list, held>>
    BY DEF alt_open_fd
  <1>2. old >= 3 /\ old \in Int /\ old \in Nat /\ old # fd
        /\ alt_fd_list[old] = descriptor(NoDev, no_flags)
    BY <1>1, AllocatesFree DEF Opens
  <1>3. console \in Names /\ FALSE \in BOOLEAN
    BY DEF Names
  <1>4. /\ d \in Descriptors /\ d.dev = console /\ d.fd_flags.acc = access
        /\ ~d.fd_flags.excl /\ (d.fd_flags.dev <=> console \in alt_dev_list)
    BY <1>3, Opened
  <1> HIDE DEF d
  <1>5. fd \in fds /\ fd \in own
    BY Numbers, StreamsAre DEF own
  <1>5a. alt_fd_list' = [alt_fd_list EXCEPT ![fd] = d]
    <2> DEFINE took == taken(console, access, FALSE, old)
    <2>1. took = [alt_fd_list EXCEPT ![old] = d]
      BY DEF taken, d
    <2>2. alt_fd_list' = released([took EXCEPT ![fd] = took[old]], old)
      BY <1>1
    <2>3. alt_fd_list \in [fds -> Descriptors]
      BY DEF FilesInv, Pool
    <2> HIDE DEF took
    <2>4. took[old] = d
      BY <2>1, <2>3
    <2>5. alt_fd_list' = released([[alt_fd_list EXCEPT ![old] = d] EXCEPT ![fd] = d], old)
      BY <2>1, <2>2, <2>4
    <2>6. old > 2 /\ old \in fds /\ fd # old /\ alt_fd_list[old] = descriptor(NoDev, no_flags)
      BY <1>2
    <2>7. released([[alt_fd_list EXCEPT ![old] = d] EXCEPT ![fd] = d], old) = [alt_fd_list EXCEPT ![fd] = d]
      BY <1>5, <2>3, <2>6, CopiedOver
    <2> QED
      BY <2>5, <2>7
  <1>6. /\ alt_fd_list' \in [fds -> Descriptors] /\ alt_fd_list'[fd] = d
        /\ \A i \in fds \ {fd} : alt_fd_list'[i] = alt_fd_list[i]
    BY <1>4, <1>5, <1>5a, Replaced DEF FilesInv, Pool
  <1>7. alt_max_fd' \in Int /\ alt_max_fd' >= 3 /\ alt_max_fd' >= alt_max_fd
    <2>1. alt_max_fd \in Int
      BY DEF FilesInv, Pool
    <2> QED
      BY <1>1, <1>2, <2>1, Raised
  <1>8. Pool'
    BY <1>1, <1>6, <1>7 DEF FilesInv, Pool
  <1>9. Unused'
    BY <1>1, <1>5, <1>6 DEF FilesInv, Unused, own, dev
  <1>10. Holdings'
    <2>1. DOMAIN held = {}
      BY DEF FilesInv, Holdings
    <2> QED
      BY <1>1, <2>1 DEF Holdings
  <1>11. Locks'
    <2> SUFFICES ASSUME NEW i \in fds
                 PROVE  (excl(i)' => boot' = "main" /\ is_dev(i)') /\ (is_dev(i)' => dev(i)' \in alt_dev_list')
      BY DEF Locks
    <2>1. CASE i = fd
      BY <1>1, <1>4, <1>6, <2>1 DEF excl, is_dev, dev
    <2>2. CASE i # fd
      BY <1>1, <1>6, <2>2 DEF FilesInv, Locks, excl, is_dev, dev
    <2> QED
      BY <2>1, <2>2
  <1>12. \A i \in fds : excl(i)' => excl(i)
    BY <1>4, <1>6 DEF excl
  <1> QED
    BY <1>4, <1>5, <1>6, <1>7, <1>8, <1>9, <1>10, <1>11, <1>12, Numbers DEF dev, acc

LEMMA RedirectKeeps == FilesInv /\ alt_io_redirect => FilesInv'
  <1> SUFFICES ASSUME FilesInv, alt_io_redirect
               PROVE  FilesInv'
    OBVIOUS
  <1> DEFINE One(fd, access) ==
        /\ Pool' /\ Unused' /\ Holdings' /\ Locks' /\ alt_max_fd' >= 3
        /\ dev(fd)' = console /\ acc(fd)' = access
        /\ \A i \in Streams \ {fd} : dev(i)' = dev(i) /\ acc(i)' = acc(i)
  <1>1. {STDIN_FILENO, STDOUT_FILENO, STDERR_FILENO} \subseteq Streams
        /\ STDIN_FILENO # STDOUT_FILENO /\ STDIN_FILENO # STDERR_FILENO /\ STDOUT_FILENO # STDERR_FILENO
    BY StreamsAre DEF STDIN_FILENO, STDOUT_FILENO, STDERR_FILENO
  <1>2. {"O_RDONLY", "O_WRONLY"} \subseteq Access
    BY DEF Access
  <1>3. Redirected
    BY DEF FilesInv
  <1>4. CASE boot = "stdout" /\ alt_open_fd(STDOUT_FILENO, "O_WRONLY") /\ boot' = "stdin"
    <2>1. One(STDOUT_FILENO, "O_WRONLY")
      BY <1>1, <1>2, <1>4, RedirectOne DEF Stages
    <2>2. alt_max_fd' >= 2
      BY <2>1 DEF Pool
    <2>3. Redirected'
      BY <1>1, <1>3, <1>4, <2>1, <2>2, DevicesAssumption DEF Redirected
    <2> QED
      BY <2>1, <2>3 DEF FilesInv
  <1>5. CASE boot = "stdin" /\ alt_open_fd(STDIN_FILENO, "O_RDONLY") /\ boot' = "stderr"
    <2>1. One(STDIN_FILENO, "O_RDONLY")
      BY <1>1, <1>2, <1>5, RedirectOne DEF Stages
    <2>2. alt_max_fd' >= 2
      BY <2>1 DEF Pool
    <2>3. Redirected'
      BY <1>1, <1>3, <1>5, <2>1, <2>2, DevicesAssumption DEF Redirected
    <2> QED
      BY <2>1, <2>3 DEF FilesInv
  <1>6. CASE boot = "stderr" /\ alt_open_fd(STDERR_FILENO, "O_WRONLY") /\ boot' = "main"
    <2>1. One(STDERR_FILENO, "O_WRONLY")
      BY <1>1, <1>2, <1>6, RedirectOne DEF Stages
    <2>2. alt_max_fd' >= 2
      BY <2>1 DEF Pool
    <2>3. Redirected'
      BY <1>1, <1>3, <1>6, <2>1, <2>2, DevicesAssumption DEF Redirected
    <2> QED
      BY <2>1, <2>3 DEF FilesInv
  <1> QED
    BY <1>4, <1>5, <1>6 DEF alt_io_redirect

\* An open that is refused gives back what it has allocated.
LEMMA RefusedRests ==
  ASSUME FilesInv, NEW name, NEW access, NEW nonblock, NEW index,
         Refused(name, access, nonblock, index)
  PROVE  alt_fd_list' = alt_fd_list /\ alt_max_fd' = raised(index) /\ index \in Nat
  <1>1. /\ index \in fds /\ index \in Nat /\ index >= 3
        /\ alt_fd_list[index] = descriptor(NoDev, no_flags)
    BY AllocatesFree DEF Refused
  <1>2. alt_fd_list' = released([alt_fd_list EXCEPT ![index] = opened(name, access, nonblock)], index)
    BY DEF Refused, taken
  <1> QED
    BY <1>1, <1>2, GivenBack DEF FilesInv, Pool, Refused

\* An open that fails leaves everything but the high water mark.
LEMMA OpenFailsKeeps ==
  ASSUME FilesInv, NEW name, NEW access, NEW nonblock,
         FindsNone(name) \/ \E index \in fds : Refused(name, access, nonblock, index),
         UNCHANGED <<alt_dev_list, boot, held>>
  PROVE  FilesInv' /\ alt_fd_list' = alt_fd_list
  <1>1. /\ alt_fd_list' = alt_fd_list
        /\ alt_max_fd' \in Int /\ alt_max_fd' >= alt_max_fd /\ alt_max_fd \in Int
    <2>1. alt_max_fd \in Int
      BY DEF FilesInv, Pool
    <2>2. CASE FindsNone(name)
      BY <2>1, <2>2 DEF FindsNone
    <2>3. CASE \E index \in fds : Refused(name, access, nonblock, index)
      BY <2>1, <2>3, RefusedRests, Raised
    <2> QED
      BY <2>2, <2>3
  <1>2. Pool' /\ Unused' /\ Locks'
    BY <1>1 DEF FilesInv, Pool, Unused, Locks, own, dev, excl, is_dev
  <1>3. Holdings'
    <2>1. \A fd \in DOMAIN held : fd \in Int /\ fd <= alt_max_fd
      BY HeldIs
    <2>2. \A fd \in DOMAIN held : fd <= alt_max_fd'
      BY <1>1, <2>1
    <2> QED
      BY <1>1, <2>2 DEF FilesInv, Holdings, dev, acc
  <1>4. Redirected'
    <2>1. alt_max_fd >= 2 => alt_max_fd' >= 2
      BY <1>1
    <2> QED
      BY <1>1, <2>1 DEF FilesInv, Redirected, dev, acc
  <1> QED
    BY <1>1, <1>2, <1>3, <1>4 DEF FilesInv

\* An open that ends well, apart from the names of its parameters.
OpenAt(name, access, nonblock, index) ==
  /\ boot = "main"
  /\ Opens(name, access, nonblock, index)
  /\ alt_max_fd' = raised(index)
  /\ alt_fd_list' = [alt_fd_list EXCEPT ![index] = opened(name, access, nonblock)]
  /\ held' = [fd \in DOMAIN held \union {index} |->
                IF fd = index THEN [dev |-> name, acc |-> access] ELSE held[fd]]
  /\ UNCHANGED <<alt_dev_list, boot>>

\* And one that fails.
OpenFails(name, access, nonblock) ==
  /\ FindsNone(name) \/ \E index \in fds : Refused(name, access, nonblock, index)
  /\ UNCHANGED <<alt_dev_list, boot, held>>

LEMMA OpenEnds ==
  ASSUME NEW name, NEW access, NEW nonblock, ALT_OPEN(name, access, nonblock)
  PROVE  \/ OpenFails(name, access, nonblock)
         \/ \E index \in fds : OpenAt(name, access, nonblock, index)
  BY DEF ALT_OPEN, OpenFails, OpenAt, taken

\* What it does to the descriptors.
LEMMA OpenedOne ==
  ASSUME FilesInv, NEW name, NEW access \in Access, NEW nonblock \in BOOLEAN,
         NEW index \in fds, OpenAt(name, access, nonblock, index)
  PROVE  /\ alt_fd_list' \in [fds -> Descriptors]
         /\ dev(index)' = name /\ acc(index)' = access /\ ~excl(index)'
         /\ is_dev(index)' <=> name \in alt_dev_list
         /\ \A i \in fds \ {index} : alt_fd_list'[i] = alt_fd_list[i]
         /\ name # NoDev /\ index \in free /\ index \in fds \ own /\ index \notin Streams
         /\ alt_max_fd' \in Int /\ alt_max_fd' >= alt_max_fd /\ alt_max_fd' >= index
         /\ alt_max_fd \in Int /\ index \in Int
  <1> DEFINE d == opened(name, access, nonblock)
  <1>1. name \in Names /\ name # NoDev /\ index \in free
    BY AllocatesFree DEF OpenAt, Opens
  <1>2. /\ d \in Descriptors /\ d.dev = name /\ d.fd_flags.acc = access
        /\ ~d.fd_flags.excl /\ (d.fd_flags.dev <=> name \in alt_dev_list)
    BY <1>1, Opened
  <1>3. alt_fd_list' = [alt_fd_list EXCEPT ![index] = d] /\ alt_max_fd' = raised(index)
    BY DEF OpenAt
  <1> HIDE DEF d
  <1>4. alt_fd_list \in [fds -> Descriptors] /\ alt_max_fd \in Int
    BY DEF FilesInv, Pool
  <1>5. /\ alt_fd_list' \in [fds -> Descriptors] /\ alt_fd_list'[index] = d
        /\ \A i \in fds \ {index} : alt_fd_list'[i] = alt_fd_list[i]
    BY <1>2, <1>3, <1>4, Replaced
  <1>6. index \in Int
    BY Integral
  <1>7. alt_max_fd' \in Int /\ alt_max_fd' >= alt_max_fd /\ alt_max_fd' >= index
    BY <1>3, <1>4, <1>6, Raised
  <1>8. index \in fds \ own /\ index \notin Streams
    BY <1>1, FreeIsUnused
  <1>9. dev(index)' = name /\ acc(index)' = access /\ ~excl(index)'
        /\ (is_dev(index)' <=> name \in alt_dev_list)
    BY <1>2, <1>5 DEF dev, acc, excl, is_dev
  <1> QED
    BY <1>1, <1>4, <1>5, <1>6, <1>7, <1>8, <1>9

LEMMA OpenKeeps ==
  ASSUME FilesInv, NEW name, NEW access \in Access, NEW nonblock \in BOOLEAN,
         NEW index \in fds, OpenAt(name, access, nonblock, index)
  PROVE  FilesInv'
  <1>1. /\ alt_fd_list' \in [fds -> Descriptors]
        /\ dev(index)' = name /\ acc(index)' = access /\ ~excl(index)'
        /\ is_dev(index)' <=> name \in alt_dev_list
        /\ \A i \in fds \ {index} : alt_fd_list'[i] = alt_fd_list[i]
    BY OpenedOne
  <1>2. /\ name # NoDev /\ index \in fds \ own /\ index \notin Streams
        /\ alt_max_fd' \in Int /\ alt_max_fd' >= alt_max_fd /\ alt_max_fd' >= index
        /\ alt_max_fd \in Int /\ index \in Int
    BY OpenedOne
  <1>3. UNCHANGED <<alt_dev_list, boot>> /\ boot = "main"
    BY DEF OpenAt
  <1>4. /\ held' = [fd \in DOMAIN held \union {index} |->
                      IF fd = index THEN [dev |-> name, acc |-> access] ELSE held[fd]]
        /\ DOMAIN held' = DOMAIN held \union {index}
    BY DEF OpenAt
  <1>5. own' = own \union {index}
    BY <1>4 DEF own
  <1>6. Pool'
    BY <1>1, <1>2, <1>3 DEF FilesInv, Pool
  <1>7. Unused'
    BY <1>1, <1>5 DEF FilesInv, Unused, dev
  <1>8. Holdings'
    <2>1. DOMAIN held' \subseteq fds \ Streams
      BY <1>2, <1>4 DEF FilesInv, Holdings
    <2>2. ASSUME NEW fd \in DOMAIN held'
          PROVE  /\ held'[fd].dev = dev(fd)' /\ held'[fd].acc = acc(fd)'
                 /\ dev(fd)' # NoDev /\ fd <= alt_max_fd'
      <3>1. CASE fd = index
        <4>1. held'[fd] = [dev |-> name, acc |-> access]
          BY <1>4, <3>1
        <4> QED
          BY <1>1, <1>2, <3>1, <4>1
      <3>2. CASE fd # index
        <4>1. fd \in DOMAIN held /\ held'[fd] = held[fd]
          BY <1>4, <3>2
        <4>2. fd \in fds /\ fd \in Int /\ fd <= alt_max_fd /\ dev(fd) # NoDev
              /\ held[fd].dev = dev(fd) /\ held[fd].acc = acc(fd)
          BY <4>1, HeldIs
        <4>3. alt_fd_list'[fd] = alt_fd_list[fd]
          BY <1>1, <3>2, <4>2
        <4>4. fd <= alt_max_fd'
          BY <1>2, <4>2
        <4> QED
          BY <4>1, <4>2, <4>3, <4>4 DEF dev, acc
      <3> QED
        BY <3>1, <3>2
    <2> QED
      BY <1>3, <2>1, <2>2 DEF Holdings
  <1>9. Redirected'
    <2>1. \A i \in Streams : alt_fd_list'[i] = alt_fd_list[i]
      BY <1>1, <1>2, Numbers
    <2>2. alt_max_fd >= 2 => alt_max_fd' >= 2
      BY <1>2
    <2> QED
      BY <1>3, <2>1, <2>2, StreamsAre DEF FilesInv, Redirected, dev, acc
  <1>10. Locks'
    <2> SUFFICES ASSUME NEW i \in fds
                 PROVE  (excl(i)' => boot' = "main" /\ is_dev(i)') /\ (is_dev(i)' => dev(i)' \in alt_dev_list')
      BY DEF Locks
    <2>1. CASE i = index
      BY <1>1, <1>3, <2>1
    <2>2. CASE i # index
      BY <1>1, <1>3, <2>2 DEF FilesInv, Locks, excl, is_dev, dev
    <2> QED
      BY <2>1, <2>2
  <1> QED
    BY <1>6, <1>7, <1>8, <1>9, <1>10 DEF FilesInv

\* A close, and what it does to the descriptors.
LEMMA ClosedOne ==
  ASSUME FilesInv, NEW fd \in own, ALT_CLOSE(fd)
  PROVE  /\ alt_fd_list' \in [fds -> Descriptors] /\ fd \in fds
         /\ \A i \in fds \ {fd} : alt_fd_list'[i] = alt_fd_list[i]
         /\ fd \in Streams => alt_fd_list' = alt_fd_list
         /\ fd \notin Streams => alt_fd_list'[fd] = descriptor(NoDev, no_flags)
  <1>1. alt_fd_list \in [fds -> Descriptors]
    BY DEF FilesInv, Pool
  <1>2. fd \in fds
    BY Numbers, StreamsAre DEF own, FilesInv, Holdings
  <1>3. CASE fd \in Streams
    <2>1. ~(fd > 2)
      BY <1>3 DEF Streams
    <2> QED
      BY <1>1, <1>2, <1>3, <2>1 DEF ALT_CLOSE, released
  <1>4. CASE fd \notin Streams
    <2>1. fd \in Nat /\ fd # 0 /\ fd # 1 /\ fd # 2
      BY <1>2, <1>4, Numbers DEF Streams
    <2>2. fd > 2
      BY <2>1
    <2>3. descriptor(NoDev, no_flags) \in Descriptors
      BY Unset DEF Names
    <2>4. alt_fd_list' = [alt_fd_list EXCEPT ![fd] = descriptor(NoDev, no_flags)]
      BY <2>2 DEF ALT_CLOSE, released
    <2> QED
      BY <1>1, <1>2, <1>4, <2>3, <2>4, Replaced
  <1> QED
    BY <1>3, <1>4

LEMMA CloseKeeps ==
  ASSUME FilesInv, NEW fd \in own, ALT_CLOSE(fd)
  PROVE  FilesInv'
  <1>1. /\ alt_fd_list' \in [fds -> Descriptors] /\ fd \in fds
        /\ \A i \in fds \ {fd} : alt_fd_list'[i] = alt_fd_list[i]
        /\ fd \in Streams => alt_fd_list' = alt_fd_list
        /\ fd \notin Streams => alt_fd_list'[fd] = descriptor(NoDev, no_flags)
    BY ClosedOne
  <1>2. UNCHANGED <<alt_dev_list, alt_max_fd, boot>> /\ boot = "main"
        /\ held' = [i \in DOMAIN held \ {fd} |-> held[i]]
    BY DEF ALT_CLOSE
  <1>3. DOMAIN held' = DOMAIN held \ {fd}
    BY <1>2
  <1>4. Pool'
    BY <1>1, <1>2 DEF FilesInv, Pool
  <1>5. /\ descriptor(NoDev, no_flags).dev = NoDev
        /\ ~descriptor(NoDev, no_flags).fd_flags.excl /\ ~descriptor(NoDev, no_flags).fd_flags.dev
    BY Unset, NoFlags DEF Names
  <1>6. Unused'
    <2> SUFFICES ASSUME NEW i \in fds, i \notin own'
                 PROVE  dev(i)' = NoDev /\ alt_fd_list'[i] = descriptor(NoDev, no_flags)
      BY DEF Unused
    <2>1. i \notin Streams
      BY StreamsAre DEF own
    <2>2. CASE i = fd
      BY <1>1, <1>5, <2>1, <2>2 DEF dev
    <2>3. CASE i # fd
      <3>1. i \notin own
        BY <1>3, <2>3 DEF own
      <3> QED
        BY <1>1, <2>3, <3>1 DEF FilesInv, Unused, dev
    <2> QED
      BY <2>2, <2>3
  <1>7. Holdings'
    <2>1. ASSUME NEW i \in DOMAIN held'
          PROVE  /\ held'[i].dev = dev(i)' /\ held'[i].acc = acc(i)'
                 /\ dev(i)' # NoDev /\ i <= alt_max_fd'
      <3>1. i \in DOMAIN held /\ i # fd /\ held'[i] = held[i]
        BY <1>2, <1>3
      <3>2. i \in fds /\ i <= alt_max_fd /\ dev(i) # NoDev
            /\ held[i].dev = dev(i) /\ held[i].acc = acc(i)
        BY <3>1, HeldIs
      <3>3. alt_fd_list'[i] = alt_fd_list[i]
        BY <1>1, <3>1, <3>2
      <3> QED
        BY <1>2, <3>1, <3>2, <3>3 DEF dev, acc
    <2>2. DOMAIN held' \subseteq fds \ Streams
      BY <1>3 DEF FilesInv, Holdings
    <2> QED
      BY <1>2, <2>1, <2>2 DEF Holdings
  <1>8. Redirected'
    <2>1. \A i \in Streams : alt_fd_list'[i] = alt_fd_list[i]
      BY <1>1, Numbers
    <2> QED
      BY <1>2, <2>1, StreamsAre DEF FilesInv, Redirected, dev, acc
  <1>9. Locks'
    <2> SUFFICES ASSUME NEW i \in fds
                 PROVE  (excl(i)' => boot' = "main" /\ is_dev(i)') /\ (is_dev(i)' => dev(i)' \in alt_dev_list')
      BY DEF Locks
    <2>1. CASE alt_fd_list'[i] = alt_fd_list[i]
      BY <1>2, <2>1 DEF FilesInv, Locks, excl, is_dev, dev
    <2>2. CASE i = fd /\ fd \notin Streams
      BY <1>1, <1>5, <2>2 DEF excl, is_dev
    <2> QED
      BY <1>1, <2>1, <2>2
  <1> QED
    BY <1>4, <1>6, <1>7, <1>8, <1>9 DEF FilesInv

\* The calls that change a flag: what is open and where stays.
FlagsOnly(fd) ==
  /\ boot = "main"
  /\ alt_fd_list' \in [fds -> Descriptors]
  /\ \A i \in fds \ {fd} : alt_fd_list'[i] = alt_fd_list[i]
  /\ dev(fd)' = dev(fd) /\ acc(fd)' = acc(fd) /\ is_dev(fd)' = is_dev(fd)
  /\ excl(fd)' => excl(fd) \/ is_dev(fd)
  /\ UNCHANGED <<alt_dev_list, alt_max_fd, boot, held>>

LEMMA SetsFlags ==
  ASSUME FilesInv, NEW fd \in own,
         TIOCEXCL(fd) \/ TIOCNXCL(fd) \/ \E nonblock \in BOOLEAN : F_SETFL(fd, nonblock)
  PROVE  FlagsOnly(fd) /\ fd \in fds
  <1>1. alt_fd_list \in [fds -> Descriptors]
    BY DEF FilesInv, Pool
  <1>2. fd \in fds
    BY Numbers, StreamsAre DEF own, FilesInv, Holdings
  <1>3. CASE TIOCEXCL(fd)
    BY <1>1, <1>2, <1>3, Locked DEF TIOCEXCL, FlagsOnly, dev, acc, is_dev, excl
  <1>4. CASE TIOCNXCL(fd)
    BY <1>1, <1>2, <1>4, Locked DEF TIOCNXCL, FlagsOnly, dev, acc, is_dev, excl
  <1>5. CASE \E nonblock \in BOOLEAN : F_SETFL(fd, nonblock)
    <2>1. PICK nonblock \in BOOLEAN : F_SETFL(fd, nonblock)
      BY <1>5
    <2> QED
      BY <1>1, <1>2, <2>1, Blocking DEF F_SETFL, FlagsOnly, dev, acc, is_dev, excl
  <1> QED
    BY <1>2, <1>3, <1>4, <1>5

LEMMA FlagsKeep ==
  ASSUME FilesInv, NEW fd \in own, fd \in fds, FlagsOnly(fd)
  PROVE  FilesInv'
  <1>1. /\ alt_fd_list' \in [fds -> Descriptors]
        /\ \A i \in fds \ {fd} : alt_fd_list'[i] = alt_fd_list[i]
        /\ UNCHANGED <<alt_dev_list, alt_max_fd, boot, held>> /\ boot = "main"
    BY DEF FlagsOnly
  <1>2. \A i \in fds : dev(i)' = dev(i) /\ acc(i)' = acc(i)
    BY DEF FlagsOnly, dev, acc
  <1>3. own' = own
    BY <1>1 DEF own
  <1>4. Pool'
    BY <1>1 DEF FilesInv, Pool
  <1>5. Unused'
    BY <1>1, <1>2, <1>3 DEF FilesInv, Unused
  <1>6. Holdings'
    BY <1>1, <1>2 DEF FilesInv, Holdings
  <1>7. Redirected'
    BY <1>1, <1>2, StreamsAre, Numbers DEF FilesInv, Redirected
  <1>8. Locks'
    <2> SUFFICES ASSUME NEW i \in fds
                 PROVE  (excl(i)' => boot' = "main" /\ is_dev(i)') /\ (is_dev(i)' => dev(i)' \in alt_dev_list')
      BY DEF Locks
    <2>1. (excl(i) => is_dev(i)) /\ (is_dev(i) => dev(i) \in alt_dev_list)
      BY DEF FilesInv, Locks
    <2>2. CASE i = fd
      BY <1>1, <1>2, <2>1, <2>2 DEF FlagsOnly
    <2>3. CASE i # fd
      BY <1>1, <2>1, <2>3 DEF excl, is_dev, dev
    <2> QED
      BY <2>2, <2>3
  <1> QED
    BY <1>4, <1>5, <1>6, <1>7, <1>8 DEF FilesInv

LEMMA Inductive == FilesInv /\ [Next]_vars => FilesInv'
  <1> SUFFICES ASSUME FilesInv, [Next]_vars
               PROVE  FilesInv'
    OBVIOUS
  <1>1. CASE alt_sys_init
    BY <1>1, SysInitKeeps
  <1>2. CASE alt_io_redirect
    BY <1>2, RedirectKeeps
  <1>3. CASE \E name \in FileSystems \union {console, null, NoDev}, access \in Access,
                nonblock \in BOOLEAN : ALT_OPEN(name, access, nonblock)
    <2>1. PICK name \in FileSystems \union {console, null, NoDev}, access \in Access,
              nonblock \in BOOLEAN : ALT_OPEN(name, access, nonblock)
      BY <1>3
    <2>2. CASE OpenFails(name, access, nonblock)
      BY <2>2, OpenFailsKeeps DEF OpenFails
    <2>3. CASE \E index \in fds : OpenAt(name, access, nonblock, index)
      BY <2>3, OpenKeeps
    <2> QED
      BY <2>1, <2>2, <2>3, OpenEnds
  <1>4. CASE \E fd \in own : ALT_CLOSE(fd)
    BY <1>4, CloseKeeps
  <1>5. CASE \E fd \in own : TIOCEXCL(fd) \/ TIOCNXCL(fd) \/ \E nonblock \in BOOLEAN : F_SETFL(fd, nonblock)
    BY <1>5, SetsFlags, FlagsKeep
  <1>6. CASE UNCHANGED vars
    BY <1>6 DEF vars, FilesInv, Pool, Unused, Holdings, Redirected, Locks, own, dev, acc, excl, is_dev
  <1> QED
    BY <1>1, <1>2, <1>3, <1>4, <1>5, <1>6 DEF Next

LEMMA Invariance == Spec => []FilesInv
  BY Start, Inductive, PTL DEF Spec

-----------------------------------------------------------------------------
(* The pool.                                                               *)

LEMMA InvPool == FilesInv => PoolIsWhatIsOpen
  <1> SUFFICES ASSUME FilesInv, boot = "main"
               PROVE  /\ \A fd \in fds \ own : alt_fd_list[fd] = descriptor(NoDev, no_flags)
                      /\ \A fd \in DOMAIN held :
                           /\ alt_fd_list[fd].dev = held[fd].dev
                           /\ ALT_READ(fd) => held[fd].acc \in {"O_RDONLY", "O_RDWR"}
                           /\ ALT_WRITE(fd) => held[fd].acc \in {"O_WRONLY", "O_RDWR"}
                      /\ ALT_READ(STDIN_FILENO) /\ ALT_WRITE(STDOUT_FILENO) /\ ALT_WRITE(STDERR_FILENO)
                      /\ \A fd \in 0 .. 2 : alt_fd_list[fd].dev = console
    BY DEF PoolIsWhatIsOpen
  <1>1. \A fd \in fds \ own : alt_fd_list[fd] = descriptor(NoDev, no_flags)
    BY DEF FilesInv, Unused
  <1>2. \A fd \in fds : acc(fd) \in Access
    BY DEF FilesInv, Pool, Descriptors, Flags, acc
  <1>3. ASSUME NEW fd \in DOMAIN held
        PROVE  /\ alt_fd_list[fd].dev = held[fd].dev
               /\ ALT_READ(fd) => held[fd].acc \in {"O_RDONLY", "O_RDWR"}
               /\ ALT_WRITE(fd) => held[fd].acc \in {"O_WRONLY", "O_RDWR"}
    <2>1. fd \in fds /\ held[fd].dev = dev(fd) /\ held[fd].acc = acc(fd)
      BY <1>3, HeldIs
    <2> QED
      BY <1>2, <2>1 DEF dev, acc, ALT_READ, ALT_WRITE, Access
  <1>4. /\ dev(STDOUT_FILENO) = console /\ acc(STDOUT_FILENO) = "O_WRONLY"
        /\ dev(STDIN_FILENO) = console /\ acc(STDIN_FILENO) = "O_RDONLY"
        /\ dev(STDERR_FILENO) = console /\ acc(STDERR_FILENO) = "O_WRONLY"
    BY DEF FilesInv, Redirected
  <1>5. ALT_READ(STDIN_FILENO) /\ ALT_WRITE(STDOUT_FILENO) /\ ALT_WRITE(STDERR_FILENO)
    BY <1>4, DevicesAssumption DEF dev, acc, ALT_READ, ALT_WRITE
  <1>6. \A fd \in 0 .. 2 : alt_fd_list[fd].dev = console
    BY <1>4, StreamsAre DEF Streams, dev
  <1> QED
    BY <1>1, <1>3, <1>5, <1>6

\* Whatever is opened, closed, locked and refused in whatever order, the pool
\* holds what is open as it was opened, and the streams are on the console.
THEOREM PoolHolds == Spec => []PoolIsWhatIsOpen
  BY Invariance, InvPool, PTL

-----------------------------------------------------------------------------
(* The lock.                                                               *)

LEMMA SameDevices ==
  ASSUME NEW fd \in fds, \A i \in fds : dev(i)' = dev(i)
  PROVE  sharers(fd)' \subseteq sharers(fd)
  BY DEF sharers, dev

LEMMA OpenSpares ==
  ASSUME FilesInv, NEW name, NEW access \in Access, NEW nonblock \in BOOLEAN,
         NEW index \in fds, OpenAt(name, access, nonblock, index),
         NEW fd \in fds, excl(fd)
  PROVE  sharers(fd)' \subseteq sharers(fd)
  <1>1. /\ dev(index)' = name /\ index \in fds \ own
        /\ \A i \in fds \ {index} : alt_fd_list'[i] = alt_fd_list[i]
    BY OpenedOne
  <1>2. /\ fd \in own /\ dev(fd) \in alt_dev_list /\ fd <= alt_max_fd
    BY LockedIs
  <1>3. fd # index
    BY <1>1, <1>2
  <1>4. dev(fd) # name
    <2> SUFFICES ASSUME dev(fd) = name
                 PROVE  FALSE
      OBVIOUS
    <2>1. ~alt_file_locked(name, index)
      BY <1>2 DEF OpenAt, Opens
    <2>2. fd \in 0 .. raised(index)
      <3>1. alt_max_fd \in Int /\ index \in Int /\ fd \in Nat
        BY Integral, Numbers DEF FilesInv, Pool
      <3>2. raised(index) \in Int /\ raised(index) >= alt_max_fd
        BY <3>1, Raised
      <3> QED
        BY <1>2, <3>1, <3>2
    <2> QED
      BY <1>3, <2>1, <2>2 DEF alt_file_locked, dev, excl
  <1>5. dev(fd)' = dev(fd) /\ \A i \in fds \ {index} : dev(i)' = dev(i)
    BY <1>1, <1>3 DEF dev
  <1> QED
    BY <1>1, <1>4, <1>5 DEF sharers, dev

LEMMA CloseSpares ==
  ASSUME FilesInv, NEW closed \in own, ALT_CLOSE(closed),
         NEW fd \in fds, excl(fd), excl(fd)'
  PROVE  sharers(fd)' \subseteq sharers(fd)
  <1>1. /\ closed \in fds /\ \A i \in fds \ {closed} : alt_fd_list'[i] = alt_fd_list[i]
        /\ closed \in Streams => alt_fd_list' = alt_fd_list
        /\ closed \notin Streams => alt_fd_list'[closed] = descriptor(NoDev, no_flags)
    BY ClosedOne
  <1>2. CASE closed \in Streams
    BY <1>1, <1>2 DEF sharers
  <1>3. CASE closed \notin Streams
    <2>1. dev(closed)' = NoDev /\ ~excl(closed)'
      BY <1>1, <1>3, Unset, NoFlags DEF dev, excl, Names
    <2>2. fd # closed /\ dev(fd) # NoDev
      BY <2>1, LockedIs
    <2>3. dev(fd)' = dev(fd) /\ \A i \in fds \ {closed} : dev(i)' = dev(i)
      BY <1>1, <2>2 DEF dev
    <2> QED
      BY <2>1, <2>2, <2>3 DEF sharers, dev
  <1> QED
    BY <1>2, <1>3

LEMMA StepSpares ==
  FilesInv /\ [Next]_vars =>
    \A fd \in fds :
      alt_fd_list[fd].fd_flags.excl /\ alt_fd_list'[fd].fd_flags.excl =>
        sharers(fd)' \subseteq sharers(fd)
  <1> SUFFICES ASSUME FilesInv, [Next]_vars, NEW fd \in fds, excl(fd), excl(fd)'
               PROVE  sharers(fd)' \subseteq sharers(fd)
    BY DEF excl
  <1>1. boot = "main"
    BY LockedIs
  <1>2. CASE alt_sys_init \/ alt_io_redirect
    BY <1>1, <1>2 DEF alt_sys_init, alt_io_redirect
  <1>3. CASE \E name \in FileSystems \union {console, null, NoDev}, access \in Access,
                nonblock \in BOOLEAN : ALT_OPEN(name, access, nonblock)
    <2>1. PICK name \in FileSystems \union {console, null, NoDev}, access \in Access,
              nonblock \in BOOLEAN : ALT_OPEN(name, access, nonblock)
      BY <1>3
    <2>2. CASE OpenFails(name, access, nonblock)
      <3>1. UNCHANGED alt_fd_list
        BY <2>2, OpenFailsKeeps DEF OpenFails
      <3> QED
        BY <3>1 DEF sharers
    <2>3. CASE \E index \in fds : OpenAt(name, access, nonblock, index)
      BY <2>3, OpenSpares
    <2> QED
      BY <2>1, <2>2, <2>3, OpenEnds
  <1>4. CASE \E closed \in own : ALT_CLOSE(closed)
    BY <1>4, CloseSpares
  <1>5. CASE \E i \in own : TIOCEXCL(i) \/ TIOCNXCL(i) \/ \E nonblock \in BOOLEAN : F_SETFL(i, nonblock)
    <2>1. PICK i \in own : FlagsOnly(i)
      BY <1>5, SetsFlags
    <2>2. \A j \in fds : dev(j)' = dev(j)
      BY <2>1 DEF FlagsOnly, dev
    <2> QED
      BY <2>2, SameDevices
  <1>6. CASE UNCHANGED vars
    BY <1>6 DEF vars, sharers
  <1> QED
    BY <1>2, <1>3, <1>4, <1>5, <1>6 DEF Next

\* And how a lock is granted.
LEMMA OpenLocksNone ==
  ASSUME FilesInv, NEW name, NEW access \in Access, NEW nonblock \in BOOLEAN,
         NEW index \in fds, OpenAt(name, access, nonblock, index)
  PROVE  \A fd \in fds : excl(fd)' => excl(fd)
  <1>1. /\ alt_fd_list' \in [fds -> Descriptors]
        /\ dev(index)' = name /\ acc(index)' = access /\ ~excl(index)'
        /\ is_dev(index)' <=> name \in alt_dev_list
        /\ \A i \in fds \ {index} : alt_fd_list'[i] = alt_fd_list[i]
    BY OpenedOne
  <1>2. ~excl(index)' /\ \A i \in fds \ {index} : alt_fd_list'[i] = alt_fd_list[i]
    BY <1>1
  <1> QED
    BY <1>2 DEF excl

LEMMA LockedStep ==
  FilesInv /\ [Next]_vars =>
    \A fd \in fds :
      ~alt_fd_list[fd].fd_flags.excl /\ alt_fd_list'[fd].fd_flags.excl =>
        sharers(fd) \subseteq {alt_max_fd}
  <1> SUFFICES ASSUME FilesInv, [Next]_vars, NEW fd \in fds, ~excl(fd), excl(fd)'
               PROVE  sharers(fd) \subseteq {alt_max_fd}
    BY DEF excl
  <1>1. CASE alt_sys_init
    BY <1>1 DEF alt_sys_init, excl
  <1>2. CASE alt_io_redirect
    <2>1. \E stream \in Streams, access \in Access :
            /\ alt_open_fd(stream, access)
            /\ boot \notin {"sys_init", "main"} /\ boot' \in Stages \ {"sys_init"}
      BY <1>2, StreamsAre DEF alt_io_redirect, Access, Stages
    <2> QED
      BY <2>1, RedirectOne
  <1>3. CASE \E name \in FileSystems \union {console, null, NoDev}, access \in Access,
                nonblock \in BOOLEAN : ALT_OPEN(name, access, nonblock)
    <2>1. PICK name \in FileSystems \union {console, null, NoDev}, access \in Access,
              nonblock \in BOOLEAN : ALT_OPEN(name, access, nonblock)
      BY <1>3
    <2>2. CASE OpenFails(name, access, nonblock)
      <3>1. UNCHANGED alt_fd_list
        BY <2>2, OpenFailsKeeps DEF OpenFails
      <3> QED
        BY <3>1 DEF excl
    <2>3. CASE \E index \in fds : OpenAt(name, access, nonblock, index)
      BY <2>3, OpenLocksNone
    <2> QED
      BY <2>1, <2>2, <2>3, OpenEnds
  <1>4. CASE \E closed \in own : ALT_CLOSE(closed)
    <2>1. PICK closed \in own : ALT_CLOSE(closed)
      BY <1>4
    <2>2. /\ \A i \in fds \ {closed} : alt_fd_list'[i] = alt_fd_list[i]
          /\ closed \in Streams => alt_fd_list' = alt_fd_list
          /\ closed \notin Streams => alt_fd_list'[closed] = descriptor(NoDev, no_flags)
      BY <2>1, ClosedOne
    <2> QED
      BY <2>2, Unset, NoFlags DEF excl, Names
  <1>5. CASE \E i \in own : TIOCEXCL(i)
    <2>1. PICK i \in own : TIOCEXCL(i)
      BY <1>5
    <2>2. i \in fds /\ \A j \in fds \ {i} : alt_fd_list'[j] = alt_fd_list[j]
      BY <2>1, SetsFlags DEF FlagsOnly
    <2>3. i = fd
      BY <2>2 DEF excl
    <2>4. /\ boot = "main" /\ is_dev(fd)
          /\ \A j \in 0 .. alt_max_fd - 1 : j # fd => dev(j) # dev(fd)
      BY <2>1, <2>3 DEF TIOCEXCL, is_dev, dev
    <2>5. dev(fd) # NoDev
      BY <2>4, DevicesAssumption DEF FilesInv, Locks, Pool
    <2> SUFFICES ASSUME NEW j \in sharers(fd)
                 PROVE  j = alt_max_fd
      OBVIOUS
    <2>6. j \in fds /\ j # fd /\ dev(j) = dev(fd)
      BY DEF sharers, dev
    <2>7. j \in own
      BY <2>5, <2>6 DEF FilesInv, Unused
    <2>8. j <= alt_max_fd /\ j \in Nat /\ alt_max_fd \in Int
      BY <2>4, <2>6, <2>7, BelowMark, Numbers DEF FilesInv, Pool
    <2>9. j \notin 0 .. alt_max_fd - 1
      BY <2>4, <2>6
    <2> QED
      BY <2>8, <2>9
  <1>6. CASE \E i \in own : TIOCNXCL(i) \/ \E nonblock \in BOOLEAN : F_SETFL(i, nonblock)
    <2>1. PICK i \in own : TIOCNXCL(i) \/ \E nonblock \in BOOLEAN : F_SETFL(i, nonblock)
      BY <1>6
    <2>2. i \in fds /\ \A j \in fds \ {i} : alt_fd_list'[j] = alt_fd_list[j]
      BY <2>1, SetsFlags DEF FlagsOnly
    <2>3. alt_fd_list \in [fds -> Descriptors]
      BY DEF FilesInv, Pool
    <2>4. excl(i)' => excl(i)
      <3>1. CASE TIOCNXCL(i)
        BY <2>2, <2>3, <3>1, Locked DEF TIOCNXCL, excl
      <3>2. CASE \E nonblock \in BOOLEAN : F_SETFL(i, nonblock)
        <4>1. PICK nonblock \in BOOLEAN : F_SETFL(i, nonblock)
          BY <3>2
        <4> QED
          BY <2>2, <2>3, <4>1, Blocking DEF F_SETFL, excl
      <3> QED
        BY <2>1, <3>1, <3>2
    <2> QED
      BY <2>2, <2>4 DEF excl
  <1>7. CASE UNCHANGED vars
    BY <1>7 DEF vars, excl
  <1> QED
    BY <1>1, <1>2, <1>3, <1>4, <1>5, <1>6, <1>7 DEF Next

\* Nobody opens a device while somebody holds it locked: the high water mark is
\* never below a descriptor that holds a lock.  A lock is granted to the only
\* user of a device, but for the one descriptor at that mark.
THEOREM LocksHold == Spec => LockKeepsOthersOut
  <1>1. FilesInv /\ [Next]_vars =>
          \A fd \in fds :
            alt_fd_list'[fd].fd_flags.excl =>
              IF alt_fd_list[fd].fd_flags.excl
                THEN sharers(fd)' \subseteq sharers(fd)
                ELSE sharers(fd) \subseteq {alt_max_fd}
    BY StepSpares, LockedStep
  <1> QED
    BY <1>1, Invariance, PTL DEF Spec, LockKeepsOthersOut
=============================================================================
