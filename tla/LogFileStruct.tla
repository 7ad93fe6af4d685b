---------------------------- MODULE LogFileStruct ----------------------------
(***************************************************************************)
(* ObLogFileStruct (src/lib/oblog/ob_async_log_struct.cpp): the log file   *)
(* and its ".wf" warning file, held in fd_ and wf_fd_.  open() names the   *)
(* file and calls reopen() (and reopen_wf()); after log rotation renamed   *)
(* the files, reopen() opens the name again and dup2()s the new file onto *)
(* the descriptor writers already use; close_all() closes both.           *)
(*                                                                         *)
(* The process's descriptor table is modelled: ::open returns the lowest  *)
(* closed descriptor, dup2 and close act on the table, and other parts of *)
(* the process open and close descriptors of their own in between.  A     *)
(* file is the generation of the name it was opened under: rotation makes *)
(* the name denote a new generation.  is_opened() is fd_ > STDERR_FILENO  *)
(* (its definition is in the header, which is not in src/).              *)
(***************************************************************************)
EXTENDS Integers, FiniteSets

CONSTANTS
    Fds,          \* the descriptor table: 0..N
    InitClosed,   \* standard descriptors closed when the process starts
    MaxGen,       \* bound: rotations of the log files
    MayFail       \* ::open / fstat may fail with descriptors free

STDOUT == 1
STDERR == 2

\* Contents of a descriptor.
Closed == [name |-> "closed", gen |-> 0]
Tty == [name |-> "tty", gen |-> 0]
Other == [name |-> "other", gen |-> 0]
Log(g) == [name |-> "log", gen |-> g]
Wf(g) == [name |-> "wf", gen |-> g]
Gens == 0..MaxGen
LogFiles == {Log(g) : g \in Gens}
WfFiles == {Wf(g) : g \in Gens}

ASSUME InitClosed \subseteq {0, STDOUT, STDERR} /\ {0, 1, 2} \subseteq Fds

VARIABLES
    table,      \* descriptor -> what it refers to
    fd,         \* fd_
    wfFd,       \* wf_fd_
    named,      \* filename_ is non-empty
    openWf,     \* open_wf_flag_
    enableWf,   \* enable_wf_flag_
    gen,        \* the generation the file names denote now
    logGen,     \* ghost: generation of the last successful reopen(), or -1
    wfGen       \* ghost: generation of the last successful reopen_wf(), or -1

vars == <<table, fd, wfFd, named, openWf, enableWf, gen, logGen, wfGen>>

-----------------------------------------------------------------------------
(* The system calls, on a table t.                                         *)

FreeFds(t) == {i \in Fds : t[i] = Closed}

\* ::open: <<descriptor or -1, table>>; -1 when the table is full or (when
\* MayFail) for any other error.
SysOpen(t, f) ==
    LET free == FreeFds(t)
        lowest == CHOOSE i \in free : \A j \in free : i <= j
    IN (IF free = {} THEN {} ELSE {<<lowest, [t EXCEPT ![lowest] = f]>>})
       \cup (IF free = {} \/ MayFail THEN {<<-1, t>>} ELSE {})

Dup2(t, old, new) == [t EXCEPT ![new] = t[old]]
Close(t, i) == [t EXCEPT ![i] = Closed]

\* fstat: may fail when MayFail.
FstatOk == IF MayFail THEN BOOLEAN ELSE {TRUE}

-----------------------------------------------------------------------------
(* The methods, as sets of outcomes [t, fd, ok] from a table and a         *)
(* descriptor, so that open() can run them in sequence.                    *)

\* Variants of reopen: dup2 with its arguments swapped; the temporary
\* descriptor not closed after dup2; tmp_fd stored in fd_ before the
\* failure check.
ReopenResults_dup_swapped(t, cfd, redirect, nm) ==
    IF ~nm THEN {[t |-> t, fd |-> cfd, ok |-> FALSE]}
    ELSE UNION {
      LET tmp == r[1]
          t0 == r[2]
          t1 == IF redirect THEN Dup2(Dup2(t0, tmp, STDERR), tmp, STDOUT) ELSE t0
      IN IF tmp < 0 THEN {[t |-> t, fd |-> cfd, ok |-> FALSE]}
         ELSE {IF ~st
               THEN [t |-> Close(t0, tmp), fd |-> cfd, ok |-> FALSE]
               ELSE IF cfd > STDERR
                    THEN [t |-> Close(Dup2(t1, cfd, tmp), tmp), fd |-> cfd, ok |-> TRUE]
                    ELSE [t |-> t1, fd |-> tmp, ok |-> TRUE] : st \in FstatOk}
      : r \in SysOpen(t, Log(gen)) }

ReopenResults_no_close(t, cfd, redirect, nm) ==
    IF ~nm THEN {[t |-> t, fd |-> cfd, ok |-> FALSE]}
    ELSE UNION {
      LET tmp == r[1]
          t0 == r[2]
          t1 == IF redirect THEN Dup2(Dup2(t0, tmp, STDERR), tmp, STDOUT) ELSE t0
      IN IF tmp < 0 THEN {[t |-> t, fd |-> cfd, ok |-> FALSE]}
         ELSE {IF ~st
               THEN [t |-> Close(t0, tmp), fd |-> cfd, ok |-> FALSE]
               ELSE IF cfd > STDERR
                    THEN [t |-> Dup2(t1, tmp, cfd), fd |-> cfd, ok |-> TRUE]
                    ELSE [t |-> t1, fd |-> tmp, ok |-> TRUE] : st \in FstatOk}
      : r \in SysOpen(t, Log(gen)) }

ReopenResults_fd_unchecked(t, cfd, redirect, nm) ==
    IF ~nm THEN {[t |-> t, fd |-> cfd, ok |-> FALSE]}
    ELSE UNION {
      LET tmp == r[1]
          t0 == r[2]
          t1 == IF redirect THEN Dup2(Dup2(t0, tmp, STDERR), tmp, STDOUT) ELSE t0
      IN IF tmp < 0 THEN {[t |-> t, fd |-> tmp, ok |-> FALSE]}
         ELSE {IF ~st
               THEN [t |-> Close(t0, tmp), fd |-> cfd, ok |-> FALSE]
               ELSE IF cfd > STDERR
                    THEN [t |-> Close(Dup2(t1, tmp, cfd), tmp), fd |-> cfd, ok |-> TRUE]
                    ELSE [t |-> t1, fd |-> tmp, ok |-> TRUE] : st \in FstatOk}
      : r \in SysOpen(t, Log(gen)) }

\* reopen(redirect_flag), lines 155-191.
ReopenResults(t, cfd, redirect, nm) ==
    IF ~nm THEN {[t |-> t, fd |-> cfd, ok |-> FALSE]}
    ELSE UNION {
      LET tmp == r[1]
          t0 == r[2]
          t1 == IF redirect THEN Dup2(Dup2(t0, tmp, STDERR), tmp, STDOUT) ELSE t0
      IN IF tmp < 0 THEN {[t |-> t, fd |-> cfd, ok |-> FALSE]}
         ELSE {IF ~st
               THEN [t |-> Close(t0, tmp), fd |-> cfd, ok |-> FALSE]
               ELSE IF cfd > STDERR
                    THEN [t |-> Close(Dup2(t1, tmp, cfd), tmp), fd |-> cfd, ok |-> TRUE]
                    ELSE [t |-> t1, fd |-> tmp, ok |-> TRUE] : st \in FstatOk}
      : r \in SysOpen(t, Log(gen)) }

\* reopen_wf(), lines 193-222.
ReopenWfResults(t, cwf, nm) ==
    IF ~nm THEN {[t |-> t, fd |-> cwf, ok |-> FALSE]}
    ELSE UNION {
      LET tmp == r[1]
          t0 == r[2]
      IN IF tmp < 0 THEN {[t |-> t, fd |-> cwf, ok |-> FALSE]}
         ELSE {IF ~st
               THEN [t |-> Close(t0, tmp), fd |-> cwf, ok |-> FALSE]
               ELSE IF cwf > STDERR
                    THEN [t |-> Close(Dup2(t0, tmp, cwf), tmp), fd |-> cwf, ok |-> TRUE]
                    ELSE [t |-> t0, fd |-> tmp, ok |-> TRUE] : st \in FstatOk}
      : r \in SysOpen(t, Wf(gen)) }

-----------------------------------------------------------------------------

\* ObLogFileStruct(), lines 115-122, in a process whose standard
\* descriptors are open on the terminal unless closed at start.
Init ==
    /\ table = [i \in Fds |-> IF i \in {0, 1, 2} \ InitClosed THEN Tty ELSE Closed]
    /\ fd = STDERR /\ wfFd = STDERR
    /\ named = FALSE /\ openWf = FALSE /\ enableWf = FALSE
    /\ gen = 0 /\ logGen = -1 /\ wfGen = -1

\* open(file_name, open_wf_flag, redirect_flag), lines 124-152: refused
\* when is_opened(); otherwise name the file, reopen(), then reopen_wf()
\* when asked, and set the flags only when both succeed.
Open ==
    \E wfFlag, redirect \in BOOLEAN :
      IF fd > STDERR THEN UNCHANGED vars
      ELSE /\ named' = TRUE
           /\ \E r \in ReopenResults(table, fd, redirect, TRUE) :
                IF ~r.ok
                THEN /\ table' = r.t /\ fd' = r.fd
                     /\ UNCHANGED <<wfFd, openWf, enableWf, logGen, wfGen>>
                ELSE IF ~wfFlag
                THEN /\ table' = r.t /\ fd' = r.fd /\ logGen' = gen
                     /\ openWf' = FALSE /\ enableWf' = FALSE
                     /\ UNCHANGED <<wfFd, wfGen>>
                ELSE \E w \in ReopenWfResults(r.t, wfFd, TRUE) :
                     /\ table' = w.t /\ fd' = r.fd /\ wfFd' = w.fd /\ logGen' = gen
                     /\ wfGen' = IF w.ok THEN gen ELSE wfGen
                     /\ openWf' = IF w.ok THEN TRUE ELSE openWf
                     /\ enableWf' = IF w.ok THEN TRUE ELSE enableWf
           /\ UNCHANGED gen

\* reopen(redirect_flag) called on its own, after rotation.
Reopen ==
    \E redirect \in BOOLEAN :
      /\ \E r \in ReopenResults(table, fd, redirect, named) :
           /\ table' = r.t /\ fd' = r.fd
           /\ logGen' = IF r.ok THEN gen ELSE logGen
      /\ UNCHANGED <<wfFd, named, openWf, enableWf, gen, wfGen>>

\* reopen_wf() called on its own, after rotation.
ReopenWf ==
    /\ \E w \in ReopenWfResults(table, wfFd, named) :
         /\ table' = w.t /\ wfFd' = w.fd
         /\ wfGen' = IF w.ok THEN gen ELSE wfGen
    /\ UNCHANGED <<fd, named, openWf, enableWf, gen, logGen>>

\* close_all(), lines 224-236.
CloseAll ==
    /\ table' = LET t1 == IF fd > STDERR THEN Close(table, fd) ELSE table
                IN IF wfFd > STDERR THEN Close(t1, wfFd) ELSE t1
    /\ fd' = STDERR /\ wfFd' = STDERR
    /\ UNCHANGED <<named, openWf, enableWf, gen, logGen, wfGen>>

\* Log rotation renames the files: the names now denote new files.
Rotate ==
    /\ gen < MaxGen
    /\ gen' = gen + 1
    /\ UNCHANGED <<table, fd, wfFd, named, openWf, enableWf, logGen, wfGen>>

\* Another part of the process opens or closes a descriptor of its own.
OtherOpen ==
    /\ \E r \in SysOpen(table, Other) : r[1] >= 0 /\ table' = r[2]
    /\ UNCHANGED <<fd, wfFd, named, openWf, enableWf, gen, logGen, wfGen>>

OtherClose ==
    /\ \E i \in Fds : table[i] = Other /\ table' = Close(table, i)
    /\ UNCHANGED <<fd, wfFd, named, openWf, enableWf, gen, logGen, wfGen>>

Next ==
    \/ Open \/ Reopen \/ ReopenWf \/ CloseAll
    \/ Rotate \/ OtherOpen \/ OtherClose

Spec == Init /\ [][Next]_vars

-----------------------------------------------------------------------------
Contents == {Closed, Tty, Other} \cup LogFiles \cup WfFiles

TypeOK ==
    /\ table \in [Fds -> Contents]
    /\ fd \in Fds /\ wfFd \in Fds
    /\ named \in BOOLEAN /\ openWf \in BOOLEAN /\ enableWf \in BOOLEAN
    /\ gen \in Gens /\ logGen \in Gens \cup {-1} /\ wfGen \in Gens \cup {-1}

(* Across open, reopen after rotation, reopen_wf and close_all, every      *)
(* descriptor on a log or .wf file other than the redirected stdout and    *)
(* stderr is fd_ or wf_fd_: the struct never loses track of a descriptor   *)
(* it opened (a leak that grows with every rotation).                      *)
NoLeakedLogDescriptor ==
    \A i \in Fds \ {STDOUT, STDERR} :
        table[i] \in LogFiles \cup WfFiles => i \in {fd, wfFd}

(* Writers using fd_ / wf_fd_ after a successful reopen / reopen_wf write *)
(* to the file the name denoted then, whatever descriptors other parts of *)
(* the process opened and closed in between: dup2 moved the new file onto *)
(* the descriptor, and no descriptor of the struct refers to another file. *)
DescriptorsFollowReopen ==
    /\ fd > STDERR => table[fd] = Log(logGen)
    /\ wfFd > STDERR => table[wfFd] = Wf(wfGen)

====
