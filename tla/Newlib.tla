------------------------------- MODULE Newlib ------------------------------
(***************************************************************************)
(* The system calls that newlib makes of the host (Newlib.cpp, sys_brk of   *)
(* Cpu.cpp), and the uart, which keeps a file of its own (RiscVFast.cpp).   *)
(* A descriptor of the guest is the host's of the same number, and the      *)
(* simulator's files have theirs in the same table.                         *)
(*                                                                          *)
(* The guest makes any call with any arguments at any time; a store to the  *)
(* uart is one more.  A file is known by whose bytes it holds; offsets and  *)
(* the bytes of the guest's buffers (module Memory) are left out.           *)
(***************************************************************************)
EXTENDS Integers, Sequences, FiniteSetsExt

CONSTANTS Fds,        \* the host's descriptors: a full table refuses open
          Names,      \* names of files
          UartName,   \* "stdout.txt"
          Inodes,     \* the host's files, with or without a name
          None,       \* no file
          MaxCount,   \* bound: bytes of one call
          Inputs,     \* what stdin may hold
          Lflag,      \* -l: the log file is open when the guest starts
          AddrLen,    \* 2^32
          EndOfData,  \* Cpu.endOfData
          Align,      \* page_size of sys_brk: 16
          Places      \* bound: the arguments of brk

ASSUME FdAssumption   == 0 .. 2 \subseteq Fds /\ Fds \subseteq Nat /\ IsFiniteSet(Fds)
ASSUME FileAssumption == UartName \in Names /\ None \notin Inodes /\ Inodes \subseteq Nat
ASSUME CallAssumption ==
  /\ MaxCount \in Nat /\ Inputs \subseteq Seq({"c", "nl"})
  /\ Lflag \in BOOLEAN /\ (Lflag => 3 \in Fds)
ASSUME HeapAssumption ==
  /\ AddrLen \in Nat /\ Align \in Nat \ {0} /\ EndOfData \in Nat
  /\ EndOfData + Align <= AddrLen
  /\ Places \subseteq 0 .. AddrLen-1

VARIABLES
  mode,    \* "run", "exit": the process has ended or left the guest
  host,    \* the host's table: descriptor -> open file
  dir,     \* the host's directory: name -> file
  data,    \* file -> whose bytes it holds
  ofp,     \* uartWrite's static FILE*: its descriptor, or Closed
  input,   \* what is left of stdin: "c" is a byte, "nl" a newline
  heap,    \* Cpu.heap
  a0,      \* reg[10]
  held,    \* history: the descriptors that the guest got and has not closed
  log,     \* history: the file that uartWrite opened
  tame     \* history: the guest used what it holds and no other

files == <<host, dir, data, ofp, log>>
vars  == <<mode, host, dir, data, ofp, input, heap, a0, held, log, tame>>

Console == 0 .. 2
Modes   == {"r", "w", "rw"}
Writers == {"guest", "uart"}
Closed  == -1
Failed  == -1
Numbers == Fds \cup {-1}     \* what a guest may pass for a descriptor

(* RISCV_O_*: the two bits of access, and the flags by name.  APPEND, which *)
(* is kept, sets an offset and so makes no difference here.                 *)
Access == 0 .. 3
Flags  == {"CREAT", "TRUNC", "EXCL"}

Streams  == [f \in Console |-> [ino |-> None, acc |-> "rw"]]
LogFile  == [ino |-> None, acc |-> "w"]

OpenFiles == [ino : Inodes \cup {None}, acc : Modes]

TypeOK ==
  /\ mode \in {"run", "exit"}
  /\ DOMAIN host \subseteq Fds
  /\ \A f \in DOMAIN host : host[f] \in OpenFiles
  /\ dir \in [Names -> Inodes \cup {None}]
  /\ data \in [Inodes -> SUBSET Writers]
  /\ ofp \in Fds \cup {Closed}
  /\ input \in Seq({"c", "nl"})
  /\ heap \in 0 .. AddrLen-1
  /\ a0 \in Int
  /\ held \in SUBSET Fds
  /\ log \in Inodes \cup {None}
  /\ tame \in BOOLEAN

Init ==
  /\ mode = "run"
  /\ host = IF Lflag
            THEN [f \in 0 .. 3 |-> IF f = 3 THEN LogFile ELSE Streams[f]]
            ELSE Streams
  /\ dir = [n \in Names |-> None]
  /\ data = [i \in Inodes |-> {}]
  /\ ofp = Closed
  /\ input \in Inputs
  /\ heap = 0
  /\ a0 = 0
  /\ held = {}
  /\ log = None
  /\ tame = TRUE

-----------------------------------------------------------------------------
(* The host.                                                                *)
Free == Fds \ DOMAIN host
Used == {dir[n] : n \in Names} \cup {host[f].ino : f \in DOMAIN host}
New  == Inodes \ Used

With(fd, of) == [f \in DOMAIN host \cup {fd} |-> IF f = fd THEN of ELSE host[f]]
Without(fd)  == [f \in DOMAIN host \ {fd} |-> host[f]]

(* open() and fopen(): the lowest free descriptor, for the file of that     *)
(* name or, with creat, a new one.                                          *)
Found(n, creat) ==
  IF dir[n] # None THEN dir[n] ELSE IF creat /\ New # {} THEN Min(New) ELSE None

HostOpen(n, creat, acc) ==
  LET ino == Found(n, creat)
  IN  /\ Free # {} /\ ino # None
      /\ host' = With(Min(Free), [ino |-> ino, acc |-> acc])
      /\ dir' = [dir EXCEPT ![n] = ino]

(* What a file holds after it was opened: a new or a truncated one nothing. *)
Kept(n, trunc) == IF trunc \/ dir[n] = None THEN {} ELSE data[dir[n]]

-----------------------------------------------------------------------------
(* The calls.  Each begins in a guest that runs and returns a0.             *)
Call == mode = "run" /\ UNCHANGED <<mode, ofp, log>>
Keep == UNCHANGED <<host, dir, data, held>>

(* A number that the guest did not get, and the host has given to another.  *)
Strays(fd) == fd \in DOMAIN host \ (Console \cup held)

(* sys_open: the flags of newlib become the host's; what has no counterpart *)
(* in the remapping is dropped.                                             *)
ModeOf(acc)     == CASE acc = 1 -> "w" [] acc = 2 -> "rw" [] OTHER -> "r"
Remapped(flags) == flags \cap {"CREAT", "TRUNC"}

SysOpen(n, acc, flags) ==
  /\ Call /\ UNCHANGED <<input, heap, tame>>
  /\ HostOpen(n, "CREAT" \in Remapped(flags), ModeOf(acc))
  /\ data' = [data EXCEPT ![dir'[n]] = Kept(n, "TRUNC" \in Remapped(flags))]
  /\ a0' = Min(Free)
  /\ held' = held \cup {Min(Free)}

(* No file of the name, no descriptor left, or the host refuses.            *)
SysOpenFails ==
  /\ Call /\ Keep /\ UNCHANGED <<input, heap, tame>>
  /\ a0' = Failed

(* sys_close: the streams stay open in the host; all else is the host's.    *)
StaysOpenBelow(fd) == fd \in 0 .. 1      \* mutant
StaysOpen(fd) == fd \in Console

SysClose(fd) ==
  /\ Call /\ UNCHANGED <<dir, data, input, heap>>
  /\ IF StaysOpen(fd) \/ fd \notin DOMAIN host
     THEN /\ a0' = IF StaysOpen(fd) THEN 0 ELSE Failed
          /\ UNCHANGED host
     ELSE /\ a0' = 0
          /\ host' = Without(fd)
  /\ held' = held \ ({fd} \ Console)
  /\ tame' = (tame /\ ~Strays(fd))

(* sys_read of stdin: bytes up to the count, the end or a newline.          *)
LineLen(s, k) ==
  Min({k, Len(s)} \cup {i \in 1 .. Len(s) : s[i] = "nl"})

SysReadStdin(k) ==
  /\ Call /\ Keep /\ UNCHANGED <<heap, tame>>
  /\ a0' = LineLen(input, k)
  /\ input' = SubSeq(input, LineLen(input, k) + 1, Len(input))

(* sys_read of another: stdout and stderr are at their end, the host reads  *)
(* what it can, up to the count, from a file opened for it.                 *)
SysRead(fd) ==
  /\ fd # 0
  /\ Call /\ Keep /\ UNCHANGED <<input, heap>>
  /\ \/ a0' = Failed
     \/ fd \in DOMAIN host \ Console /\ host[fd].acc # "w" /\ a0' \in 0 .. MaxCount
  /\ tame' = (tame /\ ~Strays(fd))

(* sys_write: stdout and stderr take all, a number below them nothing.      *)
SysWriteStream(fd, k) ==
  /\ fd \in {1, 2}
  /\ Call /\ Keep /\ UNCHANGED <<input, heap, tame>>
  /\ a0' = k

SysWrite(fd) ==
  /\ fd \in DOMAIN host \ Console /\ host[fd].acc # "r"
  /\ Call /\ UNCHANGED <<host, dir, held, input, heap>>
  /\ data' = IF host[fd].ino = None THEN data
             ELSE [data EXCEPT ![host[fd].ino] = @ \cup {"guest"}]
  /\ a0' \in 1 .. MaxCount
  /\ tame' = (tame /\ ~Strays(fd))

SysWriteFails(fd) ==
  /\ fd \notin {1, 2}
  /\ Call /\ Keep /\ UNCHANGED <<input, heap>>
  /\ a0' \in {Failed, 0}
  /\ tame' = (tame /\ ~Strays(fd))

(* sys_lseek: the streams have no offset; another's is the host's.          *)
SysLseek(fd) ==
  /\ Call /\ Keep /\ UNCHANGED <<input, heap>>
  /\ a0' \in IF fd \in DOMAIN host \ Console THEN {Failed, 0} ELSE {Failed}
  /\ tame' = (tame /\ ~Strays(fd))

SysLink(old, new) ==
  /\ Call /\ UNCHANGED <<host, data, held, input, heap, tame>>
  /\ dir[old] # None /\ dir[new] = None
  /\ dir' = [dir EXCEPT ![new] = dir[old]]
  /\ a0' = 0

SysUnlink(n) ==
  /\ Call /\ UNCHANGED <<host, data, held, input, heap, tame>>
  /\ dir[n] # None
  /\ dir' = [dir EXCEPT ![n] = None]
  /\ a0' = 0

(* link and unlink that fail; fstat, gettimeofday and time.                 *)
SysOther ==
  /\ Call /\ Keep /\ UNCHANGED <<input, heap, tame>>
  /\ a0' \in {Failed, 0}

(* sys_brk(prev, inc): the heap is where the guest says that it was.        *)
RoundUp(a)       == ((a + Align - 1) \div Align) * Align
MovedWide(prev, inc) == prev + inc      \* mutant
Moved(prev, inc) == (prev + inc) % AddrLen

SysBrk(prev, inc) ==
  /\ Call /\ Keep /\ UNCHANGED input
  /\ heap' = IF prev = 0 THEN RoundUp(EndOfData) ELSE Moved(prev, inc)
  /\ a0' = IF prev = 0 THEN heap' ELSE prev
  /\ tame' = (tame /\ (prev \in {0, heap} \/ inc = 0))

(* SYS_exit, and a number that is no call: exit(-1).                        *)
SysExit ==
  /\ mode = "run"
  /\ mode' = "exit"
  /\ UNCHANGED <<files, input, heap, a0, held, tame>>

-----------------------------------------------------------------------------
(* uartWrite: the file is opened, and emptied, at the first byte; a byte    *)
(* goes to whatever has its descriptor by then.                             *)
MustOpenAlways == TRUE      \* mutant
MustOpen == ofp = Closed

UartOpens ==
  /\ mode = "run" /\ MustOpen
  /\ HostOpen(UartName, TRUE, "w")
  /\ data' = [data EXCEPT ![dir'[UartName]] = {"uart"}]
  /\ ofp' = Min(Free)
  /\ log' = dir'[UartName]
  /\ UNCHANGED <<mode, input, heap, a0, held, tame>>

(* fopen returned NULL, and fputc is given it.                              *)
UartFails ==
  /\ mode = "run" /\ MustOpen
  /\ mode' = "exit"
  /\ UNCHANGED <<files, input, heap, a0, held, tame>>

UartWrites ==
  /\ mode = "run" /\ ~MustOpen
  /\ data' = IF ofp \in DOMAIN host /\ host[ofp].ino # None /\ host[ofp].acc # "r"
             THEN [data EXCEPT ![host[ofp].ino] = @ \cup {"uart"}]
             ELSE data
  /\ UNCHANGED <<mode, host, dir, ofp, log, input, heap, a0, held, tame>>

Uart == UartOpens \/ UartFails \/ UartWrites

-----------------------------------------------------------------------------
FileCall(fd) ==
  \/ SysClose(fd)
  \/ SysLseek(fd)
  \/ SysRead(fd)
  \/ SysWrite(fd)
  \/ SysWriteFails(fd)
  \/ \E k \in 0 .. MaxCount : SysWriteStream(fd, k)

NameCall ==
  \/ \E n \in Names, acc \in Access, flags \in SUBSET Flags : SysOpen(n, acc, flags)
  \/ SysOpenFails
  \/ \E old, new \in Names : SysLink(old, new)
  \/ \E n \in Names : SysUnlink(n)

Next ==
  \/ NameCall
  \/ \E fd \in Numbers : FileCall(fd)
  \/ \E k \in 0 .. MaxCount : SysReadStdin(k)
  \/ SysOther
  \/ \E prev, inc \in Places : SysBrk(prev, inc)
  \/ SysExit
  \/ Uart

Spec == Init /\ [][Next]_vars

-----------------------------------------------------------------------------
(* Whatever descriptors the guest closes and opens, 0, 1 and 2 remain the   *)
(* streams of the simulator: sys_close leaves them open, so that the host's *)
(* open never gives out their numbers (Newlib.cpp:259-262).                 *)
ConsoleStays == \A f \in Console : f \in DOMAIN host /\ host[f] = Streams[f]

(* A guest that uses only descriptors it got and has not closed, and moves  *)
(* the break from where it is, has them to itself: no number it holds is    *)
(* handed out twice or loses its file, none of its bytes gets into another  *)
(* file, no byte of the uart goes anywhere but to the file that uartWrite   *)
(* opened, although all share one table with the simulator.                 *)
Guest == INSTANCE GuestCalls
  WITH own <- [f \in held |-> host[f]], result <- a0,
       defined <- tame /\ mode = "run"
CallsArePrivate == Guest!Spec

-----------------------------------------------------------------------------
(* Mutants: plausible slips in the code above.                              *)
=============================================================================
