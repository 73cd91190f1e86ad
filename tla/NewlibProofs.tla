---------------------------- MODULE NewlibProofs ---------------------------
(***************************************************************************)
(* What Newlib promises, for every number of descriptors, names and files,  *)
(* every input and every end of the data: types, the console, and that a    *)
(* tame guest has what GuestCalls describes.                                *)
(***************************************************************************)
EXTENDS Newlib, NaturalsInduction, WellFoundedInduction, SequenceTheorems, TLAPS

(* The lowest number of a set is in it and below all others (the host gives *)
(* out the lowest free descriptor).                                         *)
LEMMA MinProperties ==
  ASSUME NEW S \in SUBSET Nat, S # {}
  PROVE  Min(S) \in S /\ \A x \in S : Min(S) <= x
<1> DEFINE R == {ss \in Nat \X Nat : ss[1] < ss[2]}
<1>1. IsWellFoundedOn(R, Nat)
  <2>1. OpToRel(<, Nat) = R
    BY DEF OpToRel
  <2> QED BY <2>1, NatLessThanWellFounded
<1>2. PICK m \in S : \A x \in S : ~ (<<x, m>> \in R)
  BY <1>1, WFMin
<1>3. ASSUME NEW x \in S PROVE m <= x
  <2>1. m \in Nat /\ x \in Nat /\ ~ (<<x, m>> \in R)
    BY <1>2
  <2>2. ~ (x < m)
    BY <2>1
  <2> QED BY <2>1, <2>2
<1> QED BY <1>3 DEF Min

(* A descriptor that open gets is one of the host's and was not in use.     *)
LEMMA FreeProperties ==
  ASSUME Free # {}
  PROVE  Min(Free) \in Fds /\ Min(Free) \notin DOMAIN host /\ Min(Free) \in Nat
<1>1. Free \in SUBSET Nat
  BY FdAssumption DEF Free
<1>2. Min(Free) \in Free
  BY <1>1, MinProperties
<1> QED BY <1>2, FdAssumption DEF Free

(* The file that a name opens is the one it has, or a new one that no name  *)
(* and no descriptor has.                                                   *)
LEMMA FoundProperties ==
  ASSUME TypeOK, NEW n \in Names, NEW creat, Found(n, creat) # None
  PROVE  /\ Found(n, creat) \in Inodes
         /\ dir[n] # None => Found(n, creat) = dir[n]
         /\ dir[n] = None => Found(n, creat) \notin Used
<1>1. dir[n] \in Inodes \cup {None}
  BY DEF TypeOK
<1>2. CASE dir[n] # None
  BY <1>1, <1>2 DEF Found
<1>3. CASE dir[n] = None
  <2>1. New # {} /\ Found(n, creat) = Min(New)
    BY <1>3 DEF Found
  <2>2. New \in SUBSET Nat
    BY FileAssumption DEF New
  <2>3. Min(New) \in New
    BY <2>1, <2>2, MinProperties
  <2> QED BY <1>3, <2>1, <2>3 DEF New
<1> QED BY <1>2, <1>3

(* A successful open adds one entry to the host's table.                    *)
LEMMA HostOpenProperties ==
  ASSUME TypeOK, NEW n \in Names, NEW creat, NEW acc \in Modes,
         HostOpen(n, creat, acc)
  PROVE  /\ Min(Free) \in Fds /\ Min(Free) \notin DOMAIN host /\ Min(Free) \in Nat
         /\ DOMAIN host' = DOMAIN host \cup {Min(Free)}
         /\ host'[Min(Free)] = [ino |-> dir'[n], acc |-> acc]
         /\ \A f \in DOMAIN host : host'[f] = host[f]
         /\ dir'[n] = Found(n, creat) /\ dir'[n] \in Inodes
         /\ dir' = [dir EXCEPT ![n] = dir'[n]]
<1>1. Min(Free) \in Fds /\ Min(Free) \notin DOMAIN host /\ Min(Free) \in Nat
  BY FreeProperties DEF HostOpen
<1>2. host' = [f \in DOMAIN host \cup {Min(Free)} |->
                 IF f = Min(Free) THEN [ino |-> Found(n, creat), acc |-> acc]
                 ELSE host[f]]
  BY DEF HostOpen, With
<1>3. dir' = [dir EXCEPT ![n] = Found(n, creat)] /\ Found(n, creat) # None
  BY DEF HostOpen
<1>4. dir'[n] = Found(n, creat)
  BY <1>3 DEF TypeOK
<1>5. Found(n, creat) \in Inodes
  BY <1>3, FoundProperties
<1> QED BY <1>1, <1>2, <1>3, <1>4, <1>5

(* sys_read takes no more than it is asked for and than there is, and       *)
(* nothing behind a newline.                                                *)
LEMMA LineLenProperties ==
  ASSUME NEW s \in Seq({"c", "nl"}), NEW k \in Nat
  PROVE  /\ LineLen(s, k) \in 0 .. k /\ LineLen(s, k) <= Len(s)
         /\ \A m \in 1 .. LineLen(s, k) - 1 : s[m] # "nl"
<1> DEFINE T == {k, Len(s)} \cup {m \in 1 .. Len(s) : s[m] = "nl"}
<1>1. Len(s) \in Nat /\ T \in SUBSET Nat /\ T # {}
  BY LenProperties
<1>2. LineLen(s, k) \in T /\ \A x \in T : LineLen(s, k) <= x
  BY <1>1, MinProperties DEF LineLen
<1>3. LineLen(s, k) \in Nat /\ LineLen(s, k) <= k /\ LineLen(s, k) <= Len(s)
  BY <1>1, <1>2
<1>4. ASSUME NEW m \in 1 .. LineLen(s, k) - 1 PROVE s[m] # "nl"
  <2>1. m \in 1 .. Len(s) /\ ~(LineLen(s, k) <= m)
    BY <1>1, <1>3
  <2> QED BY <1>2, <2>1
<1> QED BY <1>3, <1>4

-----------------------------------------------------------------------------
(* While the guest is tame, what it holds is open and is its own.           *)
Owned ==
  tame => /\ held \subseteq DOMAIN host \ Console
          /\ \A f \in held : host[f].ino # None

(* The uart's file has the descriptor that uartWrite got for it.            *)
UartOwned ==
  /\ ofp = Closed <=> log = None
  /\ tame /\ ofp # Closed => /\ ofp \in DOMAIN host \ (Console \cup held)
                             /\ host[ofp] = [ino |-> log, acc |-> "w"]

(* The inductive invariant.                                                 *)
Inv == TypeOK /\ ConsoleStays /\ Owned /\ UartOwned

(* The simulator starts with the three streams, and with -l with its log.   *)
LEMMA InvInit == Init => Inv
<1> SUFFICES ASSUME Init PROVE Inv
  OBVIOUS
<1>1. /\ DOMAIN host \subseteq Fds /\ Console \subseteq DOMAIN host
      /\ \A f \in DOMAIN host : host[f] \in OpenFiles
      /\ \A f \in Console : host[f] = Streams[f]
  <2>1. CASE Lflag
    <3>1. host = [f \in 0 .. 3 |-> IF f = 3 THEN LogFile ELSE Streams[f]]
      BY <2>1 DEF Init
    <3>2. 0 .. 3 \subseteq Fds
      BY <2>1, FdAssumption, CallAssumption
    <3> QED BY <3>1, <3>2 DEF Console, Streams, LogFile, OpenFiles, Modes
  <2>2. CASE ~Lflag
    <3>1. host = Streams /\ 0 .. 2 \subseteq Fds
      BY <2>2, FdAssumption DEF Init
    <3> QED BY <3>1 DEF Console, Streams, OpenFiles, Modes
  <2> QED BY <2>1, <2>2
<1>2. input \in Seq({"c", "nl"})
  BY CallAssumption DEF Init
<1>3. 0 \in 0 .. AddrLen-1
  BY HeapAssumption
<1>4. TypeOK
  BY <1>1, <1>2, <1>3 DEF Init, TypeOK
<1>5. ConsoleStays
  BY <1>1 DEF ConsoleStays
<1> QED BY <1>4, <1>5 DEF Init, Inv, Owned, UartOwned

(* Opening a file changes the tables and keeps their types and the console. *)
LEMMA OpenKeeps ==
  ASSUME TypeOK, ConsoleStays, NEW n \in Names, NEW creat, NEW acc \in Modes,
         HostOpen(n, creat, acc),
         NEW bytes \in SUBSET Writers, data' = [data EXCEPT ![dir'[n]] = bytes]
  PROVE  /\ DOMAIN host' \subseteq Fds /\ ConsoleStays'
         /\ \A f \in DOMAIN host' : host'[f] \in OpenFiles
         /\ dir' \in [Names -> Inodes \cup {None}]
         /\ data' \in [Inodes -> SUBSET Writers]
<1>1. /\ Min(Free) \in Fds /\ Min(Free) \notin DOMAIN host
      /\ DOMAIN host' = DOMAIN host \cup {Min(Free)}
      /\ host'[Min(Free)] = [ino |-> dir'[n], acc |-> acc]
      /\ \A f \in DOMAIN host : host'[f] = host[f]
      /\ dir'[n] \in Inodes
      /\ dir' = [dir EXCEPT ![n] = dir'[n]]
  BY HostOpenProperties
<1>2. DOMAIN host' \subseteq Fds /\ ConsoleStays'
  BY <1>1 DEF TypeOK, ConsoleStays
<1>3. \A f \in DOMAIN host' : host'[f] \in OpenFiles
  BY <1>1 DEF TypeOK, OpenFiles
<1>4. dir' \in [Names -> Inodes \cup {None}]
  BY <1>1 DEF TypeOK
<1>5. data' \in [Inodes -> SUBSET Writers]
  BY DEF TypeOK
<1> QED BY <1>2, <1>3, <1>4, <1>5

(* sys_open: the guest holds one descriptor more, that nobody had.          *)
LEMMA SysOpenStep ==
  ASSUME Inv, NEW n \in Names, NEW acc \in Access, NEW flags \in SUBSET Flags,
         SysOpen(n, acc, flags)
  PROVE  Inv'
<1>0. TypeOK /\ ConsoleStays /\ Owned /\ UartOwned /\ ModeOf(acc) \in Modes
  BY DEF Inv, ModeOf, Modes
<1>1. HostOpen(n, "CREAT" \in Remapped(flags), ModeOf(acc))
  BY DEF SysOpen
<1>2. /\ Min(Free) \in Fds /\ Min(Free) \notin DOMAIN host /\ Min(Free) \in Nat
      /\ DOMAIN host' = DOMAIN host \cup {Min(Free)}
      /\ host'[Min(Free)] = [ino |-> dir'[n], acc |-> ModeOf(acc)]
      /\ \A f \in DOMAIN host : host'[f] = host[f]
      /\ dir'[n] \in Inodes
  BY <1>0, <1>1, HostOpenProperties
<1>3. Kept(n, "TRUNC" \in Remapped(flags)) \in SUBSET Writers
  BY <1>0 DEF Kept, TypeOK
<1>4. /\ DOMAIN host' \subseteq Fds /\ ConsoleStays'
      /\ \A f \in DOMAIN host' : host'[f] \in OpenFiles
      /\ dir' \in [Names -> Inodes \cup {None}]
      /\ data' \in [Inodes -> SUBSET Writers]
  BY <1>0, <1>1, <1>3, OpenKeeps DEF SysOpen
<1>5. /\ a0' = Min(Free) /\ held' = held \cup {Min(Free)}
      /\ UNCHANGED <<mode, ofp, log, input, heap, tame>>
  BY DEF SysOpen, Call
<1>6. TypeOK'
  BY <1>0, <1>2, <1>4, <1>5 DEF TypeOK
<1>7. Owned'
  <2>1. Min(Free) \notin Console /\ None \notin Inodes
    BY <1>0, <1>2, FileAssumption DEF ConsoleStays
  <2> QED BY <1>0, <1>2, <1>5, <2>1 DEF Owned
<1>8. UartOwned'
  BY <1>0, <1>2, <1>5 DEF UartOwned
<1> QED BY <1>4, <1>6, <1>7, <1>8 DEF Inv

(* sys_close: what a tame guest closes it held; the console stays.          *)
LEMMA SysCloseStep ==
  ASSUME Inv, NEW fd \in Numbers, SysClose(fd)
  PROVE  Inv'
<1>0. TypeOK /\ ConsoleStays /\ Owned /\ UartOwned
  BY DEF Inv
<1>1. /\ UNCHANGED <<mode, ofp, log, dir, data, input, heap>>
      /\ a0' \in Int /\ held' = held \ ({fd} \ Console)
      /\ tame' = (tame /\ ~Strays(fd))
  BY DEF SysClose, Call, Failed
<1>2. CASE host' = host
  <2>1. Owned' /\ UartOwned'
    BY <1>0, <1>1, <1>2 DEF Owned, UartOwned
  <2> QED BY <1>0, <1>1, <1>2, <2>1 DEF Inv, TypeOK, ConsoleStays
<1>3. CASE host' = Without(fd) /\ fd \in DOMAIN host \ Console
  <2>1. /\ DOMAIN host' = DOMAIN host \ {fd}
        /\ \A f \in DOMAIN host' : host'[f] = host[f]
    BY <1>3 DEF Without
  <2>2. TypeOK' /\ ConsoleStays'
    BY <1>0, <1>1, <1>3, <2>1 DEF TypeOK, ConsoleStays
  <2>3. Owned' /\ UartOwned'
    BY <1>0, <1>1, <1>3, <2>1 DEF Owned, UartOwned, Strays
  <2> QED BY <2>2, <2>3 DEF Inv
<1> QED BY <1>2, <1>3 DEF SysClose, StaysOpen

(* The uart opens its file: a descriptor that the guest does not hold.      *)
LEMMA UartOpensStep ==
  ASSUME Inv, UartOpens
  PROVE  Inv'
<1>0. TypeOK /\ ConsoleStays /\ Owned /\ UartOwned /\ "w" \in Modes /\ ofp = Closed
  BY DEF Inv, Modes, UartOpens, MustOpen
<1>1. UartName \in Names /\ None \notin Inodes /\ {"uart"} \in SUBSET Writers
  BY FileAssumption DEF Writers
<1>2. HostOpen(UartName, TRUE, "w") /\ data' = [data EXCEPT ![dir'[UartName]] = {"uart"}]
  BY DEF UartOpens
<1>3. /\ Min(Free) \in Fds /\ Min(Free) \notin DOMAIN host /\ Min(Free) \in Nat
      /\ DOMAIN host' = DOMAIN host \cup {Min(Free)}
      /\ host'[Min(Free)] = [ino |-> dir'[UartName], acc |-> "w"]
      /\ \A f \in DOMAIN host : host'[f] = host[f]
      /\ dir'[UartName] \in Inodes
  BY <1>0, <1>1, <1>2, HostOpenProperties
<1>4. /\ DOMAIN host' \subseteq Fds /\ ConsoleStays'
      /\ \A f \in DOMAIN host' : host'[f] \in OpenFiles
      /\ dir' \in [Names -> Inodes \cup {None}]
      /\ data' \in [Inodes -> SUBSET Writers]
  BY <1>0, <1>1, <1>2, OpenKeeps
<1>5. /\ ofp' = Min(Free) /\ log' = dir'[UartName]
      /\ UNCHANGED <<mode, input, heap, a0, held, tame>>
  BY DEF UartOpens
<1>6. TypeOK'
  BY <1>0, <1>3, <1>4, <1>5 DEF TypeOK
<1>7. Owned'
  BY <1>0, <1>3, <1>5 DEF Owned
<1>8. UartOwned'
  <2>1. ofp' # Closed /\ log' # None
    BY <1>1, <1>3, <1>5 DEF Closed
  <2>2. ofp' \notin Console
    BY <1>0, <1>3, <1>5 DEF ConsoleStays
  <2>3. tame => ofp' \notin held
    BY <1>0, <1>3, <1>5 DEF Owned
  <2> QED BY <1>3, <1>5, <2>1, <2>2, <2>3 DEF UartOwned
<1> QED BY <1>4, <1>6, <1>7, <1>8 DEF Inv

(* Rounding up goes less than one boundary further, to a boundary.          *)
LEMMA RoundUpProperties ==
  ASSUME NEW a \in Nat
  PROVE  RoundUp(a) \in a .. a + Align - 1 /\ RoundUp(a) % Align = 0
<1> DEFINE q == (a + Align - 1) \div Align
           r == (a + Align - 1) % Align
<1>1. Align \in Nat \ {0} /\ a + Align - 1 \in Nat
  BY HeapAssumption
<1>2. q \in Nat /\ r \in 0 .. Align-1 /\ a + Align - 1 = q * Align + r
  BY <1>1
<1>3. RoundUp(a) = q * Align
  BY DEF RoundUp
<1>4. (q * Align) % Align = 0
  BY <1>1, <1>2
<1>5. q * Align \in Nat
  BY <1>1, <1>2
<1>6. q * Align \in a .. a + Align - 1
  BY <1>1, <1>2, <1>5
<1> QED BY <1>3, <1>4, <1>6

(* sys_brk: wherever the guest says that the heap is, it stays in 32 bits.  *)
LEMMA SysBrkStep ==
  ASSUME Inv, NEW prev \in Places, NEW inc \in Places, SysBrk(prev, inc)
  PROVE  Inv'
<1>1. AddrLen \in Nat \ {0} /\ prev \in 0 .. AddrLen-1 /\ inc \in 0 .. AddrLen-1
  BY HeapAssumption
<1>2. RoundUp(EndOfData) \in 0 .. AddrLen-1
  <2>1. RoundUp(EndOfData) \in EndOfData .. EndOfData + Align - 1
    BY HeapAssumption, RoundUpProperties
  <2> QED BY <2>1, HeapAssumption
<1>3. Moved(prev, inc) \in 0 .. AddrLen-1
  BY <1>1 DEF Moved
<1>4. heap' \in 0 .. AddrLen-1 /\ a0' \in Int
  BY <1>1, <1>2, <1>3 DEF SysBrk
<1>5. UNCHANGED <<mode, host, dir, data, ofp, input, held, log>> /\ (tame' => tame)
      /\ tame' \in BOOLEAN
  BY DEF SysBrk, Call, Keep
<1>6. TypeOK'
  BY <1>4, <1>5 DEF Inv, TypeOK
<1>7. ConsoleStays' /\ Owned' /\ UartOwned'
  BY <1>5 DEF Inv, ConsoleStays, Owned, UartOwned
<1> QED BY <1>6, <1>7 DEF Inv

(* sys_read of stdin leaves a shorter stdin.                                *)
LEMMA SysReadStdinStep ==
  ASSUME Inv, NEW k \in 0 .. MaxCount, SysReadStdin(k)
  PROVE  Inv'
<1>1. input \in Seq({"c", "nl"}) /\ k \in Nat
  BY CallAssumption DEF Inv, TypeOK
<1>2. LineLen(input, k) \in 0 .. k /\ LineLen(input, k) <= Len(input)
  BY <1>1, LineLenProperties
<1>3. input' \in Seq({"c", "nl"})
  <2>1. LineLen(input, k) + 1 \in 1 .. Len(input) + 1 /\ Len(input) \in Nat
    BY <1>1, <1>2, LenProperties
  <2> QED BY <1>1, <2>1 DEF SysReadStdin
<1>4. a0' \in Int
  BY <1>1, <1>2 DEF SysReadStdin
<1>5. UNCHANGED <<mode, host, dir, data, ofp, heap, held, log, tame>>
  BY DEF SysReadStdin, Call, Keep
<1>6. TypeOK'
  BY <1>3, <1>4, <1>5 DEF Inv, TypeOK
<1>7. ConsoleStays' /\ Owned' /\ UartOwned'
  BY <1>5 DEF Inv, ConsoleStays, Owned, UartOwned
<1> QED BY <1>6, <1>7 DEF Inv

(* Bytes that are written change files and no table.                        *)
LEMMA BytesStep ==
  ASSUME Inv,
         UNCHANGED <<mode, host, ofp, input, heap, held, log>>,
         dir' \in [Names -> Inodes \cup {None}], data' \in [Inodes -> SUBSET Writers],
         a0' \in Int, tame' \in BOOLEAN, tame' => tame
  PROVE  Inv'
BY DEF Inv, TypeOK, ConsoleStays, Owned, UartOwned

(* sys_write and uartWrite put bytes into the file of their descriptor.     *)
LEMMA WriteSteps ==
  ASSUME Inv, \/ \E fd \in Numbers : SysWrite(fd)
              \/ UartWrites
  PROVE  Inv'
<1>0. TypeOK
  BY DEF Inv
<1>1. ASSUME NEW fd \in Numbers, SysWrite(fd) PROVE Inv'
  <2>1. data' \in [Inodes -> SUBSET Writers]
    <3>1. CASE host[fd].ino = None
      BY <1>0, <1>1, <3>1 DEF SysWrite, TypeOK
    <3>2. CASE host[fd].ino # None
      <4>1. host[fd].ino \in Inodes /\ data[host[fd].ino] \cup {"guest"} \in SUBSET Writers
        BY <1>0, <1>1, <3>2 DEF SysWrite, TypeOK, OpenFiles, Writers
      <4>2. data' = [data EXCEPT ![host[fd].ino] = data[host[fd].ino] \cup {"guest"}]
        BY <1>1, <3>2 DEF SysWrite
      <4> QED BY <1>0, <4>1, <4>2 DEF TypeOK
    <3> QED BY <3>1, <3>2
  <2>2. /\ UNCHANGED <<mode, host, dir, ofp, input, heap, held, log>>
        /\ a0' \in 1 .. MaxCount /\ tame' = (tame /\ ~Strays(fd))
    BY <1>1 DEF SysWrite, Call
  <2>3. a0' \in Int
    BY <2>2, CallAssumption
  <2>4. tame' \in BOOLEAN /\ (tame' => tame)
    BY <2>2
  <2> QED BY <1>0, <2>1, <2>2, <2>3, <2>4, BytesStep DEF TypeOK
<1>2. ASSUME UartWrites PROVE Inv'
  <2>1. data' \in [Inodes -> SUBSET Writers]
    <3>1. CASE data' = data
      BY <1>0, <3>1 DEF TypeOK
    <3>2. CASE /\ ofp \in DOMAIN host /\ host[ofp].ino # None
               /\ data' = [data EXCEPT ![host[ofp].ino] = @ \cup {"uart"}]
      <4>1. host[ofp].ino \in Inodes /\ data[host[ofp].ino] \cup {"uart"} \in SUBSET Writers
        BY <1>0, <3>2 DEF TypeOK, OpenFiles, Writers
      <4>2. data' = [data EXCEPT ![host[ofp].ino] = data[host[ofp].ino] \cup {"uart"}]
        BY <3>2
      <4> QED BY <1>0, <4>1, <4>2 DEF TypeOK
    <3> QED BY <1>2, <3>1, <3>2 DEF UartWrites
  <2>2. UNCHANGED <<mode, host, dir, ofp, input, heap, a0, held, log, tame>>
    BY <1>2 DEF UartWrites
  <2> QED BY <1>0, <2>1, <2>2, BytesStep DEF TypeOK
<1> QED BY <1>1, <1>2

(* The calls that leave the host's table alone and return something.        *)
LEMMA AnswerSteps ==
  ASSUME Inv, \/ SysOpenFails \/ SysOther
              \/ \E fd \in Numbers :
                   \/ SysLseek(fd) \/ SysRead(fd) \/ SysWriteFails(fd)
                   \/ \E k \in 0 .. MaxCount : SysWriteStream(fd, k)
  PROVE  /\ Inv' /\ a0' \in Int
         /\ tame' => tame
         /\ UNCHANGED <<mode, host, dir, data, ofp, input, heap, held, log>>
<1>0. TypeOK /\ MaxCount \in Nat /\ Failed \in Int
  BY CallAssumption DEF Inv, Failed
<1> DEFINE Answered ==
      /\ a0' \in Int /\ tame' \in BOOLEAN /\ (tame' => tame)
      /\ UNCHANGED <<mode, host, dir, data, ofp, input, heap, held, log>>
<1>1. Answered
  <2>1. CASE SysOpenFails \/ SysOther
    BY <1>0, <2>1 DEF SysOpenFails, SysOther, Call, Keep, TypeOK
  <2>2. ASSUME NEW fd \in Numbers, SysLseek(fd) \/ SysRead(fd) \/ SysWriteFails(fd)
        PROVE  Answered
    <3>1. UNCHANGED <<mode, host, dir, data, ofp, input, heap, held, log>>
      BY <2>2 DEF SysLseek, SysRead, SysWriteFails, Call, Keep
    <3>2. a0' \in Int
      BY <1>0, <2>2 DEF SysLseek, SysRead, SysWriteFails
    <3>3. tame' = (tame /\ ~Strays(fd))
      BY <2>2 DEF SysLseek, SysRead, SysWriteFails
    <3>4. tame' \in BOOLEAN /\ (tame' => tame)
      BY <3>3
    <3> QED BY <3>1, <3>2, <3>4
  <2>3. ASSUME NEW fd \in Numbers, NEW k \in 0 .. MaxCount, SysWriteStream(fd, k)
        PROVE  Answered
    BY <1>0, <2>3 DEF SysWriteStream, Call, Keep, TypeOK
  <2> QED BY <2>1, <2>2, <2>3
<1>2. Inv'
  BY <1>0, <1>1, BytesStep DEF TypeOK
<1> QED BY <1>1, <1>2

(* link, unlink and the ends of a run.                                      *)
LEMMA OtherSteps ==
  ASSUME Inv, \/ \E old, new \in Names : SysLink(old, new)
              \/ \E n \in Names : SysUnlink(n)
              \/ SysExit \/ UartFails \/ UNCHANGED vars
  PROVE  Inv'
<1>1. ASSUME NEW old \in Names, NEW new \in Names, SysLink(old, new) PROVE Inv'
  <2>1. /\ UNCHANGED <<mode, host, data, ofp, input, heap, held, log, tame>> /\ a0' \in Int
        /\ dir' = [dir EXCEPT ![new] = dir[old]]
    BY <1>1 DEF SysLink, Call
  <2> QED BY <2>1, BytesStep DEF Inv, TypeOK
<1>2. ASSUME NEW n \in Names, SysUnlink(n) PROVE Inv'
  <2>1. /\ UNCHANGED <<mode, host, data, ofp, input, heap, held, log, tame>> /\ a0' \in Int
        /\ dir' = [dir EXCEPT ![n] = None]
    BY <1>2 DEF SysUnlink, Call
  <2> QED BY <2>1, BytesStep DEF Inv, TypeOK
<1>3. CASE SysExit \/ UartFails
  <2>1. UNCHANGED <<host, dir, data, ofp, input, heap, a0, held, log, tame>> /\ mode' = "exit"
    BY <1>3 DEF SysExit, UartFails, files
  <2> QED BY <2>1 DEF Inv, TypeOK, ConsoleStays, Owned, UartOwned
<1>4. CASE UNCHANGED vars
  BY <1>4, BytesStep DEF vars, Inv, TypeOK
<1> QED BY <1>1, <1>2, <1>3, <1>4

LEMMA InvStep == Inv /\ [Next]_vars => Inv'
<1> SUFFICES ASSUME Inv, [Next]_vars PROVE Inv'
  OBVIOUS
<1>1. CASE NameCall
  BY <1>1, SysOpenStep, AnswerSteps, OtherSteps DEF NameCall
<1>2. ASSUME NEW fd \in Numbers, FileCall(fd) PROVE Inv'
  BY <1>2, SysCloseStep, AnswerSteps, WriteSteps DEF FileCall
<1>3. CASE \E k \in 0 .. MaxCount : SysReadStdin(k)
  BY <1>3, SysReadStdinStep
<1>4. CASE SysOther
  BY <1>4, AnswerSteps
<1>5. CASE \E prev, inc \in Places : SysBrk(prev, inc)
  BY <1>5, SysBrkStep
<1>6. CASE SysExit \/ UNCHANGED vars
  BY <1>6, OtherSteps
<1>7. CASE Uart
  BY <1>7, UartOpensStep, WriteSteps, OtherSteps DEF Uart
<1> QED BY <1>1, <1>2, <1>3, <1>4, <1>5, <1>6, <1>7 DEF Next

-----------------------------------------------------------------------------
(* The invariant holds in every run: while the guest is tame each number it *)
(* holds is open in the host, and the uart's file is behind its own.        *)
THEOREM Invariance == Spec => []Inv
<1>1. Init => Inv
  BY InvInit
<1>2. Inv /\ [Next]_vars => Inv'
  BY InvStep
<1> QED BY <1>1, <1>2, PTL DEF Spec

(* Every register, table and file of the calls keeps its type; the heap     *)
(* stays in 32 bits whatever sys_brk is given.                              *)
THEOREM TypeCorrect == Spec => []TypeOK
<1>1. Inv => TypeOK
  BY DEF Inv
<1> QED BY <1>1, Invariance, PTL

(* 0, 1 and 2 remain the streams of the simulator, whatever the guest       *)
(* closes and opens, tame or not (sys_close).                               *)
THEOREM ConsoleIsKept == Spec => []ConsoleStays
<1>1. Inv => ConsoleStays
  BY DEF Inv
<1> QED BY <1>1, Invariance, PTL

-----------------------------------------------------------------------------
(* That the calls implement GuestCalls: step by step, while the guest is    *)
(* tame; a step after which it is not is Guest!Halt.                        *)

(* The file that a name gets anew is nobody's: no name's, no descriptor's   *)
(* of the guest, and not the uart's, which has an open descriptor.          *)
LEMMA NewFileIsUnused ==
  ASSUME Inv, tame, NEW ino \in Inodes, ino \notin Used
  PROVE  Guest!Unused(ino)
<1>1. ino # log
  <2>1. CASE log = None
    BY <2>1, FileAssumption
  <2>2. CASE log # None
    <3>1. ofp \in DOMAIN host /\ host[ofp].ino = log
      BY <2>2 DEF Inv, UartOwned
    <3> QED BY <3>1 DEF Used
  <2> QED BY <2>1, <2>2
<1>2. \A m \in Names : dir[m] # ino
  BY DEF Used
<1>3. \A fd \in held : host[fd].ino # ino
  BY DEF Used, Inv, Owned
<1> QED BY <1>1, <1>2, <1>3 DEF Guest!Unused

(* sys_open is Open, of a number that the guest does not hold.              *)
LEMMA OpenIsOpen ==
  ASSUME Inv, tame, NEW n \in Names, NEW acc \in Access, NEW flags \in SUBSET Flags,
         SysOpen(n, acc, flags)
  PROVE  Guest!Next
<1> DEFINE mo == ModeOf(acc)
           tr == "TRUNC" \in Remapped(flags)
           fd == Min(Free)
           ino == dir'[n]
<1>0. TypeOK /\ ConsoleStays /\ Owned /\ mo \in Modes
  BY DEF Inv, ModeOf, Modes
<1>1. HostOpen(n, "CREAT" \in Remapped(flags), mo)
  BY DEF SysOpen
<1>2. /\ fd \in Fds /\ fd \notin DOMAIN host
      /\ DOMAIN host' = DOMAIN host \cup {fd}
      /\ host'[fd] = [ino |-> ino, acc |-> mo]
      /\ \A f \in DOMAIN host : host'[f] = host[f]
      /\ ino \in Inodes /\ ino = Found(n, "CREAT" \in Remapped(flags))
      /\ dir' = [dir EXCEPT ![n] = ino]
  BY <1>0, <1>1, HostOpenProperties
<1>3. /\ a0' = fd /\ held' = held \cup {fd}
      /\ UNCHANGED <<mode, ofp, log, input, heap, tame>> /\ mode = "run"
      /\ data' = [data EXCEPT ![ino] = Kept(n, tr)]
  BY DEF SysOpen, Call
<1>4. None \notin Inodes
  BY FileAssumption
<1>5. /\ dir[n] = None => ino \notin Used
      /\ dir[n] # None => ino = dir[n]
  BY <1>0, <1>2, <1>4, FoundProperties
<1>6. Guest!Named(n, ino, tr)
  <2>1. dir[n] = None => Guest!Unused(ino)
    BY <1>2, <1>5, NewFileIsUnused
  <2>2. data' = IF tr \/ dir[n] = None THEN [data EXCEPT ![ino] = {}] ELSE data
    <3>1. CASE tr \/ dir[n] = None
      BY <1>3, <3>1 DEF Kept
    <3>2. CASE ~(tr \/ dir[n] = None)
      <4>1. data' = [data EXCEPT ![ino] = data[ino]]
        BY <1>3, <1>5, <3>2 DEF Kept
      <4>2. data \in [Inodes -> SUBSET Writers]
        BY <1>0 DEF TypeOK
      <4>3. data' = data
        BY <1>2, <4>1, <4>2
      <4> QED BY <3>2, <4>3
    <3> QED BY <3>1, <3>2
  <2> QED BY <1>2, <1>5, <2>1, <2>2 DEF Guest!Named
<1>7. [f \in held' |-> host'[f]]
        = [f \in held \cup {fd} |-> IF f = fd THEN [ino |-> ino, acc |-> mo]
                                    ELSE [g \in held |-> host[g]][f]]
  <2>1. held \subseteq DOMAIN host
    BY <1>0 DEF Owned
  <2> QED BY <1>2, <1>3, <2>1
<1>8. fd \in Fds \ (Console \cup held)
  BY <1>0, <1>2 DEF ConsoleStays, Owned
<1>9. Guest!Open(n, ino, mo, tr)
  BY <1>3, <1>6, <1>7, <1>8 DEF Guest!Open, Guest!Console, Console
<1>10. tr \in BOOLEAN /\ mo \in Guest!Modes
  BY <1>0 DEF Modes, Guest!Modes
<1>11. ino \in Inodes
  BY <1>2
<1> HIDE DEF mo, tr, fd, ino
<1> QED BY <1>9, <1>10, <1>11, Zenon DEF Guest!Next

(* sys_close of what the guest holds, or of the console, is Close; of a     *)
(* number that is not open it only answers.                                 *)
LEMMA CloseIsClose ==
  ASSUME Inv, tame, NEW fd \in Numbers, SysClose(fd), tame'
  PROVE  Guest!Next
<1>0. tame' = (tame /\ ~Strays(fd))
  BY DEF SysClose
<1>1. /\ UNCHANGED <<mode, dir, data, log, input, heap, tame>> /\ mode = "run"
      /\ a0' \in Int /\ held' = held \ ({fd} \ Console) /\ ~Strays(fd)
  <2>1. ~Strays(fd) /\ tame' = tame
    BY <1>0 DEF Inv, TypeOK
  <2>2. a0' \in Int
    BY DEF SysClose, Failed
  <2> QED BY <2>1, <2>2 DEF SysClose, Call
<1>2. held \subseteq DOMAIN host \ Console /\ Console \subseteq Fds
  BY FdAssumption DEF Inv, Owned, Console
<1>3. CASE fd \in Console
  <2>1. host' = host /\ a0' = 0 /\ held' = held
    BY <1>1, <1>3 DEF SysClose, StaysOpen
  <2>2. [f \in held' |-> host'[f]] = [f \in held \ {fd} |-> [g \in held |-> host[g]][f]]
    BY <1>2, <1>3, <2>1
  <2>3. Guest!Close(fd)
    BY <1>1, <1>3, <2>1, <2>2 DEF Guest!Close, Guest!Console, Console
  <2> QED BY <1>2, <1>3, <2>3 DEF Guest!Next
<1>4. CASE fd \notin Console /\ fd \notin DOMAIN host
  <2>1. host' = host /\ held' = held
    BY <1>1, <1>2, <1>4 DEF SysClose, StaysOpen
  <2>2. Guest!Answer
    BY <1>1, <2>1 DEF Guest!Answer
  <2> QED BY <2>2 DEF Guest!Next
<1>5. CASE fd \notin Console /\ fd \in DOMAIN host
  <2>1. host' = Without(fd) /\ a0' = 0 /\ held' = held \ {fd} /\ fd \in held
    BY <1>1, <1>5 DEF SysClose, StaysOpen, Strays
  <2>2. [f \in held' |-> host'[f]] = [f \in held \ {fd} |-> [g \in held |-> host[g]][f]]
    BY <1>2, <2>1 DEF Without
  <2>3. Guest!Close(fd)
    BY <1>1, <2>1, <2>2 DEF Guest!Close
  <2>4. fd \in Fds
    BY <2>1 DEF Inv, TypeOK
  <2> QED BY <2>3, <2>4 DEF Guest!Next
<1> QED BY <1>3, <1>4, <1>5

(* sys_read of stdin takes bytes from its front, a line at most.            *)
LEMMA ReadIsReadLine ==
  ASSUME Inv, tame, NEW k \in 0 .. MaxCount, SysReadStdin(k)
  PROVE  Guest!Next
<1>1. input \in Seq({"c", "nl"}) /\ k \in Nat
  BY CallAssumption DEF Inv, TypeOK
<1>2. LineLen(input, k) \in Guest!Taken(input, k)
  BY <1>1, LineLenProperties DEF Guest!Taken
<1>3. /\ UNCHANGED <<mode, host, dir, data, heap, held, log, tame>> /\ mode = "run"
      /\ a0' = LineLen(input, k)
      /\ input' = SubSeq(input, LineLen(input, k) + 1, Len(input))
  BY DEF SysReadStdin, Call, Keep
<1>4. Guest!ReadLine(k)
  BY <1>2, <1>3 DEF Guest!ReadLine
<1> QED BY <1>4 DEF Guest!Next

(* sys_write puts the guest's bytes into the file it opened.                *)
LEMMA WriteIsWrite ==
  ASSUME Inv, tame, NEW fd \in Numbers, SysWrite(fd), tame'
  PROVE  Guest!Next
<1>0. tame' = (tame /\ ~Strays(fd))
  BY DEF SysWrite
<1>1. /\ UNCHANGED <<mode, host, dir, held, log, input, heap, tame>> /\ mode = "run"
      /\ fd \in DOMAIN host \ Console /\ host[fd].acc # "r" /\ ~Strays(fd)
      /\ a0' \in 1 .. MaxCount
  <2>1. ~Strays(fd) /\ tame' = tame
    BY <1>0 DEF Inv, TypeOK
  <2> QED BY <2>1 DEF SysWrite, Call
<1>2. fd \in held /\ fd \in Fds /\ host[fd].ino # None
  BY <1>1 DEF Strays, Inv, Owned, TypeOK
<1>3. data' = [data EXCEPT ![host[fd].ino] = @ \cup {"guest"}]
  BY <1>2 DEF SysWrite
<1>4. MaxCount > 0 /\ MaxCount \in 0 .. MaxCount
  BY <1>1, CallAssumption
<1>5. Guest!Write(fd, MaxCount)
  BY <1>1, <1>2, <1>3, <1>4 DEF Guest!Write
<1> QED BY <1>2, <1>4, <1>5 DEF Guest!Next

(* link gives a free name a file, unlink takes it away.                     *)
LEMMA LinksAreRenames ==
  ASSUME Inv, tame, \/ \E old, new \in Names : SysLink(old, new)
                    \/ \E n \in Names : SysUnlink(n)
  PROVE  Guest!Next
<1>1. ASSUME NEW old \in Names, NEW new \in Names, SysLink(old, new)
      PROVE  Guest!Next
  <2>1. Guest!Rename(new, dir[old])
    BY <1>1 DEF SysLink, Call, Guest!Rename
  <2>2. dir[old] \in Inodes \cup {None}
    BY DEF Inv, TypeOK
  <2> QED BY <2>1, <2>2 DEF Guest!Next
<1>2. ASSUME NEW n \in Names, SysUnlink(n) PROVE Guest!Next
  <2>1. Guest!Rename(n, None)
    BY <1>2 DEF SysUnlink, Call, Guest!Rename
  <2> QED BY <2>1 DEF Guest!Next
<1> QED BY <1>1, <1>2

(* Addresses go round at AddrLen (uint32_t).                                *)
LEMMA GoesRound ==
  ASSUME NEW a \in 0 .. AddrLen-1
  PROVE  a % AddrLen = a /\ (a + AddrLen) % AddrLen = a
<1>1. AddrLen \in Nat \ {0} /\ a \in Nat /\ a < AddrLen
  BY HeapAssumption
<1>2. a % AddrLen = a
  BY <1>1
<1>3. (a + AddrLen) % AddrLen = a
  BY <1>1
<1> QED BY <1>2, <1>3

(* sys_brk moves the break by what is asked for, or begins the heap anew.   *)
LEMMA BrkIsBreak ==
  ASSUME Inv, tame, NEW prev \in Places, NEW inc \in Places, SysBrk(prev, inc), tame'
  PROVE  Guest!Next
<1>0. tame' = (tame /\ (prev \in {0, heap} \/ inc = 0))
  BY DEF SysBrk
<1>1. /\ UNCHANGED <<mode, host, dir, data, held, log, input, tame>> /\ mode = "run"
      /\ heap' = IF prev = 0 THEN RoundUp(EndOfData) ELSE Moved(prev, inc)
      /\ a0' = IF prev = 0 THEN heap' ELSE prev
      /\ prev \in {0, heap} \/ inc = 0
  <2>1. (prev \in {0, heap} \/ inc = 0) /\ tame' = tame
    BY <1>0 DEF Inv, TypeOK
  <2> QED BY <2>1 DEF SysBrk, Call, Keep
<1>2. /\ AddrLen \in Nat \ {0} /\ prev \in 0 .. AddrLen-1 /\ inc \in 0 .. AddrLen-1
      /\ heap \in 0 .. AddrLen-1
  BY HeapAssumption DEF Inv, TypeOK
<1>3. CASE prev = 0
  <2>1. RoundUp(EndOfData) \in EndOfData .. AddrLen-1 /\ RoundUp(EndOfData) % Align = 0
    <3>1. RoundUp(EndOfData) \in EndOfData .. EndOfData + Align - 1
          /\ RoundUp(EndOfData) % Align = 0
      BY HeapAssumption, RoundUpProperties
    <3> QED BY <3>1, HeapAssumption
  <2>2. Guest!BreakReset
    BY <1>1, <1>3, <2>1 DEF Guest!BreakReset
  <2> QED BY <2>2 DEF Guest!Next
<1>4. CASE prev # 0 /\ prev = heap
  <2>1. heap' = (heap + inc) % AddrLen /\ a0' = heap /\ heap # 0
    BY <1>1, <1>4 DEF Moved
  <2>2. Guest!Break(inc)
    BY <1>1, <2>1 DEF Guest!Break
  <2> QED BY <1>2, <2>2 DEF Guest!Next
<1>5. CASE prev # 0 /\ prev # heap
  <2>1. heap' = prev /\ a0' = prev
    <3>1. inc = 0 /\ prev + inc = prev
      BY <1>1, <1>2, <1>5
    <3> QED BY <1>1, <1>2, <1>5, <3>1, GoesRound DEF Moved
  <2>2. PICK k \in 0 .. AddrLen-1 : (heap + k) % AddrLen = prev
    <3>1. CASE heap <= prev
      <4>1. prev - heap \in 0 .. AddrLen-1 /\ heap + (prev - heap) = prev
        BY <1>2, <3>1
      <4> QED BY <1>2, <4>1, GoesRound
    <3>2. CASE ~(heap <= prev)
      <4>1. /\ prev + (AddrLen - heap) \in 0 .. AddrLen-1
            /\ heap + (prev + (AddrLen - heap)) = prev + AddrLen
        BY <1>2, <3>2
      <4> QED BY <1>2, <4>1, GoesRound
    <3> QED BY <3>1, <3>2
  <2>3. Guest!Break(k)
    BY <1>1, <1>5, <2>1, <2>2 DEF Guest!Break
  <2> QED BY <2>3 DEF Guest!Next
<1> QED BY <1>3, <1>4, <1>5

(* The uart: the first byte opens its file, each goes into that one.        *)
LEMMA UartIsUart ==
  ASSUME Inv, tame, mode = "run", UartOpens \/ UartWrites
  PROVE  Guest!Next
<1>0. TypeOK /\ ConsoleStays /\ Owned /\ UartOwned /\ UartName \in Names
      /\ None \notin Inodes
  BY FileAssumption DEF Inv
<1>1. CASE UartOpens
  <2>1. ofp = Closed /\ log = None
    BY <1>0, <1>1 DEF UartOpens, MustOpen, UartOwned
  <2>2. "w" \in Modes /\ HostOpen(UartName, TRUE, "w")
    BY <1>1 DEF UartOpens, Modes
  <2>3. /\ \A f \in DOMAIN host : host'[f] = host[f]
        /\ dir'[UartName] \in Inodes /\ dir'[UartName] = Found(UartName, TRUE)
        /\ dir' = [dir EXCEPT ![UartName] = dir'[UartName]]
    BY <1>0, <2>2, HostOpenProperties
  <2>4. /\ data' = [data EXCEPT ![dir'[UartName]] = {"uart"}]
        /\ log' = dir'[UartName]
        /\ UNCHANGED <<mode, input, heap, a0, held, tame>>
    BY <1>1 DEF UartOpens
  <2>5. \/ dir[UartName] = dir'[UartName]
        \/ dir[UartName] = None /\ Guest!Unused(dir'[UartName])
    <3>1. /\ dir[UartName] # None => dir'[UartName] = dir[UartName]
          /\ dir[UartName] = None => dir'[UartName] \notin Used
      BY <1>0, <2>3, FoundProperties
    <3> QED BY <2>3, <3>1, NewFileIsUnused
  <2>6. [f \in held' |-> host'[f]] = [f \in held |-> host[f]]
    BY <1>0, <2>3, <2>4 DEF Owned
  <2>7. Guest!Uart
    BY <2>1, <2>3, <2>4, <2>5, <2>6 DEF Guest!Uart
  <2> QED BY <2>7 DEF Guest!Next
<1>2. CASE UartWrites
  <2>1. ofp # Closed /\ log # None /\ host[ofp] = [ino |-> log, acc |-> "w"]
        /\ ofp \in DOMAIN host
    BY <1>0, <1>2 DEF UartWrites, MustOpen, UartOwned
  <2>2. data' = [data EXCEPT ![log] = @ \cup {"uart"}]
    BY <1>2, <2>1 DEF UartWrites
  <2>3. Guest!Uart
    BY <1>2, <2>1, <2>2 DEF Guest!Uart, UartWrites
  <2> QED BY <2>3 DEF Guest!Next
<1> QED BY <1>1, <1>2

(* A call that only returns something, and leaves the guest tame, is Answer.*)
LEMMA AnswerIsAnswer ==
  ASSUME Inv, tame, mode = "run", tame', a0' \in Int,
         UNCHANGED <<mode, host, dir, data, ofp, input, heap, held, log>>
  PROVE  Guest!Next
<1>1. tame' = tame
  OBVIOUS
<1>2. Guest!Answer
  BY <1>1 DEF Guest!Answer
<1> QED BY <1>2 DEF Guest!Next

(* Every step is one of GuestCalls.                                         *)
LEMMA StepIsGuests ==
  ASSUME Inv, [Next]_vars, Inv'
  PROVE  [Guest!Next]_(Guest!vars)
<1>1. CASE UNCHANGED vars
  BY <1>1 DEF vars, Guest!vars
<1>2. CASE ~(tame' /\ mode' = "run")
  BY <1>2 DEF Guest!Next, Guest!Halt
<1>3. CASE Next /\ tame' /\ mode' = "run"
  <2>1. tame /\ mode = "run"
    <3>1. mode = "run"
      BY <1>3 DEF Next, NameCall, FileCall, Uart, Call, SysOpen, SysOpenFails, SysLink,
                  SysUnlink, SysClose, SysLseek, SysRead, SysWrite, SysWriteFails,
                  SysWriteStream, SysReadStdin, SysOther, SysBrk, SysExit,
                  UartOpens, UartFails, UartWrites
    <3>2. tame' => tame
      BY <1>3 DEF Next, NameCall, FileCall, Uart, Call, SysOpen, SysOpenFails, SysLink,
                  SysUnlink, SysClose, SysLseek, SysRead, SysWrite, SysWriteFails,
                  SysWriteStream, SysReadStdin, SysOther, SysBrk, SysExit,
                  UartOpens, UartFails, UartWrites
    <3> QED BY <1>3, <3>1, <3>2
  <2>2. CASE NameCall
    BY <1>3, <2>1, <2>2, OpenIsOpen, LinksAreRenames, AnswerSteps, AnswerIsAnswer
       DEF NameCall
  <2>3. ASSUME NEW fd \in Numbers, FileCall(fd) PROVE Guest!Next
    BY <1>3, <2>1, <2>3, CloseIsClose, WriteIsWrite, AnswerSteps, AnswerIsAnswer
       DEF FileCall
  <2>4. CASE \E k \in 0 .. MaxCount : SysReadStdin(k)
    BY <2>1, <2>4, ReadIsReadLine
  <2>5. CASE SysOther
    BY <1>3, <2>1, <2>5, AnswerSteps, AnswerIsAnswer
  <2>6. CASE \E prev, inc \in Places : SysBrk(prev, inc)
    BY <1>3, <2>1, <2>6, BrkIsBreak
  <2>7. CASE SysExit \/ UartFails
    BY <1>3, <2>7 DEF SysExit, UartFails
  <2>8. CASE UartOpens \/ UartWrites
    BY <2>1, <2>8, UartIsUart
  <2> QED BY <1>3, <2>2, <2>3, <2>4, <2>5, <2>6, <2>7, <2>8 DEF Next, Uart
<1> QED BY <1>1, <1>2, <1>3

(* A guest that uses what it holds and no other has its descriptors, its    *)
(* break and its files to itself, and the uart its own file: the calls of   *)
(* Newlib.cpp implement GuestCalls, for any number of descriptors, of names *)
(* and of files, whatever is on stdin.                                      *)
THEOREM GuestIsPrivate == Spec => CallsArePrivate
<1>1. Init => Guest!Init
  <2> SUFFICES ASSUME Init PROVE Guest!Init
    OBVIOUS
  <2>1. TypeOK /\ held = {} /\ heap = 0 /\ a0 = 0 /\ log = None /\ tame /\ mode = "run"
    BY InvInit DEF Init, Inv
  <2>2. [f \in held |-> host[f]] = [f \in {} |-> None]
    BY <2>1
  <2> QED BY <2>1, <2>2 DEF TypeOK, Guest!Init, Guest!Writers, Writers
<1>2. Inv /\ Inv' /\ [Next]_vars => [Guest!Next]_(Guest!vars)
  BY StepIsGuests
<1> QED BY <1>1, <1>2, Invariance, PTL DEF Spec, CallsArePrivate, Guest!Spec
=============================================================================
