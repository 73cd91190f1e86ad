----------------------------- MODULE GuestCalls ----------------------------
(***************************************************************************)
(* What newlib's calls to the host mean to a guest: descriptors of its own, *)
(* each the file that it opened under that number, a console, a break that  *)
(* moves by what it asks for; beside it the uart, every byte of which goes  *)
(* to the one file that the simulator keeps for it.  The descriptors of the *)
(* simulator do not appear here: a guest that uses a number it does not     *)
(* hold, or a break that it was not given, has left what is promised, and   *)
(* anything may follow.                                                     *)
(***************************************************************************)
EXTENDS Integers, Sequences

CONSTANTS Fds,        \* the numbers of descriptors; 0, 1, 2 are the console
          Names,      \* names of files
          UartName,   \* the one that the uart's file has
          Inodes,     \* files, with or without a name
          None,       \* no file
          MaxCount,   \* bound: bytes of one call
          AddrLen,    \* addresses are 0 .. AddrLen-1
          EndOfData,  \* the heap begins here or above
          Align       \* 16: on a multiple of this

VARIABLES
  own,      \* the descriptors that the guest holds: number -> open file
  dir,      \* name -> file
  data,     \* file -> whose bytes it holds
  log,      \* the uart's file, None before its first byte
  input,    \* what is left of stdin: "c" is a byte, "nl" a newline
  heap,     \* the break
  result,   \* what the last call returned
  defined   \* the guest has kept to its own descriptors and to its break

vars == <<own, dir, data, log, input, heap, result, defined>>

Console  == 0 .. 2
Modes    == {"r", "w", "rw"}
Writers  == {"guest", "uart"}
Failed   == -1

(* How many bytes a read of k takes: no more than there are, and one line.  *)
Taken(s, k) ==
  {j \in 0 .. k : /\ j <= Len(s)
                  /\ \A i \in 1 .. j-1 : s[i] # "nl"}

Init ==
  /\ own = [f \in {} |-> None]
  /\ dir \in [Names -> Inodes \cup {None}]
  /\ data \in [Inodes -> SUBSET Writers]
  /\ log = None
  /\ input \in Seq({"c", "nl"})
  /\ heap = 0
  /\ result = 0
  /\ defined = TRUE

Unused(ino) == /\ ino # log
               /\ \A m \in Names : dir[m] # ino
               /\ \A fd \in DOMAIN own : own[fd].ino # ino

(* A name gets a file, or the file it has; with trunc it is emptied.        *)
Named(n, ino, trunc) ==
  /\ dir[n] = None => Unused(ino)
  /\ dir[n] # None => ino = dir[n]
  /\ dir' = [dir EXCEPT ![n] = ino]
  /\ data' = IF trunc \/ dir[n] = None
             THEN [data EXCEPT ![ino] = {}] ELSE data

Open(n, ino, acc, trunc) ==
  /\ defined
  /\ Named(n, ino, trunc)
  /\ \E fd \in Fds \ (Console \cup DOMAIN own) :
       /\ own' = [f \in DOMAIN own \cup {fd} |->
                    IF f = fd THEN [ino |-> ino, acc |-> acc] ELSE own[f]]
       /\ result' = fd
  /\ UNCHANGED <<log, input, heap, defined>>

Close(fd) ==
  /\ defined /\ fd \in Console \cup DOMAIN own
  /\ own' = [f \in DOMAIN own \ {fd} |-> own[f]]
  /\ result' = 0
  /\ UNCHANGED <<dir, data, log, input, heap, defined>>

(* At most a line of stdin, in order, none lost.                            *)
ReadLine(k) ==
  /\ defined
  /\ \E j \in Taken(input, k) :
       /\ result' = j
       /\ input' = SubSeq(input, j+1, Len(input))
  /\ UNCHANGED <<own, dir, data, log, heap, defined>>

Write(fd, k) ==
  /\ defined /\ k > 0 /\ fd \in DOMAIN own /\ own[fd].acc # "r"
  /\ data' = [data EXCEPT ![own[fd].ino] = @ \cup {"guest"}]
  /\ result' \in 1 .. k
  /\ UNCHANGED <<own, dir, log, input, heap, defined>>

(* Calls that only return something, also all that fail.                    *)
Answer ==
  /\ defined
  /\ result' \in Int
  /\ UNCHANGED <<own, dir, data, log, input, heap, defined>>

Rename(n, ino) ==   \* link and unlink
  /\ defined
  /\ dir' = [dir EXCEPT ![n] = ino]
  /\ result' = 0
  /\ UNCHANGED <<own, data, log, input, heap, defined>>

(* The break moves by k; the guest is told where it was, or where it is.    *)
Break(k) ==
  /\ defined
  /\ heap' = (heap + k) % AddrLen
  /\ result' \in {heap, heap'} \ {0}
  /\ UNCHANGED <<own, dir, data, log, input, defined>>

(* The heap begins (anew): on a boundary, not below the end of the data.    *)
BreakReset ==
  /\ defined
  /\ heap' \in {a \in EndOfData .. AddrLen-1 : a % Align = 0}
  /\ result' = heap'
  /\ UNCHANGED <<own, dir, data, log, input, defined>>

(* A byte of the uart; the first opens its file.                            *)
Uart ==
  /\ defined
  /\ IF log = None
     THEN /\ \E ino \in Inodes :
               /\ \/ dir[UartName] = ino
                  \/ dir[UartName] = None /\ Unused(ino)
               /\ dir' = [dir EXCEPT ![UartName] = ino]
               /\ log' = ino
               /\ data' = [data EXCEPT ![ino] = {"uart"}]
     ELSE /\ data' = [data EXCEPT ![log] = @ \cup {"uart"}]
          /\ UNCHANGED <<dir, log>>
  /\ UNCHANGED <<own, input, heap, result, defined>>

Halt == defined' = FALSE

Next ==
  \/ \E n \in Names, ino \in Inodes, acc \in Modes, trunc \in BOOLEAN :
       Open(n, ino, acc, trunc)
  \/ \E fd \in Fds : Close(fd) \/ \E k \in 0 .. MaxCount : Write(fd, k)
  \/ \E k \in 0 .. MaxCount : ReadLine(k)
  \/ Answer
  \/ \E n \in Names, ino \in Inodes \cup {None} : Rename(n, ino)
  \/ \E k \in 0 .. AddrLen-1 : Break(k)
  \/ BreakReset
  \/ Uart
  \/ Halt

Spec == Init /\ [][Next]_vars
=============================================================================
