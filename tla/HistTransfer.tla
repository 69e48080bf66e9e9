----------------------------- MODULE HistTransfer -----------------------------
(***************************************************************************)
(* The histogram of an area detector comes over TCP in blocks, each of     *)
(* which is acknowledged before the next is sent: sendHIST in the          *)
(* detector, recvHIST in AIM_XFER.  A package is taken from the connection *)
(* with one read, which may come up with a part of it.  Both sides give up *)
(* after ten seconds without a package, and the program also when a key    *)
(* interrupts it.  The elements are written as longs to a storage of ints, *)
(* and the look whether there is room comes after one has been written.    *)
(***************************************************************************)
EXTENDS Integers, Sequences

CONSTANTS
  Contents,    \* what an element of a histogram can be
  Zero,        \* what a cleared one is
  Elements,    \* lhist: how many the detector has
  PerBlock,    \* nperblk: how many there are in a full block
  Sizes,       \* how many words the program may have room for
  LongWords,   \* how many of its words a long takes: 2 where it has 64 bits
  MaxMishaps   \* bounds the timeouts, interrupts, lost connections and torn packages

ASSUME TransferAssumption ==
  /\ Zero \in Contents
  /\ Elements \in Nat /\ PerBlock \in Nat \ {0} /\ Sizes \subseteq Nat
  /\ LongWords \in Nat \ {0} /\ MaxMishaps \in Nat

VARIABLES
  memory,    \* the elements of the detector
  server,    \* what sendHIST is at
  block,     \* which block
  client,    \* what AIM_XFER is at
  hist,      \* its storage, by words
  past,      \* how many words behind the storage have been written to
  recv_len,  \* how many elements have been received
  opcode,    \* of the package received last
  retn,      \* what recvHIST has returned
  toClient,  \* the packages on the connection
  toServer,
  reset,     \* the program has written to a connection that was closed
  torn,      \* a package was read in two parts
  shaken,    \* a side gave up, or was not reached
  mishaps,   \* how much of that has happened in all
  had        \* what the elements have been since the transfer began

transfer == <<client, hist, past, recv_len, opcode, retn>>
sending == <<server, block>>
wire == <<toClient, toServer>>
strain == <<torn, shaken, mishaps>>
histVars == <<memory, sending, transfer, wire, reset, strain, had>>

Ops == {"NOP", "ACK", "DAT", "ERR"}
Package(op, prm, data) == [op |-> op, prm |-> prm, data |-> data]
ACK(prm) == Package("ACK", prm, <<>>)
ERR == Package("ERR", -1, <<>>)

HistInit ==
  /\ memory = [k \in 1..Elements |-> Zero]
  /\ server = "idle" /\ block = 0
  /\ client = "idle" /\ recv_len = 0 /\ opcode = "NOP" /\ retn = 0
  /\ \E size \in Sizes : hist = [w \in 1..size |-> Zero]
  /\ past = 0
  /\ toClient = <<>> /\ toServer = <<>> /\ reset = FALSE
  /\ torn = FALSE /\ shaken = FALSE /\ mishaps = 0
  /\ had = [k \in 1..Elements |-> {Zero}]

\* Something fails that may.
Mishap ==
  /\ mishaps < MaxMishaps
  /\ mishaps' = mishaps + 1 /\ shaken' = TRUE
  /\ UNCHANGED torn

\* The detector counts, or is cleared.
Change(m) ==
  /\ memory' = m
  /\ had' = IF client = "recv" THEN [k \in 1..Elements |-> had[k] \cup {m[k]}] ELSE had
  /\ UNCHANGED <<sending, transfer, wire, reset, strain>>
-----------------------------------------------------------------------------
(* sendHIST.                                                               *)

nfullblks == Elements \div PerBlock
nlastblk == Elements % PerBlock
\* Mutant: only the full blocks are sent.
BlocksFull == nfullblks

Blocks == nfullblks + IF nlastblk > 0 THEN 1 ELSE 0

idata(i) == SubSeq([k \in 1..Elements |-> memory[k]],
                   i * PerBlock + 1, IF i < nfullblks THEN (i + 1) * PerBlock ELSE Elements)

\* A block, or behind the last one an acknowledgement, which ends it.
SendBlock ==
  /\ server = "send"
  /\ server' = IF client # "recv" \/ block = Blocks THEN "gone" ELSE "await"
  /\ toClient' = Append(toClient, IF block = Blocks THEN ACK(nfullblks)
                                                    ELSE Package("DAT", block, idata(block)))
  /\ UNCHANGED <<memory, block, transfer, toServer, reset, strain, had>>


\* Which block is acknowledged is not looked at.
RecvAck ==
  /\ server = "await" /\ toServer # <<>>
  /\ toServer' = Tail(toServer)
  /\ IF Head(toServer).op = "ACK"
     THEN server' = "send" /\ block' = block + 1
     ELSE server' = "gone" /\ UNCHANGED block
  /\ UNCHANGED <<memory, transfer, toClient, reset, strain, had>>

\* The program has closed the connection, or does not answer in time.
NoAck ==
  /\ server = "await" /\ toServer = <<>>
  /\ server' = "gone"
  /\ IF client = "recv" THEN Mishap ELSE UNCHANGED strain
  /\ UNCHANGED <<memory, block, transfer, wire, reset, had>>

\* The detector hangs, with the connection open.
Hangs ==
  /\ server \in {"send", "await"} /\ Mishap
  /\ server' = "stuck"
  /\ UNCHANGED <<memory, block, transfer, wire, reset, had>>

sendHIST == SendBlock \/ RecvAck \/ NoAck
-----------------------------------------------------------------------------
(* AIM_XFER.                                                               *)

\* Mutant: the storage is not cleared.
XferUncleared ==
  /\ client \in {"idle", "over"}
  /\ client' = "recv" /\ server' = "send" /\ block' = 0
  /\ recv_len' = 0 /\ opcode' = "NOP"
  /\ toClient' = <<>> /\ toServer' = <<>> /\ reset' = FALSE
  /\ torn' = FALSE /\ shaken' = FALSE
  /\ had' = [k \in 1..Elements |-> {memory[k]}]
  /\ UNCHANGED <<memory, hist, past, retn, mishaps>>

\* Every transfer has a connection of its own.  Until a package has come the
\* opcode is whatever was in its place, an acknowledgement or not.
AIM_XFER ==
  /\ client \in {"idle", "over"}
  /\ hist' = [w \in DOMAIN hist |-> Zero]
  /\ recv_len' = 0 /\ opcode' \in {"NOP", "ACK"}
  /\ toClient' = <<>> /\ toServer' = <<>> /\ reset' = FALSE
  /\ had' = [k \in 1..Elements |-> {memory[k]}]
  /\ \/ /\ client' = "recv" /\ server' = "send" /\ block' = 0
        /\ torn' = FALSE /\ shaken' = FALSE
        /\ UNCHANGED <<retn, mishaps>>
     \/ /\ client' = "over" /\ retn' = -1
        /\ torn' = FALSE /\ shaken' = TRUE
        /\ mishaps < MaxMishaps /\ mishaps' = mishaps + 1
        /\ UNCHANGED <<server, block>>
  /\ UNCHANGED <<memory, past>>

\* sendPKG: what is written to a closed connection is lost the first time, and
\* the second time the program aborts.
sendPKG(package, next) ==
  /\ client' = IF server = "gone" /\ reset THEN "dead" ELSE next
  /\ reset' = (reset \/ server = "gone")
  /\ toServer' = IF server = "gone" THEN toServer ELSE Append(toServer, package)

\* The storage is of ints, and an element is written to it as a long.
ElementOf(w) == (w - 1) \div LongWords + 1
Leads(w) == (w - 1) % LongWords = 0

size == Len(hist)

\* The elements of a block go behind those received,
Stored(data) ==
  [w \in DOMAIN hist |->
     LET k == ElementOf(w)
     IN IF k \in recv_len + 1 .. recv_len + Len(data)
        THEN IF Leads(w) THEN data[k - recv_len] ELSE Zero
        ELSE hist[w]]

\* those for which there is no more room in it behind the storage,
Overrun(length) == LET words == LongWords * length - size IN IF words > past THEN words ELSE past

Over(result) == retn' = result

\* Mutant: nobody looks whether there is room.
StoreUnchecked(package, data) ==
  /\ hist' = Stored(data) /\ past' = Overrun(recv_len + Len(data))
  /\ recv_len' = recv_len + Len(data) /\ UNCHANGED retn
  /\ sendPKG(ACK(package.prm), "recv")

\* until one is stored that is more than there are words.
Store(package, data) ==
  /\ hist' = Stored(data)
  /\ IF recv_len + Len(data) > size
     THEN /\ recv_len' = size + 1 /\ Over(-1)
          /\ sendPKG(ERR, "over")
     ELSE /\ recv_len' = recv_len + Len(data) /\ UNCHANGED retn
          /\ sendPKG(ACK(package.prm), "recv")
  /\ past' = Overrun(recv_len')

\* No block: the transfer is complete, or an error.
Finish(op) ==
  /\ UNCHANGED <<hist, past, recv_len>>
  /\ IF op = "ACK"
     THEN Over(recv_len) /\ client' = "over" /\ UNCHANGED <<toServer, reset>>
     ELSE Over(-1) /\ sendPKG(ERR, "over")

recvPKG ==
  /\ client = "recv" /\ toClient # <<>>
  /\ LET package == Head(toClient)
     IN /\ toClient' = Tail(toClient)
        /\ opcode' = package.op
        /\ IF package.op = "DAT" THEN Store(package, package.data) ELSE Finish(package.op)
  /\ UNCHANGED <<memory, sending, strain, had>>

\* The first read ends within a block: what is missing is taken for zeros, and
\* what comes of it later for a package.
recvPart ==
  /\ client = "recv" /\ toClient # <<>>
  /\ LET package == Head(toClient)
     IN \E n \in 0 .. Len(package.data) - 1, op \in Ops :
          /\ toClient' = <<Package(op, 0, <<>>)>> \o Tail(toClient)
          /\ opcode' = package.op
          /\ Store(package, [k \in DOMAIN package.data |-> IF k <= n THEN package.data[k] ELSE Zero])
  /\ torn' = TRUE
  /\ mishaps < MaxMishaps /\ mishaps' = mishaps + 1
  /\ UNCHANGED <<memory, sending, shaken, had>>

\* Mutant: a package is waited for as long as it takes.
recvNoneUntimed ==
  /\ client = "recv" /\ toClient = <<>> /\ server = "gone"
  /\ Finish(opcode)
  /\ UNCHANGED <<opcode, strain, memory, sending, toClient, had>>

\* No package: the connection was closed, a key interrupts select, or the ten
\* seconds are over.  Only then is the opcode set.
recvNone ==
  /\ client = "recv" /\ toClient = <<>>
  /\ \/ server = "gone" /\ Finish(opcode) /\ UNCHANGED <<opcode, strain>>
     \/ server # "gone" /\ Finish(opcode) /\ UNCHANGED opcode /\ Mishap
     \/ server = "stuck" /\ Finish("NOP") /\ opcode' = "NOP" /\ UNCHANGED strain
     \/ server \notin {"gone", "stuck"} /\ Finish("NOP") /\ opcode' = "NOP" /\ Mishap
  /\ UNCHANGED <<memory, sending, toClient, had>>

recvHIST == recvPKG \/ recvPart \/ recvNone

HistNext ==
  \/ \E m \in [1..Elements -> Contents] : Change(m)
  \/ sendHIST \/ Hangs
  \/ AIM_XFER \/ recvHIST

HistSpec == HistInit /\ [][HistNext]_histVars
-----------------------------------------------------------------------------
HistTypeOK ==
  /\ memory \in [1..Elements -> Contents]
  /\ had \in [1..Elements -> SUBSET Contents]
  /\ hist \in Seq(Contents) /\ size \in Sizes /\ past \in 0 .. LongWords * (size + 1) - size
  /\ server \in {"idle", "send", "await", "gone", "stuck"} /\ block \in 0..Blocks + 1
  /\ client \in {"idle", "recv", "over", "dead"}
  /\ recv_len \in 0..size + 1 /\ opcode \in Ops /\ retn \in -1..size
  /\ reset \in BOOLEAN /\ torn \in BOOLEAN /\ shaken \in BOOLEAN /\ mishaps \in 0..MaxMishaps

state ==
  CASE client = "idle" -> "idle"
    [] client # "idle" /\ torn -> "spoilt"
    [] client = "recv" /\ ~torn -> "moving"
    [] client \in {"over", "dead"} /\ ~torn /\ retn = Elements -> "whole"
    [] OTHER -> "failed"

Abstract == INSTANCE Transfer WITH
  filled <- IF recv_len > Elements THEN Elements ELSE recv_len, Spread <- LongWords

\* AIM_XFER implements Transfer, with elements that take as many words as a long.
Implements == Abstract!TransferSpec

\* A transfer that nobody has given up, of packages that are not torn, receives
\* all elements, if there are not more than words of storage, and says how many
\* they are; it does not say that they are in the storage.
Brought ==
  client \in {"over", "dead"} /\ ~shaken /\ ~torn /\ size >= Elements =>
    client = "over" /\ retn = Elements


\* recvHIST, "Check to make sure that we don't overflow storage" (tcp_io.c:395).
\* It does not hold where there is no more room than for elements of one word.
NoOverflow == past = 0
=============================================================================
