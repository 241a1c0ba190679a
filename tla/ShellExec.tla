------------------------------ MODULE ShellExec ------------------------------
(***************************************************************************)
(* How the agent runs the commands that the relay sends it: onMessage in   *)
(* ConnectionManager.kt, AdbShellClient.exec with the killer coroutine     *)
(* that enforces the timeout, and ShellV2Protocol.readResult.              *)
(*                                                                         *)
(* A command is one exec frame and the coroutine launched for it.  Command *)
(* and killer are coroutines of Dispatchers.IO, which runs at most Threads *)
(* of them at a time; a blocking read keeps its thread, delay does not.    *)
(*                                                                         *)
(* A packet is its kind and its length; output is counted, not kept, and   *)
(* stdout stands for stderr as well.  The exit status is abstracted to     *)
(* whether there is one; all else is code -1.  Bug_X operators are         *)
(* mistakes for the mutation runs, used nowhere else.                      *)
(***************************************************************************)
EXTENDS Integers, FiniteSets

CONSTANTS
    Cmds,        \* the exec frames, each received at most once
    Threads,     \* the coroutines that Dispatchers.IO runs at a time (64)
    IntLimit,    \* 2^31: lengths are signed 32-bit integers
    MaxPacket,   \* MAX_PACKET_BYTES
    MaxOutput,   \* maxOutputBytes
    Sizes,       \* bound: the lengths in the packet headers of each command
    MaxPackets,  \* bound: packets of a command before its exit packet
    Stops        \* bound: whether the service may be stopped

ASSUME ShellAssumption ==
    /\ IsFiniteSet(Cmds)
    /\ Threads \in Nat \ {0}
    /\ IntLimit \in Nat \ {0}
    /\ MaxPacket \in 1 .. IntLimit - 1
    /\ MaxOutput \in Nat
    /\ Sizes \in [Cmds -> SUBSET (0 .. 2 * IntLimit - 1)]
    /\ MaxPackets \in Nat
    /\ Stops \in BOOLEAN

VARIABLES
    live,     \* the scope of the ConnectionManager is not cancelled
    task,     \* program counter of the command's coroutine
    killer,   \* program counter of its killer
    stream,   \* its adb stream
    kind,     \* the packet being read: what it carries,
    size,     \* its length on the wire,
    left,     \* and the bytes of it that are still unread
    packets,  \* packets read, the exit packet not counted
    garbled,  \* history: a header held a length of 2^31 or more
    wrote,    \* history: the output bytes announced by the headers read
    got,      \* CappedBuffer.buf: the output bytes kept
    cut,      \* CappedBuffer.truncated
    over,     \* truncated, set for a packet over MAX_PACKET_BYTES
    exited,   \* an exit packet with a status was read
    reply     \* the result handed to webSocket.send

None == [exited |-> FALSE, truncated |-> FALSE, sent |-> FALSE]
Failure == [exited |-> FALSE, truncated |-> FALSE, sent |-> TRUE]

packetVars == <<kind, size, left, packets, garbled, wrote>>
outputVars == <<got, cut, over, exited>>
vars == <<live, task, killer, stream, packetVars, outputVars, reply>>

Kinds    == {"output", "exit", "other"}
TaskPCs  == {"idle", "queued", "opening", "header", "payload", "draining",
             "closing", "leaving", "done"}
Killers  == {"off", "sleeping", "due", "closing", "over"}
Reading  == {"header", "payload", "draining"}

Init ==
    /\ live = TRUE
    /\ task    = [c \in Cmds |-> "idle"]
    /\ killer  = [c \in Cmds |-> "off"]
    /\ stream  = [c \in Cmds |-> "none"]
    /\ kind    = [c \in Cmds |-> "other"]
    /\ size    = [c \in Cmds |-> 0]
    /\ left    = [c \in Cmds |-> 0]
    /\ packets = [c \in Cmds |-> 0]
    /\ garbled = [c \in Cmds |-> FALSE]
    /\ wrote   = [c \in Cmds |-> 0]
    /\ got     = [c \in Cmds |-> 0]
    /\ cut     = [c \in Cmds |-> FALSE]
    /\ over    = [c \in Cmds |-> FALSE]
    /\ exited  = [c \in Cmds |-> FALSE]
    /\ reply   = [c \in Cmds |-> None]

(* A coroutine can be run: fewer than Threads of them have a thread.       *)
OnThread ==
    {c \in Cmds : task[c] \in Reading \cup {"opening", "closing"}}
Closing == {c \in Cmds : killer[c] = "closing"}
ThreadFree == Cardinality(OnThread) + Cardinality(Closing) < Threads

-----------------------------------------------------------------------------
(* The exec frame: a blank or oversized cmd is answered at once, the rest  *)
(* is launched.                                                            *)
OnMessage(c) ==
    /\ live
    /\ task[c] = "idle"
    /\ \/ /\ task' = [task EXCEPT ![c] = "done"]
          /\ reply' = [reply EXCEPT ![c] = Failure]
       \/ /\ task' = [task EXCEPT ![c] = "queued"]
          /\ UNCHANGED reply
    /\ UNCHANGED <<live, killer, stream, packetVars, outputVars>>

(* The coroutine gets a thread; without an adb connection exec throws.     *)
Start(c) ==
    /\ task[c] = "queued"
    /\ ThreadFree
    /\ \/ /\ task' = [task EXCEPT ![c] = "opening"]
          /\ UNCHANGED killer
       \/ /\ task' = [task EXCEPT ![c] = "leaving"]
          /\ killer' = [killer EXCEPT ![c] = "over"]
    /\ UNCHANGED <<live, stream, packetVars, outputVars, reply>>

(* openStream returns, or throws; the killer is launched after it, and     *)
(* not at all once the scope is cancelled.                                 *)
Open(c) ==
    /\ task[c] = "opening"
    /\ \/ /\ task' = [task EXCEPT ![c] = "header"]
          /\ stream' = [stream EXCEPT ![c] = "open"]
          /\ killer' = [killer EXCEPT ![c] = IF live THEN "sleeping" ELSE "over"]
       \/ /\ task' = [task EXCEPT ![c] = "leaving"]
          /\ killer' = [killer EXCEPT ![c] = "over"]
          /\ UNCHANGED stream
    /\ UNCHANGED <<live, packetVars, outputVars, reply>>

-----------------------------------------------------------------------------
(* readResult.                                                             *)

(* littleEndianInt: the length as the signed integer it becomes.           *)
ToInt(n) == IF n >= IntLimit THEN n - 2 * IntLimit ELSE n

SafeLength(n) ==
    IF ToInt(n) <= 0 THEN 0
    ELSE IF ToInt(n) > MaxPacket THEN MaxPacket ELSE ToInt(n)

Bug_NothingDrained(n) == 0
Excess(n) == IF ToInt(n) > SafeLength(n) THEN ToInt(n) - SafeLength(n) ELSE 0

(* header, id and length are gone with the turn of the loop.               *)
Forget(c) ==
    /\ kind' = [kind EXCEPT ![c] = "other"]
    /\ size' = [size EXCEPT ![c] = 0]

(* At a packet boundary the five bytes are a header.  Anywhere else they   *)
(* are five bytes of a payload taken for one, and where the next reads     *)
(* will lead is anyone's guess.                                            *)
ReadHeader(c) ==
    /\ task[c] = "header"
    /\ \E k \in Kinds, n \in Sizes[c] :
         /\ k = "exit" \/ packets[c] < MaxPackets
         /\ kind' = [kind EXCEPT ![c] = k]
         /\ size' = [size EXCEPT ![c] = n]
         /\ IF left[c] = 0 THEN left' = [left EXCEPT ![c] = n]
            ELSE \E m \in {0, left[c]} : left' = [left EXCEPT ![c] = m]
         /\ packets' = [packets EXCEPT ![c] = IF k = "exit" THEN @ ELSE @ + 1]
         /\ garbled' = [garbled EXCEPT ![c] = @ \/ n >= IntLimit]
         /\ wrote' = [wrote EXCEPT ![c] = IF k = "output" THEN @ + n ELSE @]
         /\ over' = [over EXCEPT ![c] = @ \/ ToInt(n) > MaxPacket]
    /\ task' = [task EXCEPT ![c] = "payload"]
    /\ UNCHANGED <<live, killer, stream, got, cut, exited, reply>>

ReadPayload(c) ==
    /\ task[c] = "payload"
    /\ left' = [left EXCEPT ![c] =
                  IF @ > SafeLength(size[c]) THEN @ - SafeLength(size[c]) ELSE 0]
    /\ task' = [task EXCEPT ![c] = "draining"]
    /\ UNCHANGED <<live, killer, stream, kind, size, packets, garbled, wrote,
                   outputVars, reply>>

(* CappedBuffer.append of n bytes.                                         *)
Bug_SilentCut(c, n) ==
    /\ got' = [got EXCEPT ![c] = IF @ + n > MaxOutput THEN MaxOutput ELSE @ + n]
    /\ UNCHANGED cut
Keep(c, n) ==
    IF cut[c] \/ n = 0 THEN UNCHANGED <<got, cut>>
    ELSE /\ got' = [got EXCEPT ![c] = IF @ + n > MaxOutput THEN MaxOutput ELSE @ + n]
         /\ cut' = [cut EXCEPT ![c] = got[c] + n > MaxOutput]

(* drainBytes, which takes the end of the stream silently, and the when.   *)
Dispatch(c) ==
    /\ task[c] = "draining"
    /\ \E eof \in IF Excess(size[c]) = 0 THEN {FALSE} ELSE BOOLEAN :
         /\ left' = [left EXCEPT ![c] =
                       IF @ > Excess(size[c]) THEN @ - Excess(size[c]) ELSE 0]
         /\ task' = [task EXCEPT ![c] =
                       IF eof \/ kind[c] = "exit" THEN "closing" ELSE "header"]
    /\ exited' = [exited EXCEPT ![c] =
                    kind[c] = "exit" /\ SafeLength(size[c]) > 0]
    /\ IF kind[c] = "output" THEN Keep(c, SafeLength(size[c]))
                             ELSE UNCHANGED <<got, cut>>
    /\ Forget(c)
    /\ UNCHANGED <<live, killer, stream, packets, garbled, wrote, over, reply>>

(* The stream ends: what was read is the result, without an exit code.     *)
EndOfStream(c) ==
    /\ task[c] \in {"header", "payload"}
    /\ task' = [task EXCEPT ![c] = "closing"]
    /\ Forget(c)
    /\ UNCHANGED <<live, killer, stream, left, packets, garbled, wrote,
                   outputVars, reply>>

(* An IOException: what was read is lost, after a timeout or without one.  *)
ReadThrows(c) ==
    /\ task[c] \in Reading
    /\ task' = [task EXCEPT ![c] = "closing"]
    /\ got' = [got EXCEPT ![c] = 0]
    /\ cut' = [cut EXCEPT ![c] = FALSE]
    /\ over' = [over EXCEPT ![c] = FALSE]
    /\ Forget(c)
    /\ UNCHANGED <<live, killer, stream, left, packets, garbled, wrote, exited,
                   reply>>

-----------------------------------------------------------------------------
(* The end of exec.  The killer is a child of its scope: withContext waits *)
(* for one that is closing the stream.                                     *)

Bug_NotClosed(c) == stream
Closed(c) == [stream EXCEPT ![c] = "closed"]

Finish(c) ==
    /\ task[c] = "closing"
    /\ stream' = Closed(c)
    /\ killer' = [killer EXCEPT ![c] = IF @ = "closing" THEN @ ELSE "over"]
    /\ task' = [task EXCEPT ![c] = "leaving"]
    /\ UNCHANGED <<live, packetVars, outputVars, reply>>

(* A cancelled scope turns every result into an error.                     *)
Reply(c) ==
    /\ task[c] = "leaving"
    /\ killer[c] = "over"
    /\ ThreadFree
    /\ task' = [task EXCEPT ![c] = "done"]
    /\ reply' = [reply EXCEPT ![c] =
                   IF live THEN [exited    |-> exited[c],
                                 truncated |-> over[c] \/ cut[c],
                                 sent      |-> TRUE]
                           ELSE Failure]
    /\ UNCHANGED <<live, killer, stream, packetVars, outputVars>>

(* delay(timeoutMs) is over; the killer waits for a thread to go on.       *)
TimeoutDue(c) ==
    /\ killer[c] = "sleeping"
    /\ killer' = [killer EXCEPT ![c] = "due"]
    /\ UNCHANGED <<live, task, stream, packetVars, outputVars, reply>>

Kill(c) ==
    /\ killer[c] = "due"
    /\ ThreadFree
    /\ killer' = [killer EXCEPT ![c] = "closing"]
    /\ UNCHANGED <<live, task, stream, packetVars, outputVars, reply>>

Bug_OnlyMarked(c) == stream
ForceClosed(c) == Closed(c)

KillerCloses(c) ==
    /\ killer[c] = "closing"
    /\ stream' = ForceClosed(c)
    /\ killer' = [killer EXCEPT ![c] = "over"]
    /\ UNCHANGED <<live, task, packetVars, outputVars, reply>>

(* ConnectionManager.stop cancels the scope: commands without a thread and *)
(* sleeping killers end, blocked reads do not.                             *)
Stop ==
    /\ Stops
    /\ live
    /\ live' = FALSE
    /\ task' = [c \in Cmds |-> IF task[c] = "queued" THEN "done" ELSE task[c]]
    /\ killer' = [c \in Cmds |->
                    IF killer[c] \in {"sleeping", "due"} THEN "over" ELSE killer[c]]
    /\ UNCHANGED <<stream, packetVars, outputVars, reply>>

-----------------------------------------------------------------------------
Killer(c) == TimeoutDue(c) \/ Kill(c) \/ KillerCloses(c)

Read(c) == ReadHeader(c) \/ ReadPayload(c) \/ Dispatch(c)

Ends(c) == EndOfStream(c) \/ ReadThrows(c)

Next ==
    \/ \E c \in Cmds :
         \/ OnMessage(c) \/ Start(c) \/ Open(c) \/ Read(c) \/ Ends(c)
         \/ Finish(c) \/ Reply(c) \/ Killer(c)
    \/ Stop

Spec == Init /\ [][Next]_vars
=============================================================================
