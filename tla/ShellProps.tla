----------------------------- MODULE ShellProps -----------------------------
(***************************************************************************)
(* Fairness and properties of ShellExec.                                   *)
(***************************************************************************)
EXTENDS ShellExec

(* Fairness.  Dispatchers.IO serves its queue in order, so a coroutine     *)
(* that waits for a thread gets one if threads become free again and       *)
(* again; one that has a thread goes on; delay ends.  adbd answers         *)
(* openStream, and a read on a closed stream returns or throws.  Nothing   *)
(* makes a command write or end.                                           *)
Fairness ==
    \A c \in Cmds :
        /\ SF_vars(Start(c)) /\ SF_vars(Kill(c)) /\ SF_vars(Reply(c))
        /\ WF_vars(Open(c)) /\ WF_vars(Finish(c))
        /\ WF_vars(TimeoutDue(c)) /\ WF_vars(KillerCloses(c))
        /\ WF_vars(stream[c] = "closed" /\ Ends(c))

FairSpec == Spec /\ Fairness

-----------------------------------------------------------------------------
(* Every variable keeps its type; what is kept of the output is within     *)
(* its cap.                                                                *)
TypeOK ==
    /\ live \in BOOLEAN
    /\ task \in [Cmds -> TaskPCs]
    /\ killer \in [Cmds -> Killers]
    /\ stream \in [Cmds -> {"none", "open", "closed"}]
    /\ kind \in [Cmds -> Kinds]
    /\ size \in [Cmds -> 0 .. 2 * IntLimit - 1]
    /\ left \in [Cmds -> Nat]
    /\ packets \in [Cmds -> Nat]
    /\ garbled \in [Cmds -> BOOLEAN]
    /\ wrote \in [Cmds -> Nat]
    /\ got \in [Cmds -> 0 .. MaxOutput]
    /\ cut \in [Cmds -> BOOLEAN]
    /\ over \in [Cmds -> BOOLEAN]
    /\ exited \in [Cmds -> BOOLEAN]
    /\ reply \in [Cmds -> [exited : BOOLEAN, truncated : BOOLEAN, sent : BOOLEAN]]

(* "any excess payload bytes are silently drained so the stream framing    *)
(* stays intact" (ShellV2Protocol.kt:23-24), "regardless of the wire       *)
(* length" (:56-57): headers are read at packet boundaries only.  The code *)
(* does not keep to it (MCShellGarbled.cfg).                               *)
FramingKept == \A c \in Cmds : task[c] = "header" => left[c] = 0

(* What it does keep to: nothing but a length of 2^31 or more, which       *)
(* littleEndianInt makes negative, ever leaves payload bytes to be read as *)
(* a header, whatever mix of packets over and under the cap came before.   *)
OnlyHugeLengthsUnframe ==
    \A c \in Cmds : task[c] = "header" /\ left[c] # 0 => garbled[c]

(* A result with an exit code holds every byte that the command wrote, or  *)
(* says that it was truncated; neither the killer nor the end of the       *)
(* stream in the middle of a packet makes an incomplete one look complete. *)
(* (As long as no length was 2^31 or more: that one is not marked either.) *)
HonestResult ==
    \A c \in Cmds :
        reply[c].exited /\ ~garbled[c] => reply[c].truncated \/ got[c] = wrote[c]

(* A command that is over has left nothing behind: its stream is closed    *)
(* and its killer is gone, so it cannot close anything later.              *)
CleanEnd ==
    \A c \in Cmds :
        task[c] = "done" => stream[c] # "open" /\ killer[c] \in {"off", "over"}

(* While the service runs no command reads without a killer that can end   *)
(* the read: its killer sleeps, waits for a thread or is closing, or the   *)
(* stream is closed.  stop() is what breaks this: it cancels the killers.  *)
ReadsAreGuarded ==
    \A c \in Cmds :
        task[c] \in Reading /\ live
            => stream[c] = "closed" \/ killer[c] \in {"sleeping", "due", "closing"}

(* An exec frame is answered once, by onMessage or by the coroutine, and   *)
(* the answer stands: neither a timeout nor a stop adds a second one.      *)
OneReply == [][\A c \in Cmds : reply[c].sent => reply'[c] = reply[c]]_vars

(* "waits up to timeoutMs for it to finish. On timeout the stream is       *)
(* force-closed" (AdbShellClient.kt:88-91): while the service runs, every  *)
(* command that was launched ends, though nothing makes the shell end it.  *)
EveryExecEnds ==
    \A c \in Cmds : task[c] = "queued" ~> task[c] = "done" \/ ~live

-----------------------------------------------------------------------------
(* What makes the invariants inductive.  While lengths are read as they    *)
(* were written, the bytes still unread of a packet are those its header   *)
(* announced;                                                              *)
Framed(c) ==
    ~garbled[c] =>
      /\ task[c] \in {"payload", "draining"} =>
           size[c] < IntLimit /\ (size[c] > MaxPacket => over[c])
      /\ task[c] \in {"idle", "queued", "opening", "header"} => left[c] = 0
      /\ task[c] = "payload"  => left[c] = size[c]
      /\ task[c] = "draining" => left[c] = Excess(size[c])

(* every byte announced was kept, is in the packet being read, or the      *)
(* result is marked;                                                       *)
Complete(c) == over[c] \/ cut[c] \/ got[c] = wrote[c]
Accounted(c) ==
    ~garbled[c] =>
      /\ task[c] \in {"idle", "queued", "opening", "header"} => Complete(c)
      /\ task[c] \in {"payload", "draining"} =>
           IF kind[c] = "output"
             THEN over[c] \/ cut[c] \/ got[c] + size[c] = wrote[c]
             ELSE Complete(c)
      /\ exited[c] => Complete(c)
      /\ reply[c].exited => reply[c].truncated \/ got[c] = wrote[c]

(* and the stream and the killer go with the coroutine.                    *)
Tidy(c) ==
    /\ exited[c] => task[c] \in {"closing", "leaving", "done"}
    /\ reply[c].exited \/ reply[c].sent => task[c] = "done"
    /\ task[c] \in {"idle", "queued", "opening"} =>
         stream[c] = "none" /\ killer[c] = "off"
    /\ task[c] = "leaving" => stream[c] # "open" /\ killer[c] \in {"closing", "over"}
    /\ task[c] = "done" => stream[c] # "open" /\ killer[c] \in {"off", "over"}

IInv == /\ TypeOK /\ ReadsAreGuarded
        /\ \A c \in Cmds : Framed(c) /\ Accounted(c) /\ Tidy(c)
=============================================================================
