----------------------------- MODULE ShellProofs -----------------------------
(***************************************************************************)
(* Proofs about ShellExec, for every number of commands and threads, every *)
(* cap and every length of a packet.                                       *)
(***************************************************************************)
EXTENDS ShellProps, TLAPS

USE ShellAssumption

(* The lengths of readResult.                                              *)
LEMMA Lengths ==
  ASSUME NEW n \in 0 .. 2 * IntLimit - 1
  PROVE  /\ ToInt(n) \in Int
         /\ SafeLength(n) \in 0 .. MaxPacket
         /\ Excess(n) \in Nat
         /\ n < IntLimit => ToInt(n) = n /\ SafeLength(n) + Excess(n) = n
         /\ n <= MaxPacket => SafeLength(n) = n /\ Excess(n) = 0
  BY DEF ToInt, SafeLength, Excess

LEMMA InitInv == Init => IInv
  <1> SUFFICES ASSUME Init PROVE IInv  OBVIOUS
  <1>1. TypeOK /\ ReadsAreGuarded
    BY DEF Init, TypeOK, TaskPCs, Killers, Kinds, None, ReadsAreGuarded, Reading
  <1>2. \A c \in Cmds : Framed(c) /\ Accounted(c) /\ Tidy(c)
    BY DEF Init, Framed, Accounted, Complete, Tidy, None
  <1> QED  BY <1>1, <1>2 DEF IInv

-----------------------------------------------------------------------------
(* Types.                                                                  *)
LEMMA OnMessageType ==
  ASSUME TypeOK, NEW c \in Cmds, OnMessage(c)
  PROVE  TypeOK'
  <1> DEFINE Results == [exited : BOOLEAN, truncated : BOOLEAN, sent : BOOLEAN]
  <1>1. Failure \in Results
    BY DEF Failure
  <1>2. task \in [Cmds -> TaskPCs] /\ reply \in [Cmds -> Results]
    BY DEF TypeOK
  <1>3. task' \in [Cmds -> TaskPCs]
    <2>1. ASSUME NEW v \in TaskPCs, task' = [task EXCEPT ![c] = v]
          PROVE  task' \in [Cmds -> TaskPCs]
      BY <1>2, <2>1
    <2> QED  BY <2>1 DEF OnMessage, TaskPCs
  <1>4. reply' \in [Cmds -> Results]
    <2> HIDE DEF Results
    <2>1. CASE reply' = [reply EXCEPT ![c] = Failure]
      BY <1>1, <1>2, <2>1
    <2>2. CASE UNCHANGED reply
      BY <1>2, <2>2
    <2> QED  BY <2>1, <2>2 DEF OnMessage
  <1> QED  BY <1>3, <1>4 DEF TypeOK, OnMessage, packetVars, outputVars

LEMMA TypeStep == IInv /\ [Next]_vars => TypeOK'
  <1> SUFFICES ASSUME TypeOK, [Next]_vars PROVE TypeOK'  BY DEF IInv
  <1> USE DEF TypeOK, TaskPCs, Killers, Kinds, Reading, packetVars, outputVars
  <1>1. ASSUME NEW c \in Cmds, OnMessage(c) PROVE TypeOK'
    BY <1>1, OnMessageType
  <1>2. ASSUME NEW c \in Cmds, Start(c) PROVE TypeOK'
    BY <1>2 DEF Start
  <1>3. ASSUME NEW c \in Cmds, Open(c) PROVE TypeOK'
    BY <1>3 DEF Open
  <1>4. ASSUME NEW c \in Cmds, ReadHeader(c) PROVE TypeOK'
    BY <1>4, Lengths DEF ReadHeader
  <1>5. ASSUME NEW c \in Cmds, ReadPayload(c) PROVE TypeOK'
    BY <1>5, Lengths DEF ReadPayload
  <1>6. ASSUME NEW c \in Cmds, Dispatch(c) PROVE TypeOK'
    <2>1. size[c] \in 0 .. 2 * IntLimit - 1 /\ SafeLength(size[c]) \in Nat
          /\ Excess(size[c]) \in Nat
      BY Lengths
    <2>2. left' \in [Cmds -> Nat] /\ task' \in [Cmds -> TaskPCs]
          /\ exited' \in [Cmds -> BOOLEAN] /\ kind' \in [Cmds -> Kinds]
          /\ size' \in [Cmds -> 0 .. 2 * IntLimit - 1]
      BY <1>6, <2>1 DEF Dispatch, Forget
    <2>3. got' \in [Cmds -> 0 .. MaxOutput] /\ cut' \in [Cmds -> BOOLEAN]
      <3>1. CASE UNCHANGED <<got, cut>>
        BY <3>1
      <3>2. CASE Keep(c, SafeLength(size[c]))
        <4> DEFINE n == got[c] + SafeLength(size[c])
        <4>1. n \in Nat /\ (n > MaxOutput) \in BOOLEAN
          BY <2>1
        <4>2. CASE UNCHANGED <<got, cut>>
          BY <4>2
        <4>3. CASE got' = [got EXCEPT ![c] = IF n > MaxOutput THEN MaxOutput ELSE n]
                   /\ cut' = [cut EXCEPT ![c] = n > MaxOutput]
          <5>1. got' \in [Cmds -> 0 .. MaxOutput]
            BY <4>1, <4>3
          <5>2. cut' \in [Cmds -> BOOLEAN]
            <6>1. cut \in [Cmds -> BOOLEAN]
              OBVIOUS
            <6> HIDE DEF n
            <6> QED
              BY <4>1, <4>3, <6>1, Zenon
          <5> QED
            BY <5>1, <5>2
        <4> QED
          BY <3>2, <4>2, <4>3 DEF Keep
      <3> QED
        BY <1>6, <3>1, <3>2 DEF Dispatch
    <2> QED
      BY <1>6, <2>2, <2>3 DEF Dispatch
  <1>7. ASSUME NEW c \in Cmds, EndOfStream(c) PROVE TypeOK'
    BY <1>7 DEF EndOfStream, Forget
  <1>8. ASSUME NEW c \in Cmds, ReadThrows(c) PROVE TypeOK'
    BY <1>8 DEF ReadThrows, Forget
  <1>9. ASSUME NEW c \in Cmds, Finish(c) PROVE TypeOK'
    BY <1>9 DEF Finish, Closed
  <1>10. ASSUME NEW c \in Cmds, Reply(c) PROVE TypeOK'
    BY <1>10 DEF Reply, Failure, None
  <1>11. ASSUME NEW c \in Cmds, TimeoutDue(c) PROVE TypeOK'
    BY <1>11 DEF TimeoutDue
  <1>12. ASSUME NEW c \in Cmds, Kill(c) PROVE TypeOK'
    BY <1>12 DEF Kill
  <1>13. ASSUME NEW c \in Cmds, KillerCloses(c) PROVE TypeOK'
    BY <1>13 DEF KillerCloses, ForceClosed, Closed
  <1>14. CASE Stop  BY <1>14 DEF Stop
  <1>15. CASE UNCHANGED vars  BY <1>15 DEF vars
  <1> QED
    BY <1>1, <1>2, <1>3, <1>4, <1>5, <1>6, <1>7, <1>8, <1>9, <1>10, <1>11, <1>12, <1>13, <1>14, <1>15
       DEF Next, Read, Ends, Killer

-----------------------------------------------------------------------------
(* The bytes left of a packet.                                             *)
LEMMA FramedStep ==
  ASSUME IInv, [Next]_vars, NEW d \in Cmds
  PROVE  Framed(d)'
  <1> USE DEF Framed, packetVars, outputVars
  <1>0. TypeOK /\ Framed(d)  BY DEF IInv
  <1>1. ASSUME NEW c \in Cmds, OnMessage(c) PROVE Framed(d)'
    BY <1>0, <1>1 DEF TypeOK, OnMessage, Failure
  <1>2. ASSUME NEW c \in Cmds, Start(c) PROVE Framed(d)'
    BY <1>0, <1>2 DEF TypeOK, Start
  <1>3. ASSUME NEW c \in Cmds, Open(c) PROVE Framed(d)'
    BY <1>0, <1>3 DEF TypeOK, Open
  <1>4. ASSUME NEW c \in Cmds, ReadHeader(c) PROVE Framed(d)'
    <2>1. PICK kk \in Kinds, n \in Sizes[c] :
            /\ kind' = [kind EXCEPT ![c] = kk]
            /\ size' = [size EXCEPT ![c] = n]
            /\ IF left[c] = 0 THEN left' = [left EXCEPT ![c] = n]
               ELSE \E m \in {0, left[c]} : left' = [left EXCEPT ![c] = m]
            /\ garbled' = [garbled EXCEPT ![c] = @ \/ n >= IntLimit]
            /\ wrote' = [wrote EXCEPT ![c] = IF kk = "output" THEN @ + n ELSE @]
            /\ over' = [over EXCEPT ![c] = @ \/ ToInt(n) > MaxPacket]
      BY <1>4 DEF ReadHeader
    <2>2. n \in 0 .. 2 * IntLimit - 1
      OBVIOUS
    <2>3. task[c] = "header" /\ task' = [task EXCEPT ![c] = "payload"]
          /\ UNCHANGED <<got, cut, exited, reply>>
      BY <1>4 DEF ReadHeader
    <2>4. (garbled[c] \/ n >= IntLimit) \in BOOLEAN /\ (over[c] \/ ToInt(n) > MaxPacket) \in BOOLEAN
      OBVIOUS
    <2>5. garbled'[c] <=> garbled[c] \/ n >= IntLimit
      BY <1>0, <2>1, <2>4, Zenon DEF TypeOK
    <2>6. over'[c] <=> over[c] \/ ToInt(n) > MaxPacket
      BY <1>0, <2>1, <2>4, Zenon DEF TypeOK
    <2>7. n < IntLimit => ToInt(n) = n
      BY <2>2, Lengths
    <2>8. CASE d = c
      BY <1>0, <2>1, <2>2, <2>3, <2>5, <2>6, <2>7, <2>8 DEF TypeOK
    <2>9. CASE d # c
      BY <1>0, <2>1, <2>3, <2>9 DEF TypeOK
    <2> QED
      BY <2>8, <2>9
  <1>5. ASSUME NEW c \in Cmds, ReadPayload(c) PROVE Framed(d)'
    <2>1. size[c] \in 0 .. 2 * IntLimit - 1
      BY <1>0 DEF TypeOK
    <2>2. size[c] < IntLimit => SafeLength(size[c]) + Excess(size[c]) = size[c]
          /\ SafeLength(size[c]) \in Nat /\ Excess(size[c]) \in Nat
      BY <2>1, Lengths
    <2>3. task[c] = "payload" /\ task' = [task EXCEPT ![c] = "draining"]
          /\ UNCHANGED <<size, garbled, over>>
          /\ left' = [left EXCEPT ![c] =
                        IF @ > SafeLength(size[c]) THEN @ - SafeLength(size[c]) ELSE 0]
      BY <1>5 DEF ReadPayload
    <2>4. CASE d = c
      BY <1>0, <2>1, <2>2, <2>3, <2>4 DEF TypeOK
    <2>5. CASE d # c
      BY <1>0, <2>3, <2>5 DEF TypeOK
    <2> QED
      BY <2>4, <2>5
  <1>6. ASSUME NEW c \in Cmds, Dispatch(c) PROVE Framed(d)'
    BY <1>0, <1>6, Lengths DEF TypeOK, Dispatch, Forget, Keep
  <1>7. ASSUME NEW c \in Cmds, EndOfStream(c) PROVE Framed(d)'
    BY <1>0, <1>7 DEF TypeOK, EndOfStream, Forget
  <1>8. ASSUME NEW c \in Cmds, ReadThrows(c) PROVE Framed(d)'
    BY <1>0, <1>8 DEF TypeOK, ReadThrows, Forget, Reading
  <1>9. ASSUME NEW c \in Cmds, Finish(c) PROVE Framed(d)'
    BY <1>0, <1>9 DEF TypeOK, Finish, Closed
  <1>10. ASSUME NEW c \in Cmds, Reply(c) PROVE Framed(d)'
    BY <1>0, <1>10 DEF TypeOK, Reply, Failure
  <1>11. ASSUME NEW c \in Cmds, TimeoutDue(c) PROVE Framed(d)'
    BY <1>0, <1>11 DEF TypeOK, TimeoutDue
  <1>12. ASSUME NEW c \in Cmds, Kill(c) PROVE Framed(d)'
    BY <1>0, <1>12 DEF TypeOK, Kill
  <1>13. ASSUME NEW c \in Cmds, KillerCloses(c) PROVE Framed(d)'
    BY <1>0, <1>13 DEF TypeOK, KillerCloses, ForceClosed, Closed
  <1>14. CASE Stop  BY <1>0, <1>14 DEF Stop, TypeOK
  <1>15. CASE UNCHANGED vars  BY <1>0, <1>15 DEF vars
  <1> QED
    BY <1>1, <1>2, <1>3, <1>4, <1>5, <1>6, <1>7, <1>8, <1>9, <1>10, <1>11, <1>12, <1>13, <1>14, <1>15
       DEF Next, Read, Ends, Killer

-----------------------------------------------------------------------------
(* The bytes of the output.                                                *)
LEMMA AccountedStep ==
  ASSUME IInv, [Next]_vars, NEW d \in Cmds
  PROVE  Accounted(d)'
  <1> USE DEF Accounted, Complete, packetVars, outputVars
  <1>0. TypeOK /\ Framed(d) /\ Accounted(d) /\ Tidy(d)  BY DEF IInv
  <1>1. ASSUME NEW c \in Cmds, OnMessage(c) PROVE Accounted(d)'
    BY <1>0, <1>1 DEF TypeOK, OnMessage, Failure
  <1>2. ASSUME NEW c \in Cmds, Start(c) PROVE Accounted(d)'
    BY <1>0, <1>2 DEF TypeOK, Start
  <1>3. ASSUME NEW c \in Cmds, Open(c) PROVE Accounted(d)'
    BY <1>0, <1>3 DEF TypeOK, Open
  <1>4. ASSUME NEW c \in Cmds, ReadHeader(c) PROVE Accounted(d)'
    <2>1. PICK kk \in Kinds, n \in Sizes[c] :
            /\ kind' = [kind EXCEPT ![c] = kk]
            /\ size' = [size EXCEPT ![c] = n]
            /\ IF left[c] = 0 THEN left' = [left EXCEPT ![c] = n]
               ELSE \E m \in {0, left[c]} : left' = [left EXCEPT ![c] = m]
            /\ garbled' = [garbled EXCEPT ![c] = @ \/ n >= IntLimit]
            /\ wrote' = [wrote EXCEPT ![c] = IF kk = "output" THEN @ + n ELSE @]
            /\ over' = [over EXCEPT ![c] = @ \/ ToInt(n) > MaxPacket]
      BY <1>4 DEF ReadHeader
    <2>2. n \in 0 .. 2 * IntLimit - 1
      OBVIOUS
    <2>3. task[c] = "header" /\ task' = [task EXCEPT ![c] = "payload"]
          /\ UNCHANGED <<got, cut, exited, reply>>
      BY <1>4 DEF ReadHeader
    <2>4. (garbled[c] \/ n >= IntLimit) \in BOOLEAN /\ (over[c] \/ ToInt(n) > MaxPacket) \in BOOLEAN
      OBVIOUS
    <2>5. garbled'[c] <=> garbled[c] \/ n >= IntLimit
      BY <1>0, <2>1, <2>4, Zenon DEF TypeOK
    <2>6. over'[c] <=> over[c] \/ ToInt(n) > MaxPacket
      BY <1>0, <2>1, <2>4, Zenon DEF TypeOK
    <2>7. n < IntLimit => ToInt(n) = n
      BY <2>2, Lengths
    <2>8. CASE d = c
      <3>1. task'[c] = "payload" /\ kind'[c] = kk /\ size'[c] = n
            /\ wrote'[c] = (IF kk = "output" THEN wrote[c] + n ELSE wrote[c])
        BY <1>0, <2>1, <2>3 DEF TypeOK
      <3>2. ~garbled'[c] => over'[c] \/ cut'[c] \/ got'[c] = wrote[c]
        BY <1>0, <2>3, <2>5, <2>6, <2>8
      <3>3. ~exited'[c] /\ ~reply'[c].exited
        BY <1>0, <2>3, <2>8 DEF Tidy
      <3>4. got'[c] \in Nat /\ wrote[c] \in Nat /\ n \in Nat
        BY <1>0, <2>2, <2>3 DEF TypeOK
      <3> QED
        BY <2>8, <3>1, <3>2, <3>3, <3>4
    <2>9. CASE d # c
      BY <1>0, <2>1, <2>3, <2>9 DEF TypeOK
    <2> QED
      BY <2>8, <2>9
  <1>5. ASSUME NEW c \in Cmds, ReadPayload(c) PROVE Accounted(d)'
    BY <1>0, <1>5, Lengths DEF TypeOK, ReadPayload
  <1>6. ASSUME NEW c \in Cmds, Dispatch(c) PROVE Accounted(d)'
    <2> DEFINE n == SafeLength(size[c])
    <2>1. task[c] = "draining" /\ UNCHANGED <<reply, garbled, wrote, over>>
          /\ \A b \in Cmds : b # c => task'[b] = task[b] /\ kind'[b] = kind[b]
               /\ size'[b] = size[b] /\ exited'[b] = exited[b]
      BY <1>0, <1>6 DEF Dispatch, Forget, TypeOK
    <2>2. task'[c] \in {"closing", "header"} /\ (task'[c] = "closing" => kind[c] = "exit" \/ ~exited'[c])
      BY <1>0, <1>6 DEF Dispatch, TypeOK
    <2>3. exited'[c] => kind[c] = "exit"
      BY <1>0, <1>6 DEF Dispatch, TypeOK
    <2>4. n \in Nat /\ (~garbled[c] /\ ~over[c] => n = size[c])
      <3>1. Framed(c) /\ size[c] \in 0 .. 2 * IntLimit - 1
        BY <1>0 DEF IInv, TypeOK
      <3>2. ~garbled[c] /\ ~over[c] => size[c] <= MaxPacket
        BY <1>0, <2>1, <3>1 DEF Framed, TypeOK
      <3> QED
        BY <3>1, <3>2, Lengths
    <2> HIDE DEF n
    <2>5. CASE d # c
      <3>1. got'[d] = got[d] /\ cut'[d] = cut[d]
        BY <1>0, <1>6, <2>5 DEF Dispatch, Keep, TypeOK
      <3> QED
        BY <1>0, <2>1, <2>5, <3>1
    <2>6. CASE d = c /\ kind[c] = "output"
      <3>1. cut'[c] \/ (~cut[c] /\ got'[c] = got[c] + n)
        <4>1. Keep(c, n)
          BY <1>6, <2>6 DEF Dispatch, n
        <4>2. CASE cut[c] \/ n = 0
          BY <1>0, <2>4, <4>1, <4>2 DEF Keep, TypeOK
        <4>3. CASE ~(cut[c] \/ n = 0)
          <5>1. /\ got' = [got EXCEPT ![c] = IF @ + n > MaxOutput THEN MaxOutput ELSE @ + n]
                /\ cut' = [cut EXCEPT ![c] = got[c] + n > MaxOutput]
            BY <4>1, <4>3 DEF Keep
          <5>2. (got[c] + n > MaxOutput) \in BOOLEAN
            BY <1>0, <2>4 DEF TypeOK
          <5>3. cut'[c] <=> got[c] + n > MaxOutput
            BY <1>0, <5>1, <5>2, Zenon DEF TypeOK
          <5>4. got[c] + n > MaxOutput \/ got'[c] = got[c] + n
            BY <1>0, <2>4, <5>1 DEF TypeOK
          <5> QED
            BY <1>0, <4>3, <5>3, <5>4 DEF TypeOK
        <4> QED
          BY <4>2, <4>3
      <3> QED
        BY <1>0, <2>1, <2>2, <2>3, <2>4, <2>6, <3>1 DEF TypeOK, Tidy
    <2>7. CASE d = c /\ kind[c] # "output"
      BY <1>0, <1>6, <2>1, <2>2, <2>3, <2>7 DEF Dispatch, Tidy, TypeOK
    <2> QED
      BY <2>5, <2>6, <2>7
  <1>7. ASSUME NEW c \in Cmds, EndOfStream(c) PROVE Accounted(d)'
    BY <1>0, <1>7 DEF TypeOK, EndOfStream, Forget
  <1>8. ASSUME NEW c \in Cmds, ReadThrows(c) PROVE Accounted(d)'
    BY <1>0, <1>8 DEF Tidy, TypeOK, ReadThrows, Forget, Reading
  <1>9. ASSUME NEW c \in Cmds, Finish(c) PROVE Accounted(d)'
    BY <1>0, <1>9 DEF TypeOK, Finish, Closed
  <1>10. ASSUME NEW c \in Cmds, Reply(c) PROVE Accounted(d)'
    BY <1>0, <1>10 DEF TypeOK, Reply, Failure
  <1>11. ASSUME NEW c \in Cmds, TimeoutDue(c) PROVE Accounted(d)'
    BY <1>0, <1>11 DEF TypeOK, TimeoutDue
  <1>12. ASSUME NEW c \in Cmds, Kill(c) PROVE Accounted(d)'
    BY <1>0, <1>12 DEF TypeOK, Kill
  <1>13. ASSUME NEW c \in Cmds, KillerCloses(c) PROVE Accounted(d)'
    BY <1>0, <1>13 DEF TypeOK, KillerCloses, ForceClosed, Closed
  <1>14. CASE Stop  BY <1>0, <1>14 DEF Stop, TypeOK
  <1>15. CASE UNCHANGED vars  BY <1>0, <1>15 DEF vars
  <1> QED
    BY <1>1, <1>2, <1>3, <1>4, <1>5, <1>6, <1>7, <1>8, <1>9, <1>10, <1>11, <1>12, <1>13, <1>14, <1>15
       DEF Next, Read, Ends, Killer

-----------------------------------------------------------------------------
(* The stream and the killer.                                              *)
LEMMA TidyStep ==
  ASSUME IInv, [Next]_vars, NEW d \in Cmds
  PROVE  Tidy(d)'
  <1> USE DEF Tidy, packetVars, outputVars
  <1>0. TypeOK /\ Tidy(d)  BY DEF IInv
  <1>1. ASSUME NEW c \in Cmds, OnMessage(c) PROVE Tidy(d)'
    BY <1>0, <1>1 DEF TypeOK, OnMessage, Failure
  <1>2. ASSUME NEW c \in Cmds, Start(c) PROVE Tidy(d)'
    BY <1>0, <1>2 DEF TypeOK, Start
  <1>3. ASSUME NEW c \in Cmds, Open(c) PROVE Tidy(d)'
    BY <1>0, <1>3 DEF TypeOK, Open
  <1>4. ASSUME NEW c \in Cmds, ReadHeader(c) PROVE Tidy(d)'
    BY <1>0, <1>4 DEF TypeOK, ReadHeader
  <1>5. ASSUME NEW c \in Cmds, ReadPayload(c) PROVE Tidy(d)'
    BY <1>0, <1>5 DEF TypeOK, ReadPayload
  <1>6. ASSUME NEW c \in Cmds, Dispatch(c) PROVE Tidy(d)'
    BY <1>0, <1>6 DEF TypeOK, Dispatch, Forget, Keep
  <1>7. ASSUME NEW c \in Cmds, EndOfStream(c) PROVE Tidy(d)'
    BY <1>0, <1>7 DEF TypeOK, EndOfStream, Forget
  <1>8. ASSUME NEW c \in Cmds, ReadThrows(c) PROVE Tidy(d)'
    BY <1>0, <1>8 DEF TypeOK, ReadThrows, Forget, Reading
  <1>9. ASSUME NEW c \in Cmds, Finish(c) PROVE Tidy(d)'
    BY <1>0, <1>9 DEF TypeOK, Finish, Closed
  <1>10. ASSUME NEW c \in Cmds, Reply(c) PROVE Tidy(d)'
    BY <1>0, <1>10 DEF TypeOK, Reply, Failure
  <1>11. ASSUME NEW c \in Cmds, TimeoutDue(c) PROVE Tidy(d)'
    BY <1>0, <1>11 DEF TypeOK, TimeoutDue
  <1>12. ASSUME NEW c \in Cmds, Kill(c) PROVE Tidy(d)'
    BY <1>0, <1>12 DEF TypeOK, Kill
  <1>13. ASSUME NEW c \in Cmds, KillerCloses(c) PROVE Tidy(d)'
    BY <1>0, <1>13 DEF TypeOK, KillerCloses, ForceClosed, Closed
  <1>14. CASE Stop  BY <1>0, <1>14 DEF Stop, TypeOK
  <1>15. CASE UNCHANGED vars  BY <1>0, <1>15 DEF vars
  <1> QED
    BY <1>1, <1>2, <1>3, <1>4, <1>5, <1>6, <1>7, <1>8, <1>9, <1>10, <1>11, <1>12, <1>13, <1>14, <1>15
       DEF Next, Read, Ends, Killer

-----------------------------------------------------------------------------
(* A read begins with its killer, and only closing the stream ends it.     *)
LEMMA GuardStep ==
  ASSUME IInv, [Next]_vars
  PROVE  ReadsAreGuarded'
  <1> SUFFICES ASSUME NEW d \in Cmds, task'[d] \in Reading, live'
               PROVE  \/ stream'[d] = "closed"
                      \/ killer'[d] \in {"sleeping", "due", "closing"}
    BY DEF ReadsAreGuarded
  <1> DEFINE Goal == stream'[d] = "closed" \/ killer'[d] \in {"sleeping", "due", "closing"}
  <1> USE DEF packetVars, outputVars, Reading
  <1>0. /\ task \in [Cmds -> TaskPCs] /\ killer \in [Cmds -> Killers]
        /\ stream \in [Cmds -> {"none", "open", "closed"}]
    BY DEF IInv, TypeOK
  <1>1. task[d] \in Reading /\ live =>
          stream[d] = "closed" \/ killer[d] \in {"sleeping", "due", "closing"}
    BY DEF IInv, ReadsAreGuarded
  <1>k. ASSUME UNCHANGED <<live, killer, stream>>, task[d] \in Reading PROVE Goal
    BY <1>1, <1>k
  <1>2. ASSUME NEW c \in Cmds, OnMessage(c) PROVE Goal
    BY <1>0, <1>2, <1>k DEF OnMessage
  <1>3. ASSUME NEW c \in Cmds, Start(c) \/ Reply(c) \/ Finish(c) PROVE Goal
    <2>1. c # d /\ UNCHANGED live /\ task'[d] = task[d]
      BY <1>0, <1>3 DEF Start, Reply, Finish
    <2>2. killer'[d] = killer[d] /\ stream'[d] = stream[d]
      BY <1>0, <1>3, <2>1 DEF Start, Reply, Finish, Closed
    <2> QED  BY <1>1, <2>1, <2>2
  <1>4. ASSUME NEW c \in Cmds, Open(c) PROVE Goal
    <2>1. CASE c = d
      BY <1>0, <1>4, <2>1 DEF Open
    <2>2. CASE c # d
      BY <1>0, <1>1, <1>4, <2>2 DEF Open
    <2> QED  BY <2>1, <2>2
  <1>5. ASSUME NEW c \in Cmds, Read(c) \/ Ends(c) PROVE Goal
    <2>1. UNCHANGED <<live, killer, stream>>
      BY <1>5 DEF Read, Ends, ReadHeader, ReadPayload, Dispatch, EndOfStream, ReadThrows
    <2>2. task[c] \in Reading /\ \A b \in Cmds : b # c => task'[b] = task[b]
      BY <1>0, <1>5 DEF Read, Ends, ReadHeader, ReadPayload, Dispatch, EndOfStream,
         ReadThrows
    <2> QED  BY <1>k, <2>1, <2>2
  <1>6. ASSUME NEW c \in Cmds, Killer(c) PROVE Goal
    <2>1. UNCHANGED <<live, task>>
      BY <1>6 DEF Killer, TimeoutDue, Kill, KillerCloses
    <2>2. \/ killer'[d] = killer[d] /\ stream'[d] = stream[d]
          \/ killer'[d] \in {"due", "closing"} /\ stream' = stream
          \/ stream'[d] = "closed"
      BY <1>0, <1>6 DEF Killer, TimeoutDue, Kill, KillerCloses, ForceClosed, Closed
    <2> QED  BY <1>1, <2>1, <2>2
  <1>7. CASE Stop
    BY <1>7 DEF Stop
  <1>8. CASE UNCHANGED vars
    BY <1>k, <1>8 DEF vars
  <1> QED  BY <1>2, <1>3, <1>4, <1>5, <1>6, <1>7, <1>8 DEF Next

-----------------------------------------------------------------------------
(* The inductive invariant holds throughout.                               *)
THEOREM ShellInvariant == Spec => []IInv
  <1>1. IInv /\ [Next]_vars => IInv'
    <2> SUFFICES ASSUME IInv, [Next]_vars PROVE IInv'  OBVIOUS
    <2>1. \A c \in Cmds : Framed(c)' /\ Accounted(c)' /\ Tidy(c)'
      BY FramedStep, AccountedStep, TidyStep
    <2> QED  BY <2>1, TypeStep, GuardStep DEF IInv
  <1> QED  BY InitInv, <1>1, PTL DEF Spec

(* The types, and the cap on what is kept of the output.                   *)
THEOREM ShellTypes == Spec => []TypeOK
  <1>1. IInv => TypeOK  BY DEF IInv
  <1> QED  BY <1>1, ShellInvariant, PTL

(* Only a length of 2^31 or more makes payload bytes be read as a header.  *)
THEOREM FramingHolds == Spec => []OnlyHugeLengthsUnframe
  <1>1. IInv => OnlyHugeLengthsUnframe
    BY DEF IInv, Framed, OnlyHugeLengthsUnframe
  <1> QED  BY <1>1, ShellInvariant, PTL

(* A result with an exit code is complete or marked.                       *)
THEOREM ResultsAreHonest == Spec => []HonestResult
  <1>1. IInv => HonestResult  BY DEF IInv, Accounted, HonestResult
  <1> QED  BY <1>1, ShellInvariant, PTL

(* A command that is over holds neither a stream nor a killer.             *)
THEOREM EndsAreClean == Spec => []CleanEnd
  <1>1. IInv => CleanEnd  BY DEF IInv, Tidy, CleanEnd
  <1> QED  BY <1>1, ShellInvariant, PTL

(* No command reads with no killer left to end the read.                   *)
THEOREM ReadsHaveKillers == Spec => []ReadsAreGuarded
  <1>1. IInv => ReadsAreGuarded  BY DEF IInv
  <1> QED  BY <1>1, ShellInvariant, PTL

(* A command that was answered is not answered again.                      *)
THEOREM AnsweredOnce == Spec => OneReply
  <1> DEFINE Kept == \A c \in Cmds : reply[c].sent => reply'[c] = reply[c]
  <1>1. ASSUME IInv, [Next]_vars, NEW d \in Cmds, reply[d].sent
        PROVE  reply'[d] = reply[d]
    <2>1. task[d] = "done"
      BY <1>1 DEF IInv, Tidy
    <2>2. reply \in [Cmds -> [exited : BOOLEAN, truncated : BOOLEAN, sent : BOOLEAN]]
      BY <1>1 DEF IInv, TypeOK
    <2>3. ASSUME NEW c \in Cmds, OnMessage(c) PROVE reply'[d] = reply[d]
      BY <2>1, <2>2, <2>3 DEF OnMessage
    <2>4. ASSUME NEW c \in Cmds, Reply(c) PROVE reply'[d] = reply[d]
      BY <2>1, <2>2, <2>4 DEF Reply
    <2>5. ASSUME NEW c \in Cmds,
                 Start(c) \/ Open(c) \/ Read(c) \/ Ends(c) \/ Finish(c) \/ Killer(c)
          PROVE  reply' = reply
      BY <2>5 DEF Start, Open, Read, ReadHeader, ReadPayload, Dispatch, Ends, EndOfStream,
         ReadThrows, Finish, Killer, TimeoutDue, Kill, KillerCloses
    <2>6. Stop \/ UNCHANGED vars => reply' = reply
      BY DEF Stop, vars
    <2> QED  BY <1>1, <2>3, <2>4, <2>5, <2>6 DEF Next
  <1>2. IInv /\ [Next]_vars => [Kept]_vars
    BY <1>1
  <1> QED  BY <1>2, ShellInvariant, PTL DEF Spec, OneReply
=============================================================================
