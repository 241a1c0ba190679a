---------------------------- MODULE ReleaseProofs ----------------------------
(***************************************************************************)
(* Proofs about ReleaseCache, for every set of releases and of failures.   *)
(***************************************************************************)
EXTENDS ReleaseProps, TLAPS

(* A release can be told from None, and what it says from its fields.      *)
LEMMA PointerType ==
    /\ \A o \in Offers : o \in Pointers /\ Pointer(o) = o /\ o # None
    /\ \A p \in Pointers : /\ p # None /\ p.tag \in Tags /\ p.apk \in Names
                           /\ p.pre \in BOOLEAN
                           /\ Release(p) \in [tag : Tags, path : Names]
<1> USE ReleaseAssumption DEF ReleaseAssumption, Names, Tags
<1>1. ASSUME NEW o \in Offers
      PROVE  o \in Pointers /\ Pointer(o) = o /\ o # None
  BY DEF Pointers, Pointer
<1>2. ASSUME NEW p \in Pointers
      PROVE  /\ p # None /\ p.tag \in Tags /\ p.apk \in Names
             /\ p.pre \in BOOLEAN
             /\ Release(p) \in [tag : Tags, path : Names]
  <2>1. p \in [tag : Tags, apk : Names, pre : BOOLEAN]
    <3>1. CASE p \in Offers
      BY <3>1
    <3>2. ASSUME NEW o \in Offers, p = [tag |-> o.tag, apk |-> Legacy, pre |-> FALSE]
          PROVE  p \in [tag : Tags, apk : Names, pre : BOOLEAN]
      <4>1. o.tag \in Nat \ {0}
        OBVIOUS
      <4> QED BY <3>2, <4>1
    <3> QED BY <3>1, <3>2 DEF Pointers
  <2> QED BY <2>1 DEF Release
<1> QED BY <1>1, <1>2

(* An empty cache, or the one an older server left, is of its type.        *)
LEMMA TypeInit == Init => TypeOK /\ WorkInv
<1> SUFFICES ASSUME Init PROVE TypeOK /\ WorkInv
  OBVIOUS
<1> USE ReleaseAssumption DEF ReleaseAssumption
<1>1. meta \in Pointers \cup {None}
  BY DEF Init, Pointers
<1> QED BY <1>1 DEF Init, TypeOK, WorkInv, PCs, Starting, Recovering

(* Nothing else moves the current release or the option while a job runs,  *)
(* the file a job put there is its own until it is published, and no step  *)
(* removes a file that a pointer or a request still needs.                 *)
LEMMA InvStep == RInv /\ [Next]_vars => RInv'
<1> SUFFICES ASSUME RInv, [Next]_vars PROVE RInv'
  OBVIOUS
<1> USE ReleaseAssumption, PointerType DEF RInv, TypeOK, WorkInv, JobInv, CreatedInv, SwapInv, StartInv,
        PointersResolve, ServedFilesExist, ServesWhatItSays, Unshared, Newer,
        Acceptable, Usable, Present, Bytes, Serving, Installed, Starting,
        Recovering, Names, PCs, Ok, Fails, Mishap, disk, memory, outside,
        ReleaseAssumption
<1>1. ASSUME StartStep PROVE RInv'
  <2>1. CASE Boot
    BY <2>1 DEF Boot
  <2>2. CASE SkipRecovery
    BY <2>2 DEF SkipRecovery, Recovered
  <2>3. CASE Judge
    BY <2>3 DEF Judge, Complete
  <2>4. CASE Finalize
    BY <2>4 DEF Finalize, Recovered
  <2>5. CASE Drop
    BY <2>5 DEF Drop, Recovered
  <2>6. CASE Restore
    BY <2>6 DEF Restore, Recovered
  <2>7. CASE Sweep
    BY <2>7 DEF Sweep, RemoveTmps
  <2>8. CASE Load
    <3>1. meta \in Pointers /\ current' = Release(meta) => ServesWhatItSays'
      BY <2>8 DEF Load, Release
    <3>2. ServesWhatItSays'
      BY <2>8, <3>1 DEF Load
    <3>3. TypeOK' /\ WorkInv' /\ JobInv' /\ CreatedInv' /\ SwapInv'
      BY <2>8 DEF Load
    <3>4. PointersResolve' /\ ServedFilesExist' /\ StartInv'
      BY <2>8 DEF Load, Release
    <3> QED BY <3>2, <3>3, <3>4
  <2>9. CASE CleanupDone
    BY <2>9 DEF CleanupDone, Orphans
  <2>10. ASSUME NEW a \in Apks, RemoveOrphan(a) PROVE RInv'
    BY <2>10 DEF RemoveOrphan, Orphans
  <2> QED BY <1>1, <2>1, <2>2, <2>3, <2>4, <2>5, <2>6, <2>7, <2>8, <2>9, <2>10
          DEF StartStep
<1>2. ASSUME PublishStep PROVE RInv'
  <2>1. CASE Download
    BY <2>1 DEF Download
  <2>2. CASE DownloadFails
    BY <2>2 DEF DownloadFails
  <2>3. CASE Accept
    BY <2>3 DEF Accept
  <2>4. CASE Reject
    BY <2>4 DEF Reject
  <2>5. CASE Reuse
    BY <2>5 DEF Reuse
  <2>6. CASE Install
    BY <2>6 DEF Install
  <2>7. CASE InstallFails
    BY <2>7 DEF InstallFails
  <2>8. CASE Swap
    BY <2>8 DEF Swap, IfBackup
  <2>9. CASE Check
    BY <2>9 DEF Check
  <2>10. CASE Backup
    BY <2>10 DEF Backup
  <2>11. CASE Point
    BY <2>11 DEF Point
  <2>12. CASE PointFails
    BY <2>12 DEF PointFails
  <2>13. CASE RollBack
    BY <2>13 DEF RollBack, MoveBack
  <2>14. CASE DropBackup
    BY <2>14 DEF DropBackup
  <2>15. CASE Publish
    <3>1. job \in Offers /\ current' = Release(job)
      BY <2>15 DEF Publish
    <3>2. ServesWhatItSays'
      BY <2>15, <3>1 DEF Publish, Release
    <3>3. TypeOK' /\ WorkInv' /\ JobInv' /\ CreatedInv' /\ SwapInv'
      BY <2>15, <3>1 DEF Publish
    <3>4. PointersResolve' /\ ServedFilesExist' /\ StartInv'
      BY <2>15 DEF Publish, Release
    <3> QED BY <3>2, <3>3, <3>4
  <2>16. CASE Undo
    BY <2>16 DEF Undo, Unpublished
  <2>17. CASE Tidy
    BY <2>17 DEF Tidy, RemoveTmps
  <2> QED BY <1>2, <2>1, <2>2, <2>3, <2>4, <2>5, <2>6, <2>7, <2>8, <2>9, <2>10,
          <2>11, <2>12, <2>13, <2>14, <2>15, <2>16, <2>17 DEF PublishStep
<1>3. ASSUME NEW o \in Offers, Select(o) PROVE RInv'
  BY <1>3 DEF Select, Highest, Offered
<1>4. ASSUME OutsideStep PROVE RInv'
  <2>1. CASE Stop
    BY <2>1 DEF Stop
  <2>2. CASE Get
    BY <2>2 DEF Get
  <2>3. ASSUME NEW name \in Names, RequestEnds(name) PROVE RInv'
    BY <2>3 DEF RequestEnds
  <2>4. ASSUME NEW o \in Offers, Announce(o) \/ Withdraw(o) PROVE RInv'
    BY <2>4 DEF Announce, Withdraw
  <2> QED BY <1>4, <2>1, <2>2, <2>3, <2>4 DEF OutsideStep
<1>5. CASE UNCHANGED vars
  BY <1>5 DEF vars
<1> QED BY <1>1, <1>2, <1>3, <1>4, <1>5 DEF Next, ServerStep

(* The server starts with nothing in memory and its files accounted for.   *)
LEMMA InvInit == Init => RInv
<1> SUFFICES ASSUME Init PROVE RInv
  OBVIOUS
<1>1. TypeOK /\ WorkInv
  BY TypeInit
<1>2. meta # None => LegacyApk # None /\ meta.apk = Legacy
  BY DEF Init
<1> QED BY <1>1, <1>2 DEF Init, RInv, JobInv, CreatedInv, SwapInv, StartInv,
       PointersResolve, ServedFilesExist, ServesWhatItSays, Present, Serving,
       Installed, Recovering, Starting

-----------------------------------------------------------------------------
(* The theorems.                                                           *)

(* The server keeps the whole invariant, whatever fails.                   *)
THEOREM Invariance == Spec => []RInv
<1> QED BY InvInit, InvStep, PTL DEF Spec

(* Every variable keeps its type.                                          *)
THEOREM TypeCorrect == Spec => []TypeOK
<1>1. RInv => TypeOK
  BY DEF RInv
<1> QED BY <1>1, Invariance, PTL

(* The metadata and its backup always name files that exist.               *)
THEOREM Resolving == Spec => []PointersResolve
<1>1. RInv => PointersResolve
  BY DEF RInv
<1> QED BY <1>1, Invariance, PTL

(* A request finds the file of the release it was given.                   *)
THEOREM RequestsServed == Spec => []ServedFilesExist
<1>1. RInv => ServedFilesExist
  BY DEF RInv
<1> QED BY <1>1, Invariance, PTL

(* The current release is there, and is what its tag says.                 *)
THEOREM ServedIsTrue == Spec => []ServesWhatItSays
<1>1. RInv => ServesWhatItSays
  BY DEF RInv
<1> QED BY <1>1, Invariance, PTL

(* Once there is a pair to restore, there is one for ever.                 *)
THEOREM AlwaysRecoverable == Spec => LastGoodKept
<1>1. RInv => (Recoverable <=> meta # None \/ bak # None)
  BY DEF RInv, PointersResolve, Recoverable
<1>2. ASSUME RInv, [Next]_vars, meta # None \/ bak # None
      PROVE  meta' # None \/ bak' # None
  <2> USE <1>2, ReleaseAssumption, PointerType DEF RInv, TypeOK, SwapInv, Usable,
          disk, memory, outside, ReleaseAssumption
  <2>1. CASE StartStep
    BY <2>1 DEF StartStep, Boot, SkipRecovery, Judge, Finalize, Drop, Restore,
       Sweep, Load, CleanupDone, RemoveOrphan
  <2>2. CASE PublishStep
    <3>1. CASE Backup \/ RollBack \/ DropBackup
      BY <3>1 DEF Backup, RollBack, MoveBack, DropBackup, WorkInv, Starting, Recovering
    <3>2. CASE Point
      <4>1. job \in Offers
        BY <3>2 DEF Point, WorkInv, Starting, Recovering
      <4> QED BY <3>2, <4>1 DEF Point
    <3>3. CASE ~(Backup \/ RollBack \/ DropBackup \/ Point)
      BY <2>2, <3>3 DEF PublishStep, Download, DownloadFails, Accept, Reject,
         Reuse, Install, InstallFails, Swap, Check, PointFails, Publish, Undo, Tidy
    <3> QED BY <3>1, <3>2, <3>3
  <2>3. CASE OutsideStep
    BY <2>3 DEF OutsideStep, Stop, Get, RequestEnds, Announce, Withdraw
  <2>4. CASE UNCHANGED vars
    BY <2>4 DEF vars
  <2>5. ASSUME NEW o \in Offers, Select(o) PROVE meta' # None \/ bak' # None
    BY <2>5 DEF Select
  <2> QED BY <2>1, <2>2, <2>3, <2>4, <2>5 DEF Next, ServerStep
<1>3. RInv /\ RInv' /\ [Next]_vars => [Recoverable => Recoverable']_vars
  <2> SUFFICES ASSUME RInv, RInv', [Next]_vars, Recoverable PROVE Recoverable'
    OBVIOUS
  <2>1. meta # None \/ bak # None
    BY <1>1
  <2>2. meta' # None \/ bak' # None
    BY <1>2, <2>1
  <2> QED BY <2>2 DEF RInv, PointersResolve, Recoverable
<1> QED BY <1>3, Invariance, PTL DEF Spec, LastGoodKept

(* While the server runs, only a greater tag and versionCode replace what  *)
(* it serves.                                                              *)
THEOREM Climbing == Spec => VersionsClimb
<1> DEFINE Climb == current # None /\ current' # None /\ current' # current =>
                      /\ current'.tag > current.tag
                      /\ CodeOf[Bytes(current'.path)] > CodeOf[Bytes(current.path)]
<1>1. ASSUME RInv, [Next]_vars PROVE Climb
  <2> USE <1>1 DEF disk, memory, outside
  <2>1. CASE Publish
    <3>1. job \in Offers /\ Acceptable(job) /\ current' = Release(job) /\ job.apk # Legacy
      BY <2>1, ReleaseAssumption, PointerType DEF Publish, RInv, TypeOK, WorkInv, JobInv,
         Installed, Starting, Recovering, ReleaseAssumption
    <3> QED BY <3>1 DEF Acceptable, Newer, Release, Bytes
  <2>2. CASE Load
    BY <2>2 DEF RInv, StartInv, WorkInv, Starting, Load
  <2>3. CASE Stop
    BY <2>3 DEF Stop
  <2>4. CASE ~(Publish \/ Load \/ Stop)
    <3>1. UNCHANGED current
      BY <2>4 DEF Next, ServerStep, StartStep, PublishStep, OutsideStep, vars,
         Boot, SkipRecovery, Judge, Finalize, Drop, Restore, Sweep, CleanupDone,
         RemoveOrphan, Select, Download, DownloadFails, Accept, Reject, Reuse,
         Install, InstallFails, Swap, Check, Backup, Point, PointFails, RollBack,
         DropBackup, Undo, Tidy, Get, RequestEnds, Announce, Withdraw
    <3> QED BY <3>1
  <2> QED BY <2>1, <2>2, <2>3, <2>4
<1>2. RInv /\ [Next]_vars => [Climb]_vars
  BY <1>1
<1> QED BY <1>2, Invariance, PTL DEF Spec, VersionsClimb

(* A release whose APK is not what its tag says, or not newer, is never    *)
(* installed, whatever fails while it is looked at.                        *)
THEOREM MisbuiltIsHarmless == Spec => MisbuiltChangesNothing
<1> DEFINE Same == job # None /\ Misbuilt(job) /\ pc' # "down"
                     => UNCHANGED <<meta, bak, files, current>>
<1>1. ASSUME RInv, [Next]_vars, job # None, Misbuilt(job), pc' # "down"
      PROVE  UNCHANGED <<meta, bak, files, current>>
  <2>1. ~Acceptable(job)
    <3>1. job \in Offers /\ CodeOf[job.apk] \in Nat
      BY <1>1, ReleaseAssumption DEF RInv, TypeOK, ReleaseAssumption
    <3>2. current # None => CodeOf[Bytes(current.path)] \in Nat
      <4>1. current # None => Bytes(current.path) \in Apks
        BY <1>1, ReleaseAssumption DEF RInv, TypeOK, ServesWhatItSays, Present, Bytes, Names,
           ReleaseAssumption
      <4> QED BY <4>1, ReleaseAssumption DEF ReleaseAssumption
    <3> QED BY <1>1, <3>1, <3>2 DEF Misbuilt, Acceptable
  <2>2. pc \in {"downloading", "validating", "tidying"}
    BY <1>1, <2>1 DEF RInv, TypeOK, WorkInv, JobInv, Installed, Starting, Recovering, PCs
  <2>3. CASE Download \/ DownloadFails \/ Reject \/ Tidy
    BY <2>3 DEF Download, DownloadFails, Reject, Tidy, disk, memory
  <2>4. CASE ~(Download \/ DownloadFails \/ Reject \/ Tidy)
    <3>1. OutsideStep \/ UNCHANGED vars
      BY <1>1, <2>1, <2>2, <2>4 DEF Next, ServerStep, StartStep, PublishStep, Boot,
         SkipRecovery, Judge, Finalize, Drop, Restore, Sweep, Load, CleanupDone,
         RemoveOrphan, Select, Accept, Reuse, Install, InstallFails, Swap, Check, Backup,
         Point, PointFails, RollBack, DropBackup, Publish, Undo
    <3> QED BY <1>1, <3>1 DEF OutsideStep, Stop, Get, RequestEnds, Announce, Withdraw,
               vars, disk, memory
  <2> QED BY <2>3, <2>4
<1>2. RInv /\ [Next]_vars => [Same]_vars
  BY <1>1
<1> QED BY <1>2, Invariance, PTL DEF Spec, MisbuiltChangesNothing

-----------------------------------------------------------------------------
(* The refinement: the cache is one atomic pointer.                        *)

(* What is served stays usable as long as it has a backup.                 *)
LEMMA PairStep ==
    ASSUME RInv, PairInv, [Next]_vars
    PROVE  PairInv'
<1> USE ReleaseAssumption, PointerType DEF RInv, TypeOK, WorkInv, JobInv, CreatedInv,
        SwapInv, StartInv, PointersResolve, PairInv, Unshared, Newer,
        Acceptable, Usable, Present, Bytes, Installed, Starting, Recovering,
        Names, PCs, Ok, Fails, Mishap, disk, memory, outside, ReleaseAssumption
<1>1. ASSUME StartStep PROVE PairInv'
  <2>1. CASE Boot \/ SkipRecovery \/ Sweep \/ CleanupDone
    BY <2>1 DEF Boot, SkipRecovery, Recovered, Sweep, CleanupDone
  <2>2. CASE Judge
    BY <2>2 DEF Judge, Complete
  <2>3. CASE Finalize
    BY <2>3 DEF Finalize, Recovered
  <2>4. CASE Drop
    BY <2>4 DEF Drop, Recovered
  <2>5. CASE Restore
    BY <2>5 DEF Restore, Recovered
  <2>6. CASE Load
    BY <2>6 DEF Load
  <2>7. ASSUME NEW a \in Apks, RemoveOrphan(a) PROVE PairInv'
    BY <2>7 DEF RemoveOrphan, Orphans
  <2> QED BY <1>1, <2>1, <2>2, <2>3, <2>4, <2>5, <2>6, <2>7 DEF StartStep
<1>2. ASSUME PublishStep PROVE PairInv'
  <2>1. CASE Download \/ DownloadFails \/ Accept \/ Reject \/ Reuse \/ InstallFails
    BY <2>1 DEF Download, DownloadFails, Accept, Reject, Reuse, InstallFails
  <2>2. CASE Install
    BY <2>2 DEF Install
  <2>3. CASE Swap \/ Check \/ PointFails
    BY <2>3 DEF Swap, IfBackup, Check, PointFails
  <2>4. CASE Backup
    BY <2>4 DEF Backup
  <2>5. CASE Point
    BY <2>5 DEF Point
  <2>6. CASE RollBack
    BY <2>6 DEF RollBack, MoveBack
  <2>7. CASE DropBackup
    BY <2>7 DEF DropBackup
  <2>8. CASE Publish
    BY <2>8 DEF Publish, Release
  <2>9. CASE Undo
    BY <2>9 DEF Undo, Unpublished
  <2>10. CASE Tidy
    BY <2>10 DEF Tidy
  <2> QED BY <1>2, <2>1, <2>2, <2>3, <2>4, <2>5, <2>6, <2>7, <2>8, <2>9, <2>10
          DEF PublishStep
<1>3. ASSUME NEW o \in Offers, Select(o) PROVE PairInv'
  BY <1>3 DEF Select
<1>4. ASSUME OutsideStep PROVE PairInv'
  BY <1>4 DEF OutsideStep, Stop, Get, RequestEnds, Announce, Withdraw
<1>5. CASE UNCHANGED vars
  BY <1>5 DEF vars
<1> QED BY <1>1, <1>2, <1>3, <1>4, <1>5 DEF Next, ServerStep

(* A release may be shown when its version is right and its channel open.  *)
LEMMA ShownIfUsable ==
    ASSUME TypeOK, NEW p \in Pointers
    PROVE  <<p, preview>> \in MayShow <=>
             /\ p.pre => preview
             /\ Bytes(p.apk) \in Apks
             /\ VersionOf[Bytes(p.apk)] = p.tag
BY DEF MayShow, TypeOK

(* A step meets at most one mishap.                                        *)
LEMMA Counted ==
    ASSUME [Next]_vars
    PROVE  mishaps' \in {mishaps, mishaps + 1}
BY DEF Ok, Fails, Mishap, Next, ServerStep, StartStep, PublishStep, OutsideStep,
   vars, Boot, SkipRecovery, Judge, Finalize, Drop, Restore, Sweep, Load,
   CleanupDone, RemoveTmps, RemoveOrphan, Select, Download, DownloadFails, Accept,
   Reject, Reuse, Install, InstallFails, Swap, Check, Backup, Point, PointFails,
   RollBack, DropBackup, Publish, Undo, Tidy, Stop, Get, RequestEnds, Announce,
   Withdraw

(* Every step of the server is one of the atomic cache, or hidden from it. *)
LEMMA CacheStep ==
    ASSUME RInv, PairInv, [Next]_vars
    PROVE  [Cache!ANext]_(Cache!avars)
<1> USE ReleaseAssumption, PointerType DEF RInv, TypeOK, disk, memory, outside,
        ReleaseAssumption
<1> DEFINE Hidden == UNCHANGED <<Durable, current, preview>>
<1>m. pc # "dropping" /\ pc' # "dropping" => Misread = FALSE /\ Misread' = FALSE
  BY DEF Misread
<1>c. mishaps' \in {mishaps, mishaps + 1}
  BY Counted
<1>h. Hidden /\ pc # "dropping" /\ pc' # "dropping" => [Cache!ANext]_(Cache!avars)
  BY <1>m, <1>c DEF Cache!Trust, Cache!ANext
<1>1. ASSUME StartStep PROVE [Cache!ANext]_(Cache!avars)
  <2>1. CASE Boot
    <3>1. Cache!Configure
      BY <2>1, <1>m DEF Boot, StartInv, WorkInv, Durable, Cache!Configure
    <3> QED BY <3>1, <1>c DEF Cache!ANext
  <2>2. CASE SkipRecovery \/ Sweep \/ CleanupDone
    BY <2>2, <1>h DEF SkipRecovery, Recovered, Sweep, CleanupDone, Durable
  <2>3. CASE Finalize
    BY <2>3, <1>h DEF Finalize, Recovered, SwapInv, Usable, Durable
  <2>8. CASE Judge
    <3>1. Hidden /\ Misread = FALSE
      BY <2>8 DEF Judge, Durable, Misread
    <3>2. CASE pc' # "dropping"
      BY <2>8, <3>1, <3>2, <1>h DEF Judge
    <3>3. CASE pc' = "dropping" /\ Usable(meta)
      <4>1. Misread' = TRUE /\ Durable # None
        BY <2>8, <3>3 DEF Judge, Misread, Usable, Present, Durable
      <4>2. Cache!Mistrust
        BY <2>8, <3>1, <3>3, <4>1 DEF Judge, Complete, Fails, Mishap, Ok, Cache!Mistrust
      <4> QED BY <4>2, <1>c DEF Cache!ANext
    <3>4. CASE pc' = "dropping" /\ ~Usable(meta)
      <4>1. Misread' = FALSE
        BY <2>8, <3>4 DEF Judge, Misread, Usable, Present
      <4>2. Cache!Trust
        BY <3>1, <4>1 DEF Cache!Trust
      <4> QED BY <4>2, <1>c DEF Cache!ANext
    <3> QED BY <3>2, <3>3, <3>4
  <2>4. CASE Drop
    <3>1. bak \in Pointers
      BY <2>4 DEF Drop, SwapInv
    <3>2. Misread' = FALSE /\ UNCHANGED <<current, preview>>
      BY <2>4 DEF Drop, Recovered, Misread
    <3>3. CASE meta = None \/ UNCHANGED meta
      <4>1. UNCHANGED Durable
        BY <2>4, <3>3 DEF Drop, Durable
      <4>2. Cache!Trust
        BY <3>2, <4>1 DEF Cache!Trust
      <4> QED BY <4>2, <1>c DEF Cache!ANext
    <3>4. CASE meta # None /\ meta' = None
      <4>1. Misread = TRUE \/ (current = None /\ ~Usable(meta))
        BY <2>4, <3>1, <3>4 DEF Drop, PairInv, Misread
      <4>2. ~Usable(meta) => <<meta, preview>> \notin MayShow
        BY <3>4, ShownIfUsable DEF Usable, PointersResolve
      <4>3. Durable = meta /\ Durable' = bak
        BY <2>4, <3>4 DEF Drop, Durable
      <4>4. Cache!FallBack(bak)
        BY <3>2, <3>4, <4>1, <4>2, <4>3 DEF Cache!FallBack
      <4> QED BY <3>1, <4>4, <1>c DEF Cache!ANext
    <3> QED BY <2>4, <3>3, <3>4 DEF Drop
  <2>5. CASE Restore
    BY <2>5, <1>h DEF Restore, Recovered, SwapInv, Durable
  <2>6. CASE Load
    <3>1. CASE UNCHANGED current
      BY <2>6, <3>1, <1>h DEF Load, Durable
    <3>2. CASE Usable(meta) /\ current' = Release(meta)
      <4>1. <<meta, preview>> \in MayShow
        BY <3>2, ShownIfUsable DEF Usable, Present, Bytes
      <4>2. Durable = meta /\ UNCHANGED <<Durable, preview>>
        BY <2>6, <3>2 DEF Load, Usable, Durable
      <4>3. Misread = FALSE /\ UNCHANGED Misread
        BY <2>6, <1>m DEF Load
      <4>4. Cache!Show
        BY <3>2, <4>1, <4>2, <4>3 DEF Usable, Release, Cache!Show
      <4> QED BY <4>4, <1>c DEF Cache!ANext
    <3> QED BY <2>6, <3>1, <3>2 DEF Load
  <2>7. ASSUME NEW a \in Apks, RemoveOrphan(a) PROVE [Cache!ANext]_(Cache!avars)
    BY <2>7, <1>h DEF RemoveOrphan, Durable
  <2> QED BY <1>1, <2>1, <2>2, <2>3, <2>4, <2>5, <2>6, <2>7, <2>8 DEF StartStep
<1>2. ASSUME PublishStep PROVE [Cache!ANext]_(Cache!avars)
  <2>1. CASE Download \/ DownloadFails \/ Accept \/ Reject \/ Reuse \/ Install
               \/ InstallFails \/ Undo \/ Tidy
    BY <2>1, <1>h DEF Download, DownloadFails, Accept, Reject, Reuse, Install,
       InstallFails, Undo, Tidy, Durable
  <2>2. CASE Swap \/ Check \/ PointFails
    BY <2>2, <1>h DEF Swap, IfBackup, Check, PointFails, Durable
  <2>3. CASE Backup
    BY <2>3, <1>h DEF Backup, SwapInv, Durable
  <2>4. CASE Point
    <3>1. job \in Offers /\ Acceptable(job) /\ (job.pre => preview)
      BY <2>4 DEF Point, WorkInv, JobInv, Installed, Starting, Recovering
    <3>2. job \in Pointers /\ Pointer(job) = job /\ job # None /\ job.apk # Legacy
      BY <3>1
    <3>3. <<job, preview>> \in MayShow
      BY <3>1, <3>2, ShownIfUsable DEF Acceptable, Bytes
    <3>4. Durable' = job /\ UNCHANGED <<current, preview>>
      BY <2>4, <3>2 DEF Point, Durable
    <3>5. current # None => <<job, current>> \in MayReplace
      BY <3>1, <3>2 DEF Acceptable, Newer, MayReplace, Bytes
    <3>6. Misread = FALSE /\ UNCHANGED Misread
      BY <2>4, <1>m DEF Point
    <3>7. Cache!Commit(job)
      BY <3>3, <3>4, <3>5, <3>6 DEF Cache!Commit
    <3> QED BY <3>2, <3>7, <1>c DEF Cache!ANext
  <2>5. CASE RollBack
    BY <2>5, <1>h DEF RollBack, MoveBack, SwapInv, Durable
  <2>6. CASE DropBackup
    <3>1. job \in Offers /\ meta = job
      BY <2>6 DEF DropBackup, WorkInv, SwapInv, Starting, Recovering
    <3> QED BY <2>6, <3>1, <1>h DEF DropBackup, Durable
  <2>7. CASE Publish
    <3>1. job \in Offers /\ meta = job /\ Acceptable(job) /\ (job.pre => preview)
      BY <2>7 DEF Publish, WorkInv, JobInv, SwapInv, Installed, Starting, Recovering
    <3>2. job \in Pointers /\ Pointer(job) = job /\ job # None /\ job.apk # Legacy
      BY <3>1
    <3>3. <<job, preview>> \in MayShow
      BY <3>1, <3>2, ShownIfUsable DEF Acceptable, Bytes
    <3>4. Durable = job /\ UNCHANGED <<Durable, preview>>
      BY <2>7, <3>1, <3>2 DEF Publish, Durable
    <3>5. current' = [tag |-> job.tag, path |-> job.apk]
      BY <2>7, <3>2 DEF Publish, Release
    <3>6. Misread = FALSE /\ UNCHANGED Misread
      BY <2>7, <1>m DEF Publish
    <3>7. Cache!Show
      BY <3>2, <3>3, <3>4, <3>5, <3>6 DEF Cache!Show
    <3> QED BY <3>7, <1>c DEF Cache!ANext
  <2> QED BY <1>2, <2>1, <2>2, <2>3, <2>4, <2>5, <2>6, <2>7 DEF PublishStep
<1>3. ASSUME NEW o \in Offers, Select(o) PROVE [Cache!ANext]_(Cache!avars)
  BY <1>3, <1>h DEF Select, Durable
<1>4. ASSUME OutsideStep PROVE [Cache!ANext]_(Cache!avars)
  <2>1. CASE Stop
    <3>1. Misread' = FALSE
      BY <2>1 DEF Stop, Misread
    <3>2. Cache!Forget
      BY <2>1, <3>1 DEF Stop, Durable, Cache!Forget
    <3> QED BY <3>2, <1>c DEF Cache!ANext
  <2>2. CASE ~Stop
    <3>1. UNCHANGED <<disk, memory, pc, preview>>
      BY <1>4, <2>2 DEF OutsideStep, Get, RequestEnds, Announce, Withdraw
    <3>2. UNCHANGED <<Durable, Misread>>
      BY <3>1 DEF Durable, Misread, Usable, Present
    <3>3. CASE Misread
      <4>1. Durable # None
        BY <3>3 DEF Misread, Usable, Durable
      <4>2. CASE mishaps' = mishaps + 1
        <5>1. Misread' = TRUE
          BY <3>2, <3>3
        <5>2. Cache!Mistrust
          BY <3>1, <3>2, <4>1, <4>2, <5>1 DEF Cache!Mistrust
        <5> QED BY <5>2, <1>c DEF Cache!ANext
      <4>3. CASE mishaps' = mishaps
        BY <3>1, <3>2, <4>3 DEF Cache!avars
      <4> QED BY <4>2, <4>3, <1>c
    <3>4. CASE ~Misread
      <4>1. Misread' = FALSE
        BY <3>2, <3>4
      <4>2. Cache!Trust
        BY <3>1, <3>2, <4>1 DEF Cache!Trust
      <4> QED BY <4>2, <1>c DEF Cache!ANext
    <3> QED BY <3>3, <3>4
  <2> QED BY <2>1, <2>2
<1>5. CASE UNCHANGED vars
  <2>1. UNCHANGED <<Durable, Misread, current, preview, mishaps>>
    BY <1>5 DEF vars, Durable, Misread, Usable, Present
  <2> QED BY <2>1 DEF Cache!avars
<1> QED BY <1>1, <1>2, <1>3, <1>4, <1>5 DEF Next, ServerStep

(* The metadata, its backup and the recovery behave as one pointer that is *)
(* replaced atomically, by a greater release while one is served, and that *)
(* survives stops; a failed read puts it in doubt.                         *)
THEOREM AtomicPointer == Spec => RefinesAtomicCache
<1>1. Init => RInv /\ PairInv
  <2> SUFFICES ASSUME Init PROVE RInv /\ PairInv
    OBVIOUS
  <2>1. RInv
    BY InvInit
  <2> QED BY <2>1 DEF Init, PairInv
<1>2. RInv /\ PairInv /\ [Next]_vars => RInv' /\ PairInv'
  BY InvStep, PairStep
<1>3. Init => Cache!AInit
  <2> SUFFICES ASSUME Init PROVE Cache!AInit
    OBVIOUS
  <2>1. TypeOK
    BY TypeInit
  <2>2. Misread = FALSE
    BY DEF Init, Misread
  <2> QED BY <2>1, <2>2 DEF Init, TypeOK, Durable, Cache!AInit
<1>4. RInv /\ PairInv /\ [Next]_vars => [Cache!ANext]_(Cache!avars)
  BY CacheStep
<1> QED BY <1>1, <1>2, <1>3, <1>4, PTL DEF Spec, RefinesAtomicCache, Cache!Spec

(* A failed read is all that gets a usable pair dropped.                   *)
LEMMA TrustStep ==
    ASSUME "read" \notin Faults, TrustInv, [Next]_vars
    PROVE  TrustInv'
<1> USE DEF TrustInv, Usable, Present, disk, memory, outside, Ok, Fails
<1>1. CASE Judge
  BY <1>1 DEF Judge, Complete
<1>2. CASE UNCHANGED <<pc, meta, files, preview>>
  BY <1>2
<1>3. CASE pc' # "dropping"
  BY <1>3
<1> QED BY <1>1, <1>2, <1>3
        DEF Next, ServerStep, StartStep, PublishStep, OutsideStep, vars, Boot,
        SkipRecovery, Recovered, Finalize, Drop, Restore, Sweep, Load, CleanupDone,
        RemoveOrphan, Select, Download, DownloadFails, Accept, Reject, Reuse,
        Install, InstallFails, Swap, IfBackup, Check, Backup, Point, PointFails,
        RollBack, DropBackup, Publish, Undo, Tidy, Stop, Get, RequestEnds,
        Announce, Withdraw

(* What requests were given is on disk, for the next start to find: a      *)
(* property of the atomic pointer, and so of the cache that implements it. *)
LEMMA CoveredStep ==
    ASSUME TypeOK, TypeOK', TrustInv, ShownIsDurable, [Cache!ANext]_(Cache!avars)
    PROVE  ShownIsDurable'
<1>1. /\ Durable # None => Durable.tag \in Nat
      /\ Durable' # None => Durable'.tag \in Nat
      /\ current # None => current.tag \in Nat
  BY PointerType DEF TypeOK, Durable, Tags
<1> USE DEF ShownIsDurable, Cache!Covered
<1>2. CASE Cache!Configure \/ Cache!Forget \/ Cache!Mistrust \/ Cache!Trust
  BY <1>2 DEF Cache!Configure, Cache!Forget, Cache!Mistrust, Cache!Trust
<1>3. CASE Cache!Show
  BY <1>1, <1>3 DEF Cache!Show
<1>4. ASSUME NEW p \in Pointers, Cache!Commit(p) PROVE ShownIsDurable'
  <2>1. p # None /\ p.tag \in Nat
    BY PointerType DEF Tags
  <2> QED BY <1>1, <1>4, <2>1 DEF Cache!Commit, MayReplace
<1>5. ASSUME NEW p \in Pointers, Cache!FallBack(p) PROVE ShownIsDurable'
  BY <1>5 DEF Cache!FallBack, TrustInv, Misread
<1>6. CASE UNCHANGED Cache!avars
  BY <1>6 DEF Cache!avars
<1> QED BY <1>2, <1>3, <1>4, <1>5, <1>6 DEF Cache!ANext

(* Nothing that was shown is lost to a crash, unless a read fails.         *)
THEOREM RestartShowsNoOlder ==
    ASSUME "read" \notin Faults
    PROVE  Spec => []ShownIsDurable
<1>1. Cache!AInit => ShownIsDurable
  BY DEF Cache!AInit, ShownIsDurable, Cache!Covered
<1>2. Init => TrustInv
  BY DEF Init, TrustInv
<1>3. TrustInv /\ [Next]_vars => TrustInv'
  BY TrustStep
<1>4. TypeOK /\ TypeOK' /\ TrustInv /\ ShownIsDurable /\ [Cache!ANext]_(Cache!avars)
        => ShownIsDurable'
  BY CoveredStep
<1>5. Spec => RefinesAtomicCache
  BY AtomicPointer
<1> QED BY <1>1, <1>2, <1>3, <1>4, <1>5, TypeCorrect, PTL
        DEF Spec, RefinesAtomicCache, Cache!Spec

-----------------------------------------------------------------------------
(* What stops alone cannot do to the durable release.                      *)

(* Without failed reads, removals and renames a publication starts without *)
(* a backup and knows what is on disk.                                     *)
LEMMA KeptStep ==
    ASSUME Faults \cap {"read", "remove", "rename"} = {}, RInv, KeptInv, [Next]_vars
    PROVE  KeptInv'
<1> USE ReleaseAssumption, PointerType DEF RInv, TypeOK, WorkInv, JobInv, CreatedInv,
        SwapInv, StartInv, PointersResolve, KeptInv, TrustInv, Durable, Unshared, Newer,
        Acceptable, Usable, Present, Bytes, Installed, Starting, Recovering,
        Names, PCs, Ok, Fails, Mishap, disk, memory, outside, ReleaseAssumption
<1>1. ASSUME StartStep PROVE KeptInv'
  <2>1. CASE Boot \/ SkipRecovery \/ CleanupDone
    BY <2>1 DEF Boot, SkipRecovery, Recovered, CleanupDone
  <2>2. CASE Judge
    BY <2>2 DEF Judge, Complete
  <2>3. CASE Finalize
    BY <2>3 DEF Finalize, Recovered
  <2>4. CASE Drop
    BY <2>4 DEF Drop, Recovered
  <2>5. CASE Restore
    BY <2>5 DEF Restore, Recovered
  <2>6. CASE Load
    BY <2>6 DEF Load
  <2>7. CASE Sweep
    BY <2>7 DEF Sweep
  <2>8. ASSUME NEW a \in Apks, RemoveOrphan(a) PROVE KeptInv'
    BY <2>8 DEF RemoveOrphan, Orphans, Release
  <2> QED BY <1>1, <2>1, <2>2, <2>3, <2>4, <2>5, <2>6, <2>7, <2>8 DEF StartStep
<1>2. ASSUME PublishStep PROVE KeptInv'
  <2>1. CASE Download \/ DownloadFails \/ Accept \/ Reject \/ Reuse \/ InstallFails
    BY <2>1 DEF Download, DownloadFails, Accept, Reject, Reuse, InstallFails
  <2>2. CASE Install
    BY <2>2 DEF Install
  <2>3. CASE Swap \/ Check \/ PointFails \/ RollBack
    BY <2>3 DEF Swap, IfBackup, Check, PointFails, RollBack, MoveBack
  <2>4. CASE Backup
    BY <2>4 DEF Backup
  <2>5. CASE Point
    BY <2>5 DEF Point
  <2>6. CASE DropBackup
    BY <2>6 DEF DropBackup
  <2>7. CASE Publish
    BY <2>7 DEF Publish, Release
  <2>8. CASE Undo
    BY <2>8 DEF Undo, Unpublished
  <2>9. CASE Tidy
    BY <2>9 DEF Tidy
  <2> QED BY <1>2, <2>1, <2>2, <2>3, <2>4, <2>5, <2>6, <2>7, <2>8, <2>9 DEF PublishStep
<1>3. ASSUME NEW o \in Offers, Select(o) PROVE KeptInv'
  BY <1>3 DEF Select
<1>4. ASSUME OutsideStep PROVE KeptInv'
  BY <1>4 DEF OutsideStep, Stop, Get, RequestEnds, Announce, Withdraw
<1>5. CASE UNCHANGED vars
  BY <1>5 DEF vars
<1> QED BY <1>1, <1>2, <1>3, <1>4, <1>5 DEF Next, ServerStep

(* Only the new metadata replaces a usable release, and then the release   *)
(* replaced is the one that is served.                                     *)
LEMMA DurableClimbs ==
    ASSUME RInv, KeptInv, [Next]_vars, Usable(Durable), Durable' # Durable
    PROVE  /\ Durable' # None
           /\ Durable'.tag > Durable.tag
           /\ CodeOf[Bytes(Durable'.apk)] > CodeOf[Bytes(Durable.apk)]
<1>1. Durable \in Pointers
  BY DEF RInv, TypeOK, Durable, Usable
<1>2. CASE Drop
  BY <1>2 DEF Drop, KeptInv, TrustInv, Durable
<1>3. CASE Point
  <2>1. job \in Offers /\ job # None /\ job.apk # Legacy /\ Acceptable(job)
    BY <1>3, ReleaseAssumption, PointerType DEF Point, RInv, TypeOK, WorkInv, JobInv,
       Installed, Starting, Recovering, ReleaseAssumption
  <2>2. Durable' = job
    BY <1>3, <2>1, PointerType DEF Point, Durable
  <2>3. current # None /\ current.tag = Durable.tag /\ current.path = Durable.apk
    BY <1>3 DEF Point, KeptInv, Release, Recovering
  <2> QED BY <2>1, <2>2, <2>3 DEF Acceptable, Newer, Bytes
<1>4. CASE ~(Drop \/ Point)
  <2>1. Durable' = Durable
    <3>1. CASE Finalize \/ Restore \/ Backup \/ RollBack \/ DropBackup
      BY <3>1, PointerType DEF Finalize, Restore, Backup, RollBack, MoveBack,
         DropBackup, Durable, RInv, TypeOK, SwapInv, WorkInv, Usable, Pointer,
         Starting, Recovering
    <3>2. CASE UNCHANGED <<meta, bak>>
      BY <3>2 DEF Durable
    <3> QED BY <1>4, <3>1, <3>2
        DEF Next, ServerStep, StartStep, PublishStep, OutsideStep, vars, disk,
        memory, outside, Boot, SkipRecovery, Judge, Sweep, Load, CleanupDone,
        RemoveOrphan, Select, Download, DownloadFails, Accept, Reject, Reuse,
        Install, InstallFails, Swap, Check, PointFails, Publish, Undo, Tidy,
        Stop, Get, RequestEnds, Announce, Withdraw
  <2> QED BY <2>1
<1> QED BY <1>2, <1>3, <1>4

(* However often and wherever the process stops, a cached release is only  *)
(* replaced by one of a greater tag and versionCode, unless a read, a      *)
(* removal or a rename fails.                                              *)
THEOREM StopsLoseNothing ==
    ASSUME Faults \cap {"read", "remove", "rename"} = {}
    PROVE  Spec => ReplacementsClimb
<1> DEFINE Climb == Usable(Durable) /\ Durable' # Durable =>
                        /\ Durable' # None
                        /\ Durable'.tag > Durable.tag
                        /\ CodeOf[Bytes(Durable'.apk)] > CodeOf[Bytes(Durable.apk)]
<1>1. Init => RInv /\ KeptInv
  <2> SUFFICES ASSUME Init PROVE RInv /\ KeptInv
    OBVIOUS
  <2>1. RInv
    BY InvInit
  <2> QED BY <2>1 DEF Init, KeptInv, TrustInv, Recovering
<1>2. RInv /\ KeptInv /\ [Next]_vars => RInv' /\ KeptInv'
  BY InvStep, KeptStep
<1>3. RInv /\ KeptInv /\ [Next]_vars => [Climb]_vars
  BY DurableClimbs
<1> QED BY <1>1, <1>2, <1>3, PTL DEF Spec, ReplacementsClimb

=============================================================================
