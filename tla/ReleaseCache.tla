---------------------------- MODULE ReleaseCache ----------------------------
(***************************************************************************)
(* The public server's release source                                      *)
(* (server/internal/release/source.go): polling GitHub, caching the APK    *)
(* and its metadata on disk, recovering the cache after an interruption.   *)
(*                                                                         *)
(* Each action is one file system operation (or one critical section) of   *)
(* the polling goroutine; the process may stop between any two, and any    *)
(* operation may fail.  Requests take the current release and open its     *)
(* file meanwhile.  A stopped process loses its memory, never the disk:    *)
(* losing power is outside what the cache promises.                        *)
(*                                                                         *)
(* A file is named by its SHA-256, so an APK is its own immutable name.    *)
(* Legacy is the fixed name agent.apk that older servers cached under.     *)
(* A tag is its version, a number.  Bug_X operators are mistakes for the   *)
(* mutation runs, used nowhere else.                                       *)
(***************************************************************************)
EXTENDS Integers

CONSTANTS
    Apks,         \* the APK files there are
    VersionOf,    \* their versionName, as the tag it belongs to; 0: unusable
    CodeOf,       \* their versionCode
    Offers,       \* releases GitHub may list: [tag, apk, pre]
    Legacy,       \* the name agent.apk
    LegacyApk,    \* the APK an older server left there, or None
    Previews,     \* values RELEASE_INCLUDE_PRERELEASE may have at a start
    Withdrawals,  \* a listed release may be withdrawn
    Faults,       \* the operations that may fail, a subset of FaultKinds
    MaxMishaps,   \* bound: failures, crashes and withdrawals together
    None

FaultKinds == {"net", "read", "write", "rename", "remove"}
Tags == Nat \ {0}
Names == Apks \cup {Legacy}

ASSUME ReleaseAssumption ==
    /\ VersionOf \in [Apks -> Nat]
    /\ CodeOf \in [Apks -> Nat]
    /\ Offers \subseteq [tag : Tags, apk : Apks, pre : BOOLEAN]
    /\ Legacy \notin Apks
    /\ LegacyApk \in Apks \cup {None}
    /\ Previews \subseteq BOOLEAN /\ Previews # {}
    /\ Withdrawals \in BOOLEAN
    /\ Faults \subseteq FaultKinds
    /\ MaxMishaps \in Nat
    /\ None \notin Apks \cup Offers \cup [tag : Tags, apk : Names, pre : BOOLEAN]
                        \cup [tag : Tags, path : Names]

VARIABLES
    meta,     \* release.json
    bak,      \* release.json.bak
    files,    \* the immutable APK files in the cache directory
    tmps,     \* the temporary files: "apk", "meta"
    current,  \* Source.current
    pc,       \* where the polling goroutine is
    job,      \* the release downloadAndPublish is working on
    created,  \* createdAPK: the files this job put in the cache
    preview,  \* opts.IncludePrerelease
    feed,     \* the releases GitHub lists
    held,     \* the paths of the releases that requests have taken
    mishaps   \* failures, crashes and withdrawals so far

disk    == <<meta, bak, files, tmps>>
memory  == <<current, job, created>>
outside == <<preview, feed, held>>
vars    == <<disk, memory, pc, outside, mishaps>>

PCs == {"down", "recovering", "finalizing", "dropping", "restoring",
        "sweeping", "loading", "cleaning", "polling", "downloading",
        "validating", "installing", "swapping", "checking", "backing",
        "pointing", "rolling", "committed", "publishing", "undoing", "tidying"}

(* The process has not started; an older server may have left its cache,   *)
(* written without care for the pair to match.                             *)
Init ==
    /\ meta \in {None} \cup
                (IF LegacyApk = None THEN {}
                 ELSE {[tag |-> o.tag, apk |-> Legacy, pre |-> FALSE] : o \in Offers})
    /\ bak = None /\ files = {} /\ tmps = {}
    /\ current = None /\ job = None /\ created = {}
    /\ pc = "down"
    /\ preview \in Previews
    /\ feed = {} /\ held = {}
    /\ mishaps = 0

Ok == UNCHANGED mishaps

Mishap == mishaps < MaxMishaps /\ mishaps' = mishaps + 1

Fails(kind) == kind \in Faults /\ Mishap

-----------------------------------------------------------------------------
(* readCachedRelease.                                                      *)

Bytes(name) == IF name = Legacy THEN LegacyApk ELSE name

Present(name) == IF name = Legacy THEN LegacyApk # None ELSE name \in files

Usable(m) ==
    /\ m # None
    /\ m.pre => preview
    /\ Present(m.apk)
    /\ VersionOf[Bytes(m.apk)] = m.tag

Release(m) == [tag |-> m.tag, path |-> m.apk]

-----------------------------------------------------------------------------
(* Start: recover, remove temporary files, load, clean up.                 *)

Boot ==
    /\ pc = "down"
    /\ pc' = "recovering"
    /\ preview' \in Previews
    /\ UNCHANGED <<disk, memory, feed, held, mishaps>>

(* recoverInterruptedCacheSwap returns to Start, or to a pending swap.     *)
Recovered == IF job = None THEN "sweeping" ELSE "checking"

SkipRecovery ==
    /\ pc = "recovering"
    /\ (bak = None /\ Ok) \/ Fails("read")
    /\ pc' = Recovered
    /\ UNCHANGED <<disk, memory, outside>>

(* A complete live pair wins; one that cannot be read is not complete.     *)
Bug_BackupWins == FALSE
Complete == Usable(meta)

Judge ==
    /\ pc = "recovering"
    /\ bak # None
    /\ \/ Complete /\ Ok /\ pc' = "finalizing"
       \/ ~Complete /\ Ok /\ pc' = "dropping"
       \/ Fails("read") /\ pc' = "dropping"
    /\ UNCHANGED <<disk, memory, outside>>

Finalize ==
    /\ pc = "finalizing"
    /\ \/ Ok /\ bak' = None
       \/ Fails("remove") /\ UNCHANGED bak
    /\ pc' = Recovered
    /\ UNCHANGED <<meta, files, tmps, memory, outside>>

Drop ==
    /\ pc = "dropping"
    /\ \/ Ok /\ meta' = None /\ pc' = "restoring"
       \/ Fails("remove") /\ UNCHANGED meta /\ pc' = Recovered
    /\ UNCHANGED <<bak, files, tmps, memory, outside>>

Restore ==
    /\ pc = "restoring"
    /\ \/ Ok /\ meta' = bak /\ bak' = None
       \/ Fails("rename") /\ UNCHANGED <<meta, bak>>
    /\ pc' = Recovered
    /\ UNCHANGED <<files, tmps, memory, outside>>

RemoveTmps ==
    \/ Ok /\ tmps' = {}
    \/ Fails("remove") /\ tmps' \in SUBSET tmps

Sweep ==
    /\ pc = "sweeping"
    /\ RemoveTmps
    /\ pc' = "loading"
    /\ UNCHANGED <<meta, bak, files, memory, outside>>

Load ==
    /\ pc = "loading"
    /\ \/ Usable(meta) /\ Ok /\ current' = Release(meta)
       \/ ~Usable(meta) /\ Ok /\ UNCHANGED current
       \/ Fails("read") /\ UNCHANGED current
    /\ pc' = "cleaning"
    /\ UNCHANGED <<disk, job, created, outside>>

(* What cleanupOrphanedImmutableAPKs may remove: nothing without a current *)
(* release or with a backup left.                                          *)
Orphans ==
    IF current = None \/ bak # None THEN {} ELSE files \ {current.path}

RemoveOrphan(a) ==
    /\ pc = "cleaning"
    /\ a \in Orphans
    /\ files' = files \ {a}
    /\ UNCHANGED <<meta, bak, tmps, memory, pc, outside, mishaps>>

(* A failure leaves the orphans that are still there.                      *)
CleanupDone ==
    /\ pc = "cleaning"
    /\ (Orphans = {} /\ Ok) \/ Fails("read") \/ Fails("remove")
    /\ pc' = "polling"
    /\ UNCHANGED <<disk, memory, outside>>

-----------------------------------------------------------------------------
(* refresh and downloadAndPublish.                                         *)

Offered == {o \in feed : o.pre => preview}

Highest(o) == o \in Offered /\ \A p \in Offered : p.tag <= o.tag

Newer(o) == current # None => o.tag > current.tag

(* A poll that fails, or finds nothing newer, changes nothing.             *)
Select(o) ==
    /\ pc = "polling"
    /\ Highest(o)
    /\ Newer(o)
    /\ job' = o
    /\ pc' = "downloading"
    /\ UNCHANGED <<disk, current, created, outside, mishaps>>

DownloadFails ==
    /\ pc = "downloading"
    /\ Fails("net")
    /\ job' = None
    /\ pc' = "polling"
    /\ UNCHANGED <<disk, current, created, outside>>

Download ==
    /\ pc = "downloading"
    /\ tmps' = tmps \cup {"apk"}
    /\ \/ Ok /\ pc' = "validating"
       \/ Fails("write") /\ pc' = "tidying"
    /\ UNCHANGED <<meta, bak, files, memory, outside>>

Bug_CodeUnchecked(o) == VersionOf[o.apk] = o.tag /\ Newer(o)
Bug_NameUnchecked(o) ==
    Newer(o) /\ (current # None => CodeOf[o.apk] > CodeOf[Bytes(current.path)])
Acceptable(o) ==
    /\ VersionOf[o.apk] = o.tag
    /\ Newer(o)
    /\ current # None => CodeOf[o.apk] > CodeOf[Bytes(current.path)]

Accept ==
    /\ pc = "validating"
    /\ Acceptable(job)
    /\ tmps' = tmps \cup {"meta"}
    /\ \/ Ok /\ pc' = "installing"
       \/ Fails("write") /\ pc' = "tidying"
    /\ UNCHANGED <<meta, bak, files, memory, outside>>

Reject ==
    /\ pc = "validating"
    /\ (~Acceptable(job) /\ Ok) \/ Fails("read")
    /\ pc' = "tidying"
    /\ UNCHANGED <<disk, memory, outside>>

(* installPreparedAPK: a file already there is the same file.              *)
Reuse ==
    /\ pc = "installing"
    /\ job.apk \in files
    /\ Ok
    /\ pc' = "swapping"
    /\ UNCHANGED <<disk, memory, outside>>

Install ==
    /\ pc = "installing"
    /\ job.apk \notin files
    /\ Ok
    /\ files' = files \cup {job.apk}
    /\ tmps' = tmps \ {"apk"}
    /\ created' = {job.apk}
    /\ pc' = "swapping"
    /\ UNCHANGED <<meta, bak, current, job, outside>>

InstallFails ==
    /\ pc = "installing"
    /\ Fails("read") \/ (job.apk \notin files /\ Fails("rename"))
    /\ pc' = "tidying"
    /\ UNCHANGED <<disk, memory, outside>>

-----------------------------------------------------------------------------
(* swapPreparedMetadata.                                                   *)

(* A backup left behind is reconciled first, and refused if it stays.      *)
Bug_NotReconciled == "undoing"
IfBackup == "recovering"

Swap ==
    /\ pc = "swapping"
    /\ \/ bak = None /\ Ok /\ pc' = "backing"
       \/ bak # None /\ Ok /\ pc' = IfBackup
       \/ Fails("read") /\ pc' = "undoing"
    /\ UNCHANGED <<disk, memory, outside>>

Check ==
    /\ pc = "checking"
    /\ \/ bak = None /\ Ok /\ pc' = "backing"
       \/ bak # None /\ Ok /\ pc' = "undoing"
       \/ Fails("read") /\ pc' = "undoing"
    /\ UNCHANGED <<disk, memory, outside>>

Backup ==
    /\ pc = "backing"
    /\ \/ /\ meta # None /\ Ok
          /\ bak' = meta /\ meta' = None
          /\ pc' = "pointing"
       \/ meta = None /\ Ok /\ pc' = "pointing" /\ UNCHANGED <<meta, bak>>
       \/ Fails("rename") /\ pc' = "undoing" /\ UNCHANGED <<meta, bak>>
    /\ UNCHANGED <<files, tmps, memory, outside>>

Pointer(o) == [tag |-> o.tag, apk |-> o.apk, pre |-> o.pre]

(* hadOld: there is a backup, which is dropped or else restored.           *)
Point ==
    /\ pc = "pointing"
    /\ Ok
    /\ meta' = Pointer(job)
    /\ tmps' = tmps \ {"meta"}
    /\ pc' = IF bak # None THEN "committed" ELSE "publishing"
    /\ UNCHANGED <<bak, files, memory, outside>>

PointFails ==
    /\ pc = "pointing"
    /\ Fails("rename")
    /\ pc' = IF bak # None THEN "rolling" ELSE "undoing"
    /\ UNCHANGED <<disk, memory, outside>>

Bug_NotRolledBack == bak' = None /\ UNCHANGED meta
MoveBack == meta' = bak /\ bak' = None

RollBack ==
    /\ pc = "rolling"
    /\ \/ Ok /\ MoveBack
       \/ Fails("rename") /\ UNCHANGED <<meta, bak>>
    /\ pc' = "undoing"
    /\ UNCHANGED <<files, tmps, memory, outside>>

DropBackup ==
    /\ pc = "committed"
    /\ \/ Ok /\ bak' = None
       \/ Fails("remove") /\ UNCHANGED bak
    /\ pc' = "publishing"
    /\ UNCHANGED <<meta, files, tmps, memory, outside>>

Bug_OldRemoved ==
    /\ pc = "publishing"
    /\ current' = Release(Pointer(job))
    /\ files' = IF current = None THEN files ELSE files \ {current.path}
    /\ pc' = "tidying"
    /\ UNCHANGED <<meta, bak, tmps, job, created, outside, mishaps>>
Publish ==
    /\ pc = "publishing"
    /\ current' = Release(Pointer(job))
    /\ pc' = "tidying"
    /\ UNCHANGED <<disk, job, created, outside, mishaps>>

(* An APK file this job did not create is not its to remove.               *)
Bug_AlwaysUnpublished == files \ {job.apk}
Unpublished == files \ created

Undo ==
    /\ pc = "undoing"
    /\ \/ Ok /\ files' = Unpublished
       \/ Fails("remove") /\ UNCHANGED files
    /\ pc' = "tidying"
    /\ UNCHANGED <<meta, bak, tmps, memory, outside>>

(* The deferred removal of the temporary files.                            *)
Tidy ==
    /\ pc = "tidying"
    /\ RemoveTmps
    /\ job' = None /\ created' = {}
    /\ pc' = "polling"
    /\ UNCHANGED <<meta, bak, files, current, outside>>

-----------------------------------------------------------------------------
(* The process stops, by a signal or a crash, at any point.                *)
Stop ==
    /\ pc # "down"
    /\ Mishap
    /\ pc' = "down"
    /\ current' = None /\ job' = None /\ created' = {} /\ held' = {}
    /\ UNCHANGED <<disk, preview, feed>>

(* A request calls Get, and later serves the file at Path, once Start has  *)
(* returned.                                                               *)
Serving == pc = "polling" \/ job # None

Get ==
    /\ Serving
    /\ current # None
    /\ held' = held \cup {current.path}
    /\ UNCHANGED <<disk, memory, pc, preview, feed, mishaps>>

RequestEnds(name) ==
    /\ name \in held
    /\ held' = held \ {name}
    /\ UNCHANGED <<disk, memory, pc, preview, feed, mishaps>>

(* GitHub: a tag names one release.                                        *)
Announce(o) ==
    /\ \A p \in feed : p.tag # o.tag
    /\ feed' = feed \cup {o}
    /\ UNCHANGED <<disk, memory, pc, preview, held, mishaps>>

Withdraw(o) ==
    /\ Withdrawals
    /\ o \in feed
    /\ Mishap
    /\ feed' = feed \ {o}
    /\ UNCHANGED <<disk, memory, pc, preview, held>>

-----------------------------------------------------------------------------
StartStep ==
    \/ Boot \/ SkipRecovery \/ Judge \/ Finalize \/ Drop \/ Restore
    \/ Sweep \/ Load \/ CleanupDone
    \/ \E a \in Apks : RemoveOrphan(a)

PublishStep ==
    \/ Download \/ DownloadFails \/ Accept \/ Reject
    \/ Reuse \/ Install \/ InstallFails
    \/ Swap \/ Check \/ Backup \/ Point \/ PointFails \/ RollBack
    \/ DropBackup \/ Publish \/ Undo \/ Tidy

ServerStep == StartStep \/ PublishStep \/ \E o \in Offers : Select(o)

OutsideStep ==
    \/ Stop \/ Get
    \/ \E name \in Names : RequestEnds(name)
    \/ \E o \in Offers : Announce(o) \/ Withdraw(o)

Next == ServerStep \/ OutsideStep

Spec == Init /\ [][Next]_vars

(* The supervisor restarts the server, which polls for ever.               *)
FairSpec == Spec /\ WF_vars(ServerStep)

=============================================================================
