---------------------------- MODULE ReleaseProps ----------------------------
(***************************************************************************)
(* The properties of ReleaseCache.                                         *)
(***************************************************************************)
EXTENDS ReleaseCache

(* What release.json may say: a release this server published, or one that *)
(* an older server cached.                                                 *)
Pointers == Offers \cup
                {[tag |-> o.tag, apk |-> Legacy, pre |-> FALSE] : o \in Offers}

(* Every variable keeps its type.                                          *)
TypeOK ==
    /\ meta \in Pointers \cup {None}
    /\ bak \in Pointers \cup {None}
    /\ files \in SUBSET Apks
    /\ tmps \in SUBSET {"apk", "meta"}
    /\ current \in [tag : Tags, path : Names] \cup {None}
    /\ pc \in PCs
    /\ job \in Offers \cup {None}
    /\ created \in SUBSET Apks
    /\ preview \in BOOLEAN
    /\ feed \in SUBSET Offers
    /\ held \in SUBSET Names
    /\ mishaps \in 0..MaxMishaps

(* Neither release.json nor its backup ever names an APK that is not in    *)
(* the cache, whatever fails and wherever the process stops: neither the   *)
(* cleanup at a start nor the withdrawal of a failed publication removes   *)
(* the artifact of a pair that may still be needed.                        *)
PointersResolve ==
    /\ meta # None => Present(meta.apk)
    /\ bak # None => Present(bak.apk)

(* "An ordinary failed update or process interruption keeps the last-good  *)
(* metadata/artifact pair recoverable" (docs/RELEASES.md:43-44).           *)
Recoverable == \E m \in {meta, bak} : m # None /\ Present(m.apk)

LastGoodKept == [][Recoverable => Recoverable']_vars

(* A release that a request has taken is still there when the request      *)
(* opens its file, though newer ones were published or failed to be.       *)
ServedFilesExist == \A name \in held : Present(name)

(* What is served has the version that its tag says, from a file that is   *)
(* there, in its channel: a truncated or mislabelled download, or a        *)
(* prerelease nobody opted into, never becomes current.                    *)
ServesWhatItSays ==
    current # None => /\ Present(current.path)
                      /\ VersionOf[Bytes(current.path)] = current.tag
                      /\ \E p \in Pointers : /\ Release(p) = current
                                            /\ p.pre => preview

(* While the server runs, what it serves only moves to a greater tag with  *)
(* a greater versionCode.                                                  *)
VersionsClimb ==
    [][current # None /\ current' # None /\ current' # current =>
         /\ current'.tag > current.tag
         /\ CodeOf[Bytes(current'.path)] > CodeOf[Bytes(current.path)]]_vars

(* The release a restart would find.                                       *)
Durable == IF meta # None THEN meta ELSE bak

(* "Once a rewrite APK is cached, a replacement must have both a greater   *)
(* tag version and a strictly greater Android versionCode"                 *)
(* (docs/RELEASES.md:31-33), across crashes and restarts.                  *)
ReplacementsClimb ==
    [][Usable(Durable) /\ Durable' # Durable =>
           /\ Durable' # None
           /\ Durable'.tag > Durable.tag
           /\ CodeOf[Bytes(Durable'.apk)] > CodeOf[Bytes(Durable.apk)]]_vars

(* A highest tag whose APK belongs to another version, or carries a        *)
(* versionCode that is not greater, costs a download at every poll and no  *)
(* more: neither the cache nor what is served changes for it, at no point  *)
(* of the publication and whatever fails.                                  *)
Misbuilt(o) ==
    \/ VersionOf[o.apk] # o.tag
    \/ current # None /\ CodeOf[o.apk] <= CodeOf[Bytes(current.path)]

MisbuiltChangesNothing ==
    [][job # None /\ Misbuilt(job) /\ pc' # "down"
           => UNCHANGED <<meta, bak, files, current>>]_vars

(* In the end the server serves the highest release that GitHub lists, or  *)
(* a greater one that is listed no more, unless that highest release is    *)
(* one the checks refuse: its APK belongs to another version, or carries a *)
(* versionCode that is not greater.                                        *)
Converges ==
    <>[](\A o \in Offers :
            Highest(o) /\ VersionOf[o.apk] = o.tag =>
                /\ current # None
                /\ \/ current.tag >= o.tag
                   \/ CodeOf[o.apk] <= CodeOf[Bytes(current.path)])

-----------------------------------------------------------------------------
(* The inductive invariant: what is known at each point of the polling     *)
(* goroutine of its job, of the pair on disk and of the backup.            *)

Starting == {"sweeping", "loading", "cleaning"}
Recovering == {"recovering", "finalizing", "dropping", "restoring"}
Installed == {"swapping", "checking", "backing", "pointing", "rolling",
              "committed", "publishing"}

(* There is a job exactly while downloadAndPublish runs.                   *)
WorkInv ==
    /\ pc \in {"down", "polling"} \cup Starting => job = None
    /\ pc \notin {"down", "polling"} \cup Starting \cup Recovering => job # None
    /\ job = None \/ pc \in {"downloading", "validating", "installing"} => created = {}

JobInv ==
    /\ pc \in {"downloading", "validating", "installing"} \cup Installed => Newer(job)
    /\ pc \in {"installing", "undoing"} \cup Installed => Acceptable(job)
    /\ job # None /\ pc \in Recovering => Acceptable(job) /\ job.apk \in files
    /\ job # None /\ job.pre => preview
    /\ pc \in Installed => job.apk \in files
    /\ \A a \in created : a = job.apk

(* Nobody else refers to the file that a job has put there itself.         *)
Unshared(a) ==
    /\ meta # None => meta.apk # a
    /\ bak # None => bak.apk # a
    /\ current # None => current.path # a
    /\ a \notin held

CreatedInv ==
    pc \notin {"committed", "publishing", "tidying"} =>
        \A a \in created : Unshared(a)

SwapInv ==
    /\ pc = "finalizing" => Usable(meta)
    /\ pc \in {"dropping", "restoring", "rolling", "committed"} => bak # None
    /\ pc \in {"restoring", "rolling", "pointing"} => meta = None
    /\ pc = "backing" => bak = None
    /\ pc \in {"committed", "publishing"} => meta = Pointer(job)

StartInv ==
    /\ ~Serving => held = {}
    /\ job = None /\ pc \in {"down", "sweeping", "loading"} \cup Recovering => current = None
    /\ pc = "cleaning" /\ current # None => meta # None /\ meta.apk = current.path

RInv == /\ TypeOK /\ PointersResolve /\ ServedFilesExist /\ ServesWhatItSays
        /\ WorkInv /\ JobInv /\ CreatedInv /\ SwapInv /\ StartInv

(* Of a pair and its backup, the pair is usable while a release is served. *)
PairInv == current # None /\ meta # None /\ bak # None => Usable(meta)

(* With no failed read only a pair that is not usable is dropped.          *)
TrustInv == pc = "dropping" => ~Usable(meta)

(* With no failed read, removal or rename a start leaves no backup, and    *)
(* what is served is what is on disk, until a publication replaces it.     *)
KeptInv ==
    /\ TrustInv
    /\ pc \in Recovering => job = None
    /\ pc \notin {"down", "pointing", "rolling", "committed"} \cup Recovering => bak = None
    /\ pc \notin {"down", "sweeping", "loading", "committed", "publishing"} \cup Recovering =>
          IF current = None THEN ~Usable(Durable)
          ELSE Usable(Durable) /\ current = Release(Durable)

-----------------------------------------------------------------------------
(* The cache implements one atomic pointer (AtomicCache).                  *)
MayShow ==
    {x \in Pointers \X BOOLEAN :
        /\ x[1].pre => x[2]
        /\ Bytes(x[1].apk) \in Apks
        /\ VersionOf[Bytes(x[1].apk)] = x[1].tag}

MayReplace ==
    {x \in Pointers \X [tag : Tags, path : Names] :
        /\ x[1].tag > x[2].tag
        /\ CodeOf[Bytes(x[1].apk)] > CodeOf[Bytes(x[2].path)]}

(* A complete pair is about to be dropped: only a failed read may take it  *)
(* for an incomplete one (source.go:597).                                  *)
Misread == pc = "dropping" /\ Usable(meta)

Cache == INSTANCE AtomicCache WITH
    Eligible <- MayShow,
    Greater  <- MayReplace,
    durable  <- Durable,
    showing  <- current,
    option   <- preview,
    doubt    <- Misread,
    failures <- mishaps

RefinesAtomicCache == Cache!Spec

(* What a request was given is durable: a crash at any point and a restart *)
(* with the same option lead to a release that is at least as new.         *)
ShownIsDurable == Cache!Covered

=============================================================================
