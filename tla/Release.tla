------------------------------- MODULE Release -------------------------------
(***************************************************************************)
(* How a version is released: the jobs of the workflow publish.yml, and a  *)
(* developer beside them, call Publish of dagger/publish.go, which pushes  *)
(* and attests images, then publishes charts and the GitHub release.  A    *)
(* call that fails leaves behind what it has published and is run again    *)
(* from its first line.                                                    *)
(*                                                                         *)
(* Images are known by the call and the run that built them.  A push moves *)
(* the tag of the version; the manifest is then read by that tag, and what *)
(* it names is attested with the SBOM of the own build, unless the         *)
(* manifest itself names one, which is for apko to decide.                 *)
(***************************************************************************)
EXTENDS Integers, Sequences, SequencesExt

CONSTANTS
    MaxFailures,    \* bound: calls to registries, vaults and GitHub that fail
    MaxRuns         \* bound: runs of one job

ASSUME ReleaseAssumption ==
    MaxFailures \in Nat /\ MaxRuns \in Nat /\ MaxFailures < MaxRuns

Call == {"staging job", "production job", "developer"}
Job == Call \ {"developer"}
Env == {"dev", "staging", "production"}
Registry == {"ttl.sh", "hub", "staging", "production"}

\* Where the image of a release goes, and the charts.
ReleaseRegistry == Registry \ {"ttl.sh"}
ChartEnv == {"staging", "production"}
JobOf(env) == IF env = "staging" THEN "staging job" ELSE "production job"

NoImage == <<"no image", 0>>
SecureImage == <<"securebuild", 0>>

VARIABLES
    stable,     \* is the version X.Y.Z, or a prerelease?
    embeds,     \* do the manifests that are pushed name the SBOM themselves?
    args,       \* the arguments of each call: [envs, skipImage, keyGiven]
    securing,   \* job build-securebuild: at "package" or "image", with
                \* "package failed" or "image failed", or "done"
    status,     \* each call: "waiting", "running", "failed", "refused", "done"
    todo,       \* what its run has still to do
    runs,       \* how often it was run
    seen,       \* the image that the manifest named, in publishImage
    tags,       \* the image that the version names in each registry
    attested,   \* the attestations there are
    charts,     \* the environments whose chart is published
    release,    \* is there a GitHub release?
    failures

vars == <<stable, embeds, args, securing, status, todo, runs, seen, tags, attested,
          charts, release, failures>>
published == <<tags, attested, charts, release>>
inputs == <<stable, embeds, args>>

Args == [envs : SUBSET Env, skipImage : BOOLEAN, keyGiven : BOOLEAN]

\* What the developer may ask for, once (bound).
DeveloperArgs ==
    {[envs |-> {"dev", "staging"}, skipImage |-> FALSE, keyGiven |-> FALSE],
     [envs |-> {"dev"}, skipImage |-> FALSE, keyGiven |-> TRUE]}

\* publish.yml: the jobs do without dev, and without images if stable.
JobArgs(env) == [envs |-> {env}, skipImage |-> stable, keyGiven |-> FALSE]

-----------------------------------------------------------------------------
(***************************************************************************)
(* What a call of Publish does, in order                                   *)
(***************************************************************************)

\* Faulty variant of Key: production asks for the key of staging.
KeyStaging(c) ==
    IF args[c].keyGiven THEN "given"
    ELSE IF "dev" \in args[c].envs THEN "dev" ELSE "staging"

\* cosignKey: once a block has fetched one, the later blocks do not.
Key(c) ==
    CASE args[c].keyGiven -> "given"
      [] ~args[c].keyGiven /\ "dev" \in args[c].envs -> "dev"
      [] ~args[c].keyGiven /\ "dev" \notin args[c].envs
            /\ "staging" \in args[c].envs -> "staging"
      [] OTHER -> "production"

Task(do, at) == [do |-> do, at |-> at]

If(condition, tasks) == IF condition THEN tasks ELSE <<>>

PublishImage(registry) ==
    <<Task("push", registry), Task("manifest", registry), Task("attest", registry)>>

AllImages(c) ==
    If("dev" \in args[c].envs, PublishImage("ttl.sh")) \o
    If("staging" \in args[c].envs, PublishImage("hub") \o PublishImage("staging")) \o
    If("production" \in args[c].envs, PublishImage("hub") \o PublishImage("production"))

BuildAndPublishChart(c) ==
    If("production" \in args[c].envs, <<Task("chart", "production")>>) \o
    If("staging" \in args[c].envs, <<Task("chart", "staging")>>)

GithubRelease(c) == If("production" \in args[c].envs, <<Task("release", "production")>>)

\* Faulty variant of Publish: the charts go first.
PublishChartsFirst(c) ==
    BuildAndPublishChart(c) \o If(~args[c].skipImage, AllImages(c)) \o GithubRelease(c)

\* Faulty variant of Publish: without images it returns after the charts.
PublishNoRelease(c) ==
    If(~args[c].skipImage, AllImages(c)) \o BuildAndPublishChart(c) \o
    If(~args[c].skipImage, GithubRelease(c))

Publish(c) ==
    If(~args[c].skipImage, AllImages(c)) \o BuildAndPublishChart(c) \o GithubRelease(c)

\* "container images for stable release must be published by SecureBuild"
Refused(c) == stable /\ args[c].envs \cap ChartEnv # {} /\ ~args[c].skipImage

-----------------------------------------------------------------------------
Init ==
    /\ stable \in BOOLEAN /\ embeds \in BOOLEAN
    /\ \E asked \in DeveloperArgs :
         args = [c \in Call |->
                    CASE c = "staging job" -> JobArgs("staging")
                      [] c = "production job" -> JobArgs("production")
                      [] c = "developer" -> asked]
    /\ securing = IF stable THEN "package" ELSE "done"
    /\ status = [c \in Call |-> "waiting"]
    /\ todo = [c \in Call |-> <<>>]
    /\ runs = [c \in Call |-> 0]
    /\ seen = [c \in Call |-> NoImage]
    /\ tags = [r \in Registry |-> NoImage]
    /\ attested = {}
    /\ charts = {}
    /\ release = FALSE
    /\ failures = 0

Attestation(at, image, key, sbom) == [at |-> at, image |-> image, key |-> key, sbom |-> sbom]

\* publish-securebuild.yml: the package, then the images, which SecureBuild
\* pushes to the registries of a release and signs.
SecureBuild ==
    /\ \/ securing = "package" /\ securing' = "image" /\ UNCHANGED <<tags, attested>>
       \/ /\ securing = "image" /\ securing' = "done"
          /\ tags' = [r \in Registry |-> IF r \in ReleaseRegistry THEN SecureImage ELSE tags[r]]
          /\ attested' = attested \cup
                {Attestation(r, SecureImage, "securebuild", SecureImage) : r \in ReleaseRegistry}
    /\ UNCHANGED <<inputs, status, todo, runs, seen, charts, release, failures>>

SecureBuildFails ==
    /\ failures < MaxFailures /\ failures' = failures + 1
    /\ \/ securing = "package" /\ securing' = "package failed"
       \/ securing = "image" /\ securing' = "image failed"
    /\ UNCHANGED <<inputs, status, todo, runs, seen, published>>

\* All jobs are run again, or those that failed.
RerunSecureBuild ==
    /\ securing \in {"package failed", "image failed"}
    /\ \/ securing' = "package"
       \/ securing = "image failed" /\ securing' = "image"
    /\ UNCHANGED <<inputs, status, todo, runs, seen, published, failures>>

\* A call starts, or is run again after it failed.  The jobs need the job
\* build-securebuild, which a prerelease skips.
Start(c) ==
    /\ status[c] \in {"waiting", "failed"}
    /\ c \in Job => securing = "done"
    /\ runs[c] < IF c \in Job THEN MaxRuns ELSE 1
    /\ runs' = [runs EXCEPT ![c] = @ + 1]
    /\ status' = [status EXCEPT ![c] = IF Refused(c) THEN "refused" ELSE "running"]
    /\ todo' = [todo EXCEPT ![c] = IF Refused(c) THEN <<>> ELSE Publish(c)]
    /\ UNCHANGED <<inputs, securing, seen, published, failures>>

\* The call is at a task of this kind.
At(c, do) == status[c] = "running" /\ todo[c] # <<>> /\ Head(todo[c]).do = do

Place(c) == Head(todo[c]).at

\* The task is done, or what it did is not known to be: its answer is lost, an
\* error that ends the run.
Goes(c) ==
    \/ /\ todo' = [todo EXCEPT ![c] = Tail(@)]
       /\ status' = [status EXCEPT ![c] = IF Len(todo[c]) = 1 THEN "done" ELSE @]
       /\ UNCHANGED failures
    \/ /\ failures < MaxFailures /\ failures' = failures + 1
       /\ status' = [status EXCEPT ![c] = "failed"]
       /\ todo' = [todo EXCEPT ![c] = <<>>]

Image(c) == <<c, runs[c]>>

Push(c) ==
    /\ At(c, "push")
    /\ tags' = [tags EXCEPT ![Place(c)] = Image(c)]
    /\ Goes(c)
    /\ UNCHANGED <<inputs, securing, runs, seen, attested, charts, release>>

\* crane manifest <image>:<tag>
ReadManifest(c) ==
    /\ At(c, "manifest")
    /\ seen' = [seen EXCEPT ![c] = tags[Place(c)]]
    /\ todo' = [todo EXCEPT ![c] = Tail(@)]
    /\ UNCHANGED <<inputs, securing, status, runs, published, failures>>

\* Faulty variant of Attested: no attestation where the registry has one.
AttestedOnce(c) ==
    IF embeds \/ \E a \in attested : a.at = Place(c) THEN {}
    ELSE {Attestation(Place(c), seen[c], Key(c), Image(c))}

\* One attestation for each architecture, which are as one here.
Attested(c) ==
    IF embeds THEN {} ELSE {Attestation(Place(c), seen[c], Key(c), Image(c))}

Attest(c) ==
    /\ At(c, "attest")
    /\ attested' = attested \cup Attested(c)
    /\ seen' = [seen EXCEPT ![c] = NoImage]
    /\ Goes(c)
    /\ UNCHANGED <<inputs, securing, runs, tags, charts, release>>

PushChart(c) ==
    /\ At(c, "chart")
    /\ charts' = charts \cup {Place(c)}
    /\ Goes(c)
    /\ UNCHANGED <<inputs, securing, runs, seen, tags, attested, release>>

\* A release that exists cannot be created again.
CreateRelease(c) ==
    /\ At(c, "release") /\ ~release
    /\ release' = TRUE
    /\ Goes(c)
    /\ UNCHANGED <<inputs, securing, runs, seen, tags, attested, charts>>

\* A step fails before it did anything, or the release is there already.
Fail(c) ==
    /\ status[c] = "running"
    /\ \/ failures < MaxFailures /\ failures' = failures + 1
       \/ At(c, "release") /\ release /\ UNCHANGED failures
    /\ status' = [status EXCEPT ![c] = "failed"]
    /\ todo' = [todo EXCEPT ![c] = <<>>]
    /\ seen' = [seen EXCEPT ![c] = NoImage]
    /\ UNCHANGED <<inputs, securing, runs, published>>

Work(c) ==
    \/ Push(c) \/ ReadManifest(c) \/ Attest(c) \/ PushChart(c) \/ CreateRelease(c)
    \/ Fail(c)

Next ==
    \/ SecureBuild \/ SecureBuildFails \/ RerunSecureBuild
    \/ \E c \in Call : Start(c) \/ Work(c)

(***************************************************************************)
(* The workflow runs its jobs, and somebody runs the failed ones again.    *)
(* Nothing makes the developer call.                                       *)
(***************************************************************************)
Fairness ==
    /\ WF_vars(SecureBuild \/ RerunSecureBuild)
    /\ \A c \in Job : WF_vars(Start(c) \/ Work(c))

Spec == Init /\ [][Next]_vars /\ Fairness

-----------------------------------------------------------------------------
(***************************************************************************)
(* Properties                                                              *)
(***************************************************************************)

Tasks == [do : {"push", "manifest", "attest", "chart", "release"}, at : Registry]
Images == (Call \X (1..MaxRuns)) \cup {NoImage, SecureImage}
Keys == Env \cup {"given", "securebuild"}

Securing == {"package", "package failed", "image", "image failed", "done"}

\* Every part of the state has its type.
TypeOK ==
    /\ stable \in BOOLEAN /\ embeds \in BOOLEAN /\ args \in [Call -> Args]
    /\ securing \in Securing
    /\ status \in [Call -> {"waiting", "running", "failed", "refused", "done"}]
    /\ todo \in [Call -> Seq(Tasks)]
    /\ runs \in [Call -> 0..MaxRuns]
    /\ seen \in [Call -> Images]
    /\ tags \in [Registry -> Images]
    /\ attested \subseteq [at : Registry, image : Images, key : Keys, sbom : Images]
    /\ charts \subseteq ChartEnv /\ release \in BOOLEAN
    /\ failures \in 0..MaxFailures

\* Call c was run and pushes to this registry.
Pushes(c, r) == runs[c] > 0 /\ ~args[c].skipImage /\ status[c] # "refused"
                /\ Task("push", r) \in ToSet(AllImages(c))

\* What the version names there has an SBOM, and so has some image there.
IsAttested(r) == embeds \/ \E a \in attested : a.at = r /\ a.image = tags[r]
SomeAttested(r) == embeds \/ \E a \in attested : a.at = r

(***************************************************************************)
(* Nobody finds a part of a release before what it needs: the chart of an  *)
(* environment comes after an image in its registry that was attested, and *)
(* the GitHub release after both of production, whichever calls failed and *)
(* were run again (publish.go:51-157, publish.yml needs).                  *)
(***************************************************************************)
PartsInOrder ==
    /\ \A e \in charts : tags[e] # NoImage /\ SomeAttested(e)
    /\ release => "production" \in charts

(***************************************************************************)
(* Calls push to the same tag of Docker Hub at once, and each attests what *)
(* the tag names when it looks: when all who push to a registry have come  *)
(* to their end, what the version names there is attested, unless it names *)
(* its SBOM itself                                                         *)
(* (image.go:142-152, 203-208, 249-311).                                   *)
(***************************************************************************)
TaggedIsAttested ==
    \A r \in Registry :
        tags[r] # NoImage /\ (\A c \in Call : Pushes(c, r) => status[c] = "done")
            => IsAttested(r)

(***************************************************************************)
(* What the registry of an environment attests about a version is signed   *)
(* with the key of that environment, or by SecureBuild if the version is   *)
(* stable, and with the SBOM of the image it is about.  A call that was    *)
(* given a key, or that publishes to several environments, signs with the  *)
(* key it came by first; where two calls push, the SBOM may be the         *)
(* other's (publish.go:80-138, image.go:154-192, 239-311).                 *)
(***************************************************************************)
SignedForItsRegistry ==
    \A a \in attested :
        LET pushers == {c \in Call : Pushes(c, a.at)}
        IN  /\ stable /\ a.at \in ReleaseRegistry => a.key = "securebuild"
            /\ ~stable /\ a.at \in ChartEnv /\ pushers = {JobOf(a.at)} => a.key = a.at
            /\ (\A c, d \in pushers : c = d) => a.sbom = a.image

(***************************************************************************)
(* If failed jobs are run again, everything the workflow releases is there *)
(* in the end: images, both charts and the GitHub release, although the    *)
(* production job may never succeed once the release exists.               *)
(***************************************************************************)
EverythingIsPublished ==
    <>[](/\ \A r \in ReleaseRegistry : tags[r] # NoImage
         /\ charts = ChartEnv
         /\ release)
=============================================================================
