---------------------------- MODULE DeployDocker ----------------------------
(***************************************************************************)
(* deployDocker.ts of core/scripts: a deployment takes the version that    *)
(* follows the recorded one, builds an image, tags it with the version,    *)
(* pushes it, records the version, and lets terraform run it.              *)
(*                                                                         *)
(* Deployments are processes of one machine, which share the file of       *)
(* recorded versions, the images of docker and the registry.  Each may be  *)
(* killed, declined or fail at every await.  The commands it spawns are    *)
(* docker, git and terraform; spawn (lib/run.ts) looks at no exit code, so *)
(* most of their failures go unnoticed.                                    *)
(*                                                                         *)
(* The image a deployment builds is known by the deployment.  The          *)
(* organisation and the suffix of a tag, whether the work tree is clean,   *)
(* and the commit at the end, which change no step, are left out.          *)
(***************************************************************************)
EXTENDS Naturals

CONSTANTS
    DeployEnvs,  \* the environments to deploy to
    Deployers,   \* the terminals deployments are started in
    DeployTypes, \* the types of deployment that are used
    MaySkip,     \* the parts of a deployment that may be skipped
    Given,       \* the versions asked for, in full or in part, each with a type of
                 \* deployment or "none"
    MaxDeploys   \* bound: how many deployments are started

\* major, minor and patch.
TVersions == [major : Nat, minor : Nat, patch : Nat]

DeploymentType == {"patch", "minor", "major"}

ASSUME DeployAssumption ==
    /\ DeployTypes \subseteq DeploymentType
    /\ MaySkip \subseteq {"build", "publish", "apply"}
    /\ \A asked \in Given :
         /\ asked.type \in DeploymentType \cup {"none"}
         /\ \E parts \in SUBSET {"major", "minor", "patch"} :
              asked.version \in [parts -> Nat]
    /\ MaxDeploys \in Nat

VARIABLES
    deployment,  \* the deployment of each terminal
    logs,        \* deployment-logs.json: the version of each environment
    image,       \* the image under the default name, 0 if there is none
    tagged,      \* the image under each tag of this machine
    registry,    \* the image under each tag that was pushed
    runs,        \* what each environment runs: a tag and an image
    deploys,     \* how many deployments were started
    open,        \* history: tags whose deployment has pushed and not recorded
    astray,      \* history: environments deployed to at the same time as
                 \* another, or with a version asked for that is not a new one,
                 \* or that were given a version nobody recorded
    complete     \* history: the last deployment of each environment that was
                 \* complete, 0 if there may be an excuse

deployHistory == <<open, astray, complete>>
deployVars == <<deployment, logs, image, tagged, registry, runs, deploys,
                deployHistory>>

Zero == [major |-> 0, minor |-> 0, patch |-> 0]
Tags == [env : DeployEnvs, version : TVersions]

\* What a deployment may skip.  What is not built is not published.
Skips == {s \in SUBSET MaySkip : "build" \in s => "publish" \notin s}

NotDeploying == [at |-> "none"]

Deployments ==
    [at : {"build", "tag", "push", "save", "apply"}, id : Nat,
     tag : Tags, logs : [DeployEnvs -> TVersions], skip : Skips,
     alone : BOOLEAN, doubtful : BOOLEAN]

DeployTypeOK ==
    /\ deployment \in [Deployers -> {NotDeploying} \cup Deployments]
    /\ logs \in [DeployEnvs -> TVersions]
    /\ image \in Nat
    /\ DOMAIN tagged \subseteq Tags /\ \A t \in DOMAIN tagged : tagged[t] \in Nat
    /\ DOMAIN registry \subseteq Tags
    /\ \A t \in DOMAIN registry : registry[t] \in Nat
    /\ runs \in [DeployEnvs -> [version : TVersions, image : Nat]]
    /\ deploys \in 0 .. MaxDeploys
    /\ open \subseteq Tags /\ astray \subseteq DeployEnvs
    /\ complete \in [DeployEnvs -> Nat]

DeployInit ==
    /\ deployment = [d \in Deployers |-> NotDeploying]
    /\ logs = [e \in DeployEnvs |-> Zero]
    /\ image = 0
    /\ tagged = [t \in {} |-> 0] /\ registry = [t \in {} |-> 0]
    /\ runs = [e \in DeployEnvs |-> [version |-> Zero, image |-> 0]]
    /\ deploys = 0
    /\ open = {} /\ astray = {} /\ complete = [e \in DeployEnvs |-> 0]
-----------------------------------------------------------------------------
\* f with x under t.
Put(f, t, x) == [s \in DOMAIN f \cup {t} |-> IF s = t THEN x ELSE f[s]]

Below(v, w) ==
    \/ v.major < w.major
    \/ v.major = w.major /\ v.minor < w.minor
    \/ v.major = w.major /\ v.minor = w.minor /\ v.patch < w.patch

\* Mutant of Follower: the next patch is taken after any version.
FollowerOfPatch(v, type) ==
    CASE type = "none" -> [v EXCEPT !.patch = 0]
      [] type = "patch" -> [v EXCEPT !.patch = @ + 1]
      [] type = "minor" -> [v EXCEPT !.patch = 0]
      [] type = "major" -> [major |-> v.major + 1, minor |-> 0, patch |-> 0]

\* The version of a deployment of that type after v; without a type it has no
\* patch, and is v itself if v has none.
Follower(v, type) ==
    CASE type = "none" -> [v EXCEPT !.patch = 0]
      [] type = "patch" -> [v EXCEPT !.patch = @ + 1]
      [] type = "minor" -> [v EXCEPT !.minor = @ + 1, !.patch = 0]
      [] type = "major" -> [major |-> v.major + 1, minor |-> 0, patch |-> 0]

\* The parts of a version that are asked for, and the others as they are in w.
Completed(asked, w) ==
    [major |-> IF "major" \in DOMAIN asked THEN asked.major ELSE w.major,
     minor |-> IF "minor" \in DOMAIN asked THEN asked.minor ELSE w.minor,
     patch |-> IF "patch" \in DOMAIN asked THEN asked.patch ELSE w.patch]

Deploying(d) == deployment[d].at # "none"
Reached(d, place) == Deploying(d) /\ deployment[d].at = place

Onward(d, place) == deployment' = [deployment EXCEPT ![d].at = place]
OnwardInDoubt(d, place) ==
    deployment' = [deployment EXCEPT ![d].at = place, ![d].doubtful = TRUE]
Stops(d) == deployment' = [deployment EXCEPT ![d] = NotDeploying]

\* The logs are read once, before the prompts, and hold the new version.
Begin(d, e, v, skip) ==
    LET others == {q \in Deployers : Deploying(q)}
    IN  /\ ~Deploying(d) /\ deploys < MaxDeploys
        /\ deploys' = deploys + 1
        /\ deployment' = [q \in Deployers |->
             CASE q = d -> [at |-> IF "build" \in skip THEN "apply" ELSE "build",
                            id |-> deploys + 1,
                            tag |-> [env |-> e, version |-> v],
                            logs |-> [logs EXCEPT ![e] = v], skip |-> skip,
                            alone |-> others = {}, doubtful |-> FALSE]
               [] q \in others -> [deployment[q] EXCEPT !.alone = FALSE]
               [] OTHER -> deployment[q]]
        /\ UNCHANGED <<logs, image, tagged, registry, runs, open, complete>>

\* The environments of deployments that run at the same time.
Crossed(e) ==
    LET others == {q \in Deployers : Deploying(q)}
    IN  IF others = {} THEN {}
        ELSE {e} \cup {deployment[q].tag.env : q \in others}

\* A patch, a minor or a major deployment.
Deploy(d, e, type, skip) ==
    /\ Begin(d, e, Follower(logs[e], type), skip)
    /\ astray' = astray \cup Crossed(e)

\* The version is asked for, in full, in part or, by a caller that is not prompted
\* for a type either, not at all; whether it is a new one is not looked at.
DeployVersion(d, e, v, skip) ==
    /\ Begin(d, e, v, skip)
    /\ astray' = astray \cup Crossed(e)
                        \cup (IF Below(logs[e], v) THEN {} ELSE {e})

\* The process is killed, a prompt is declined, the work tree is not clean, or
\* a failure is noticed.
DeployFails(d) ==
    /\ Deploying(d)
    /\ Stops(d)
    /\ UNCHANGED <<logs, image, tagged, registry, runs, deploys, deployHistory>>

\* docker build.  Of its failures the one whose output begins with ERROR is
\* noticed, the others leave the image of before.
BuildImage(d) ==
    /\ Reached(d, "build")
    /\ \/ image' = deployment[d].id /\ Onward(d, "tag")
       \/ UNCHANGED image /\ OnwardInDoubt(d, "tag")
    /\ UNCHANGED <<logs, tagged, registry, runs, deploys, deployHistory>>

\* docker tag, which may fail unnoticed.
TagImage(d) ==
    LET next == IF "publish" \in deployment[d].skip THEN "save" ELSE "push"
    IN  /\ Reached(d, "tag")
        /\ \/ /\ image # 0
              /\ tagged' = Put(tagged, deployment[d].tag, image)
              /\ Onward(d, next)
           \/ UNCHANGED tagged /\ OnwardInDoubt(d, next)
        /\ UNCHANGED <<logs, image, registry, runs, deploys, deployHistory>>

\* docker push.  With something in both of its outputs it is taken to have
\* failed, even if it has not, and without it is not, even if it has.
Push(d) ==
    LET t == deployment[d].tag
    IN  /\ Reached(d, "push")
        /\ \/ /\ t \in DOMAIN tagged
              /\ registry' = Put(registry, t, tagged[t])
              /\ open' = open \cup {t}
              /\ Onward(d, "save") \/ Stops(d)
           \/ UNCHANGED <<registry, open>> /\ OnwardInDoubt(d, "save")
        /\ UNCHANGED <<logs, image, tagged, runs, deploys, astray, complete>>

\* Mutant of Save: the version is not put into the logs.
SaveRead(d) ==
    LET t == deployment[d].tag
    IN  /\ Reached(d, "save")
        /\ logs' = [deployment[d].logs EXCEPT ![t.env] = logs[t.env]]
        /\ open' = open \ {t}
        /\ Onward(d, "apply")
        /\ UNCHANGED <<image, tagged, registry, runs, deploys, astray, complete>>

\* The logs of all environments are written as they were read.
Save(d) ==
    /\ Reached(d, "save")
    /\ logs' = deployment[d].logs
    /\ open' = open \ {deployment[d].tag}
    /\ Onward(d, "apply")
    /\ UNCHANGED <<image, tagged, registry, runs, deploys, astray, complete>>

\* The deployment, if nothing excuses that the environment runs another image.
Sure(d) ==
    IF /\ deployment[d].alone /\ ~deployment[d].doubtful
       /\ deployment[d].skip = {}
    THEN deployment[d].id ELSE 0

\* terraform apply, if it is not skipped, and the end.  An environment that has
\* the tag already is left as it is, and so is one whose tag is not there; that
\* terraform fails is not noticed.
Apply(d) ==
    LET t == deployment[d].tag
        e == t.env
        skipped == "apply" \in deployment[d].skip
        anew == t \in DOMAIN registry /\ t.version # runs[e].version
    IN  /\ Reached(d, "apply")
        /\ Stops(d)
        /\ \/ /\ ~skipped /\ anew
              /\ runs' = [runs EXCEPT
                     ![e] = [version |-> t.version, image |-> registry[t]]]
              /\ astray' = astray \cup
                     (IF Below(logs[e], t.version) THEN {e} ELSE {})
              /\ complete' = [complete EXCEPT ![e] = Sure(d)]
           \/ /\ ~skipped /\ ~anew
              /\ complete' = [complete EXCEPT ![e] = Sure(d)]
              /\ UNCHANGED <<runs, astray>>
           \/ /\ complete' = [complete EXCEPT ![e] = 0]
              /\ UNCHANGED <<runs, astray>>
        /\ UNCHANGED <<logs, image, tagged, registry, deploys, open>>

DeployNext ==
    \E d \in Deployers :
        \/ \E e \in DeployEnvs, skip \in Skips :
               \/ \E type \in DeployTypes : Deploy(d, e, type, skip)
               \/ \E asked \in Given :
                      LET w == Follower(logs[e], asked.type)
                      IN  DeployVersion(d, e, Completed(asked.version, w), skip)
        \/ BuildImage(d) \/ TagImage(d) \/ Push(d) \/ Save(d) \/ Apply(d)
        \/ DeployFails(d)

DeploySpec == DeployInit /\ [][DeployNext]_deployVars
-----------------------------------------------------------------------------
\* A tag that was pushed is never moved to another image.  The exceptions are a
\* deployment that failed between its push and its record, whose version the
\* next one takes again, and environments given a version that was not a new one,
\* or deployed to while another deployment ran.
TagsAreNotMoved ==
    [][\A t \in DOMAIN registry :
         registry'[t] # registry[t] => t \in open \/ t.env \in astray]_deployVars

\* After a deployment that skipped nothing was complete its environment runs
\* the image it built, unless a command failed and was not noticed or another
\* deployment ran at the same time.
CompleteMeansRunning ==
    \A e \in DeployEnvs :
        complete[e] # 0 /\ e \notin astray => runs[e].image = complete[e]
=============================================================================
