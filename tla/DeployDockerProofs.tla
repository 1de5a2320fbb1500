------------------------- MODULE DeployDockerProofs -------------------------
(***************************************************************************)
(* For any environments, terminals and number of deployments: the types of *)
(* DeployDocker, that a recorded tag is not moved, and that a complete     *)
(* deployment is what its environment runs.                                *)
(***************************************************************************)
EXTENDS DeployDocker, TLAPS

Target(d) == deployment[d].tag.env
Version(d) == deployment[d].tag.version

\* Deployments that run at the same time know, in the history, of each other.
Apart ==
    \A d, q \in Deployers :
        d # q /\ Deploying(d) /\ Deploying(q) => ~deployment[d].alone

\* ... and their environments are astray.
Crossing(d) == ~deployment[d].alone => Target(d) \in astray

\* What a deployment writes back of another environment is recorded still.
LogsRead(d) ==
    /\ deployment[d].logs[Target(d)] = Version(d)
    /\ \A f \in DeployEnvs \ astray :
         f # Target(d) => deployment[d].logs[f] = logs[f]

\* Its version is a new one until it is recorded.
Recording(d) ==
    IF deployment[d].at = "apply" /\ "build" \notin deployment[d].skip
    THEN logs[Target(d)] = Version(d)
    ELSE Below(logs[Target(d)], Version(d))

Fresh(d) ==
    Target(d) \notin astray =>
      /\ Below(runs[Target(d)].version, Version(d))
      /\ Recording(d)

\* Without an excuse the image under its names is the one it built.
Mine(d) ==
    LET t == deployment[d].tag
        id == deployment[d].id
        at == deployment[d].at
    IN  Sure(d) # 0 =>
          /\ at = "tag" => image = id
          /\ at = "push" => t \in DOMAIN tagged /\ tagged[t] = id
          /\ at = "save" \/ at = "apply" => t \in DOMAIN registry /\ registry[t] = id

\* Who does not build goes to terraform at once.
Building(d) == deployment[d].at # "apply" => "build" \notin deployment[d].skip

InForce(d) ==
    Deploying(d) =>
        Building(d) /\ Crossing(d) /\ LogsRead(d) /\ Fresh(d) /\ Mine(d)

\* No tag is above the recorded version, unless its deployment is not through,
\* and no environment runs one that is.
TagsRecorded ==
    \A t \in DOMAIN registry \ open :
        t.env \notin astray => ~Below(logs[t.env], t.version)

RunsRecorded ==
    \A e \in DeployEnvs \ astray : ~Below(logs[e], runs[e].version)

DInv ==
    /\ DeployTypeOK /\ Apart
    /\ \A d \in Deployers : InForce(d)
    /\ TagsRecorded /\ RunsRecorded /\ CompleteMeansRunning
-----------------------------------------------------------------------------
(* Versions. *)

LEMMA BelowChain ==
    ASSUME NEW u \in TVersions, NEW v \in TVersions, NEW w \in TVersions,
           Below(v, w)
    PROVE  /\ ~Below(w, v) /\ ~Below(u, u)
           /\ ~Below(v, u) => ~Below(w, u)
           /\ ~Below(v, u) => Below(u, w)
PROOF
  BY DEF TVersions, Below

\* Every type of deployment takes a version above the recorded one.
LEMMA FollowerAbove ==
    ASSUME NEW v \in TVersions, NEW type \in DeploymentType
    PROVE  Follower(v, type) \in TVersions /\ Below(v, Follower(v, type))
PROOF
<1>1. type \in {"patch", "minor", "major"}
  BY DeployAssumption DEF DeploymentType
<1>2. CASE type = "patch"
  BY <1>2 DEF TVersions, Follower, Below
<1>3. CASE type = "minor"
  <2>1. Follower(v, type) =
            [major |-> v.major, minor |-> v.minor + 1, patch |-> 0]
    BY <1>3 DEF TVersions, Follower
  <2> QED
    BY <2>1 DEF TVersions, Below
<1>4. CASE type = "major"
  BY <1>4 DEF TVersions, Follower, Below
<1> QED
  BY <1>1, <1>2, <1>3, <1>4
-----------------------------------------------------------------------------
(* What a step does to the deployments. *)

\* What is asked for makes a version, with what follows the recorded one.
LEMMA CompletedIs ==
    ASSUME NEW v \in TVersions, NEW asked \in Given
    PROVE  Completed(asked.version, Follower(v, asked.type)) \in TVersions
PROOF
<1> DEFINE w == Follower(v, asked.type)
<1>1. asked.type \in {"none"} \cup DeploymentType
  BY DeployAssumption
<1>2. w \in TVersions
  <2>1. CASE asked.type = "none"
    BY <2>1 DEF TVersions, Follower
  <2>2. CASE asked.type \in DeploymentType
    BY <2>2, FollowerAbove
  <2> QED
    BY <1>1, <2>1, <2>2
<1>3. PICK parts \in SUBSET {"major", "minor", "patch"} : asked.version \in [parts -> Nat]
  BY DeployAssumption
<1>4. /\ "major" \in DOMAIN asked.version => asked.version.major \in Nat
      /\ "minor" \in DOMAIN asked.version => asked.version.minor \in Nat
      /\ "patch" \in DOMAIN asked.version => asked.version.patch \in Nat
  BY <1>3
<1>5. w.major \in Nat /\ w.minor \in Nat /\ w.patch \in Nat
  BY <1>2 DEF TVersions
<1> HIDE DEF w
<1>6. Completed(asked.version, w) \in TVersions
  BY <1>4, <1>5 DEF Completed, TVersions
<1> QED
  BY <1>6 DEF w

Places == {"build", "tag", "push", "save", "apply"}

LEMMA Fields ==
    ASSUME DeployTypeOK, NEW d \in Deployers, Deploying(d)
    PROVE  /\ deployment[d] \in Deployments /\ deployment[d].at \in Places
           /\ deployment[d].id \in Nat /\ deployment[d].tag \in Tags
           /\ Target(d) \in DeployEnvs /\ Version(d) \in TVersions
           /\ deployment[d].tag = [env |-> Target(d), version |-> Version(d)]
           /\ deployment[d].logs \in [DeployEnvs -> TVersions]
           /\ deployment[d].skip \in Skips
           /\ deployment[d].alone \in BOOLEAN /\ deployment[d].doubtful \in BOOLEAN
PROOF
<1>1. deployment[d] \in Deployments
  BY DEF DeployTypeOK, Deploying, NotDeploying
<1>2. deployment[d].tag \in Tags /\ deployment[d].at \in Places
  BY <1>1 DEF Deployments, Places
<1> QED
  BY <1>1, <1>2 DEF Deployments, Tags, Target, Version

\* A deployment goes on, in doubt or not, and the others stay.
Keeps(d, place, doubt) ==
    /\ deployment' \in [Deployers -> {NotDeploying} \cup Deployments]
    /\ Deploying(d)' /\ deployment'[d].at = place
    /\ deployment'[d].id = deployment[d].id
    /\ deployment'[d].tag = deployment[d].tag
    /\ deployment'[d].logs = deployment[d].logs
    /\ deployment'[d].skip = deployment[d].skip
    /\ deployment'[d].alone = deployment[d].alone
    /\ deployment'[d].doubtful = doubt
    /\ \A q \in Deployers \ {d} : deployment'[q] = deployment[q]

LEMMA GoneOn ==
    ASSUME DeployTypeOK, NEW d \in Deployers, Deploying(d), NEW place \in Places
    PROVE  /\ Onward(d, place) => Keeps(d, place, deployment[d].doubtful)
           /\ OnwardInDoubt(d, place) => Keeps(d, place, TRUE)
PROOF
<1>1. deployment[d] \in Deployments
  BY Fields
<1>2. place # "none"
  BY DEF Places
<1>3. ASSUME Onward(d, place) PROVE Keeps(d, place, deployment[d].doubtful)
  <2>1. /\ deployment'[d] = [deployment[d] EXCEPT !.at = place]
        /\ \A q \in Deployers \ {d} : deployment'[q] = deployment[q]
    BY <1>3 DEF DeployTypeOK, Onward
  <2>2. deployment'[d] \in Deployments
    BY <2>1, <1>1 DEF Deployments, Places
  <2>3. deployment' \in [Deployers -> {NotDeploying} \cup Deployments]
    BY <1>3, <2>1, <2>2 DEF DeployTypeOK, Onward
  <2> QED
    BY <1>1, <1>2, <2>1, <2>3 DEF Keeps, Deploying, Deployments
<1>4. ASSUME OnwardInDoubt(d, place) PROVE Keeps(d, place, TRUE)
  <2>1. /\ deployment'[d] = [deployment[d] EXCEPT !.at = place, !.doubtful = TRUE]
        /\ \A q \in Deployers \ {d} : deployment'[q] = deployment[q]
    BY <1>4 DEF DeployTypeOK, OnwardInDoubt
  <2>2. deployment'[d] \in Deployments
    BY <2>1, <1>1 DEF Deployments, Places
  <2>3. deployment' \in [Deployers -> {NotDeploying} \cup Deployments]
    BY <1>4, <2>1, <2>2 DEF DeployTypeOK, OnwardInDoubt
  <2> QED
    BY <1>1, <1>2, <2>1, <2>3 DEF Keeps, Deploying, Deployments
<1> QED
  BY <1>3, <1>4

LEMMA Stopped ==
    ASSUME DeployTypeOK, NEW d \in Deployers, Stops(d)
    PROVE  /\ deployment' \in [Deployers -> {NotDeploying} \cup Deployments]
           /\ ~Deploying(d)'
           /\ \A q \in Deployers \ {d} : deployment'[q] = deployment[q]
  BY DEF DeployTypeOK, Stops, Deploying, NotDeploying
-----------------------------------------------------------------------------
(* Each step keeps the invariant. *)

\* What is in force for another deployment, when it is not alone with its names.
LEMMA OthersKeep ==
    ASSUME DInv, NEW d \in Deployers, Deploying(d),
           NEW q \in Deployers \ {d},
           deployment'[q] = deployment[q],
           Deploying(q),
           astray \subseteq astray', astray' \subseteq DeployEnvs,
           \A f \in DeployEnvs \ astray' : f # Target(d) =>
               logs'[f] = logs[f] /\ runs'[f] = runs[f]
    PROVE  InForce(q)' /\ Target(q) \in astray
PROOF
<1>1. ~deployment[q].alone /\ ~deployment[d].alone
  BY DEF DInv, Apart
<1>2. Target(q) \in astray /\ Target(d) \in astray
  BY <1>1 DEF DInv, InForce, Crossing
<1>3. /\ Target(q)' = Target(q) /\ Version(q)' = Version(q)
      /\ Deploying(q)' /\ ~deployment'[q].alone
      /\ deployment'[q].logs = deployment[q].logs /\ Building(q)'
  BY <1>1 DEF Target, Version, Deploying, DInv, InForce, Building
<1>4. LogsRead(q)
  BY DEF DInv, InForce
<1>5. LogsRead(q)'
  BY <1>2, <1>3, <1>4 DEF LogsRead
<1>6. Sure(q)' = 0
  BY <1>3 DEF Sure
<1> QED
  BY <1>2, <1>3, <1>5, <1>6 DEF InForce, Crossing, Fresh, Mine

\* The other deployments, while one goes on or stops.
LEMMA Rest ==
    ASSUME DInv, NEW d \in Deployers, Deploying(d),
           \A q \in Deployers \ {d} : deployment'[q] = deployment[q],
           astray \subseteq astray', astray' \subseteq DeployEnvs,
           \A f \in DeployEnvs \ astray' : f # Target(d) =>
               logs'[f] = logs[f] /\ runs'[f] = runs[f],
           Deploying(d)' => deployment'[d].alone = deployment[d].alone
    PROVE  /\ Apart'
           /\ \A q \in Deployers \ {d} : InForce(q)'
PROOF
<1>1. \A q \in Deployers \ {d} : Deploying(q)' <=> Deploying(q)
  BY DEF Deploying
<1>2. \A q \in Deployers \ {d} : Deploying(q) => InForce(q)'
  BY OthersKeep
<1>3. \A q \in Deployers \ {d} : InForce(q)'
  BY <1>1, <1>2 DEF InForce
<1>4. \A q \in Deployers : Deploying(q)' =>
          Deploying(q) /\ deployment'[q].alone = deployment[q].alone
  BY <1>1
<1>5. Apart'
  BY <1>4 DEF DInv, Apart
<1> QED
  BY <1>3, <1>5

LEMMA FailsKeeps ==
    ASSUME DInv, NEW d \in Deployers, DeployFails(d)
    PROVE  DInv'
PROOF
<1>1. Deploying(d) /\ DeployTypeOK
  BY DEF DeployFails, DInv
<1>2. /\ deployment' \in [Deployers -> {NotDeploying} \cup Deployments]
      /\ ~Deploying(d)'
      /\ \A q \in Deployers \ {d} : deployment'[q] = deployment[q]
  BY <1>1, Stopped DEF DeployFails
<1>3. DeployTypeOK'
  BY <1>1, <1>2 DEF DeployTypeOK, DeployFails, deployHistory
<1>4. astray' = astray /\ logs' = logs /\ runs' = runs /\ astray \subseteq DeployEnvs
  BY <1>1 DEF DeployFails, deployHistory, DeployTypeOK
<1>5. Apart' /\ \A q \in Deployers \ {d} : InForce(q)'
  BY <1>1, <1>2, <1>4, Rest
<1>6. \A q \in Deployers : InForce(q)'
  BY <1>2, <1>5 DEF InForce
<1>7. (TagsRecorded /\ RunsRecorded /\ CompleteMeansRunning)'
  BY DEF DInv, TagsRecorded, RunsRecorded, CompleteMeansRunning, DeployFails,
         deployHistory
<1> QED
  BY <1>3, <1>5, <1>6, <1>7 DEF DInv

\* What a step keeps of a deployment that goes on.
LEMMA Onwards ==
    ASSUME DInv, NEW d \in Deployers, Deploying(d),
           NEW place \in Places, NEW doubt, Keeps(d, place, doubt),
           deployment[d].at # "apply",
           UNCHANGED <<runs, deploys, astray>>,
           \A f \in DeployEnvs \ astray : f # Target(d) => logs'[f] = logs[f],
           IF place = "apply" THEN logs'[Target(d)] = Version(d)
                              ELSE logs'[Target(d)] = logs[Target(d)],
           Mine(d)'
    PROVE  Apart' /\ \A q \in Deployers : InForce(q)'
PROOF
<1>1. astray \subseteq DeployEnvs /\ runs' = runs /\ astray' = astray
  BY DEF DInv, DeployTypeOK
<1>2. Apart' /\ \A q \in Deployers \ {d} : InForce(q)'
  BY <1>1, Rest DEF Keeps
<1>3. Building(d) /\ Crossing(d) /\ LogsRead(d) /\ Fresh(d)
  BY DEF DInv, InForce
<1>4. Target(d)' = Target(d) /\ Version(d)' = Version(d)
  BY DEF Keeps, Target, Version
<1>5. Building(d)' /\ Crossing(d)' /\ "build" \notin deployment[d].skip
  BY <1>1, <1>3, <1>4 DEF Building, Crossing, Keeps
<1>6. LogsRead(d)'
  BY <1>1, <1>3, <1>4 DEF LogsRead, Keeps
<1>7. Fresh(d)'
  <2>1. SUFFICES ASSUME Target(d) \notin astray
                 PROVE  Below(runs[Target(d)].version, Version(d)) /\ Recording(d)'
    BY <1>1, <1>4 DEF Fresh
  <2>2. /\ Below(runs[Target(d)].version, Version(d))
        /\ Below(logs[Target(d)], Version(d))
    BY <1>3, <2>1 DEF Fresh, Recording
  <2> QED
    BY <1>4, <1>5, <2>2 DEF Recording, Keeps
<1>8. InForce(d)'
  BY <1>5, <1>6, <1>7 DEF InForce
<1> QED
  BY <1>2, <1>8

\* Without an excuse the deployment is in doubt neither before nor after.
LEMMA SureStays ==
    ASSUME NEW d, NEW place, NEW doubt, Keeps(d, place, doubt), Sure(d)' # 0,
           deployment[d].doubtful \in BOOLEAN,
           doubt = deployment[d].doubtful \/ doubt = TRUE
    PROVE  /\ Sure(d) # 0 /\ doubt # TRUE /\ deployment[d].skip = {}
           /\ deployment[d].alone
PROOF
  BY DEF Keeps, Sure

LEMMA BuildKeeps ==
    ASSUME DInv, NEW d \in Deployers, BuildImage(d)
    PROVE  DInv'
PROOF
<1>1. /\ DeployTypeOK /\ Deploying(d) /\ deployment[d].at = "build"
      /\ UNCHANGED <<logs, tagged, registry, runs, deploys, open, astray, complete>>
  BY DEF DInv, BuildImage, Reached, deployHistory
<1>2. /\ deployment[d].id \in Nat /\ deployment[d].doubtful \in BOOLEAN
      /\ "tag" \in Places
  BY <1>1, Fields DEF Places
<1>3. PICK doubt :
          /\ Keeps(d, "tag", doubt)
          /\ doubt = deployment[d].doubtful \/ doubt = TRUE
          /\ doubt # TRUE => image' = deployment[d].id
          /\ image' \in Nat
  BY <1>1, <1>2, GoneOn DEF BuildImage, DeployTypeOK
<1>4. DeployTypeOK'
  BY <1>1, <1>3 DEF DeployTypeOK, Keeps
<1>5. Mine(d)'
  <2>1. Sure(d)' # 0 => image' = deployment'[d].id
    BY <1>2, <1>3, SureStays DEF Keeps
  <2> QED
    BY <1>3, <2>1 DEF Mine, Keeps
<1>6. Apart' /\ \A q \in Deployers : InForce(q)'
  BY <1>1, <1>2, <1>3, <1>5, Onwards
<1>7. (TagsRecorded /\ RunsRecorded /\ CompleteMeansRunning)'
  BY <1>1 DEF DInv, TagsRecorded, RunsRecorded, CompleteMeansRunning
<1> QED
  BY <1>4, <1>6, <1>7 DEF DInv

LEMMA TagKeeps ==
    ASSUME DInv, NEW d \in Deployers, TagImage(d)
    PROVE  DInv'
PROOF
<1> DEFINE next == IF "publish" \in deployment[d].skip THEN "save" ELSE "push"
           t == deployment[d].tag
<1>1. /\ DeployTypeOK /\ Deploying(d) /\ deployment[d].at = "tag"
      /\ UNCHANGED <<logs, image, registry, runs, deploys, open, astray, complete>>
  BY DEF DInv, TagImage, Reached, deployHistory
<1>2. /\ deployment[d].id \in Nat /\ deployment[d].doubtful \in BOOLEAN
      /\ next \in Places /\ t \in Tags /\ next # "apply"
  BY <1>1, Fields DEF Places
<1>3. PICK doubt :
          /\ Keeps(d, next, doubt)
          /\ doubt = deployment[d].doubtful \/ doubt = TRUE
          /\ doubt # TRUE => tagged' = Put(tagged, t, image)
          /\ tagged' = tagged \/ tagged' = Put(tagged, t, image)
  BY <1>1, <1>2, GoneOn DEF TagImage
<1>4. /\ DOMAIN Put(tagged, t, image) \subseteq Tags
      /\ \A x \in DOMAIN Put(tagged, t, image) : Put(tagged, t, image)[x] \in Nat
      /\ t \in DOMAIN Put(tagged, t, image) /\ Put(tagged, t, image)[t] = image
  <2>1. /\ DOMAIN tagged \subseteq Tags /\ image \in Nat /\ t \in Tags
        /\ \A x \in DOMAIN tagged : tagged[x] \in Nat
    BY <1>1, <1>2 DEF DeployTypeOK
  <2> HIDE DEF t
  <2> QED
    BY ONLY <2>1 DEF Put
<1>5. DeployTypeOK'
  <2>1. DOMAIN tagged' \subseteq Tags /\ \A x \in DOMAIN tagged' : tagged'[x] \in Nat
    BY <1>1, <1>3, <1>4 DEF DeployTypeOK
  <2> QED
    BY <1>1, <1>3, <2>1 DEF DeployTypeOK, Keeps
<1>6. Mine(d)'
  <2>1. SUFFICES ASSUME Sure(d)' # 0 PROVE Mine(d)'
    BY DEF Mine
  <2>2. /\ Sure(d) # 0 /\ deployment[d].skip = {} /\ doubt # TRUE
    BY <1>2, <1>3, <2>1, SureStays
  <2>3. image = deployment[d].id
    BY <1>1, <2>2 DEF DInv, InForce, Mine
  <2>4. t \in DOMAIN tagged' /\ tagged'[t] = deployment[d].id /\ next = "push"
    BY <1>3, <1>4, <2>2, <2>3
  <2> QED
    BY <1>3, <2>4 DEF Mine, Keeps
<1>7. Apart' /\ \A q \in Deployers : InForce(q)'
  BY <1>1, <1>2, <1>3, <1>6, Onwards
<1>8. (TagsRecorded /\ RunsRecorded /\ CompleteMeansRunning)'
  BY <1>1 DEF DInv, TagsRecorded, RunsRecorded, CompleteMeansRunning
<1> QED
  BY <1>5, <1>7, <1>8 DEF DInv

LEMMA PushKeeps ==
    ASSUME DInv, NEW d \in Deployers, Push(d)
    PROVE  DInv'
PROOF
<1> DEFINE t == deployment[d].tag
           moved == Put(registry, t, tagged[t])
<1>1. /\ DeployTypeOK /\ Deploying(d) /\ deployment[d].at = "push"
      /\ UNCHANGED <<logs, image, tagged, runs, deploys, astray, complete>>
  BY DEF DInv, Push, Reached
<1>2. /\ deployment[d].id \in Nat /\ deployment[d].doubtful \in BOOLEAN
      /\ "save" \in Places /\ t \in Tags
  BY <1>1, Fields DEF Places
<1>3. \/ registry' = registry /\ open' = open
      \/ /\ t \in DOMAIN tagged
         /\ registry' = moved /\ open' = open \cup {t}
  BY DEF Push
<1>4. ASSUME t \in DOMAIN tagged
      PROVE  /\ DOMAIN moved = DOMAIN registry \cup {t}
             /\ DOMAIN moved \subseteq Tags
             /\ \A x \in DOMAIN moved : moved[x] \in Nat
             /\ moved[t] = tagged[t]
             /\ \A x \in DOMAIN registry : x # t => moved[x] = registry[x]
  <2>1. /\ DOMAIN registry \subseteq Tags /\ tagged[t] \in Nat /\ t \in Tags
        /\ \A x \in DOMAIN registry : registry[x] \in Nat
    BY <1>1, <1>2, <1>4 DEF DeployTypeOK
  <2> HIDE DEF t
  <2> QED
    BY ONLY <2>1 DEF moved, Put
<1>5. /\ DOMAIN registry' \subseteq Tags
      /\ \A x \in DOMAIN registry' : registry'[x] \in Nat
      /\ open' \subseteq Tags
      /\ DOMAIN registry' \ open' \subseteq DOMAIN registry \ open
  BY <1>1, <1>2, <1>3, <1>4 DEF DeployTypeOK
<1>6. (TagsRecorded /\ RunsRecorded /\ CompleteMeansRunning)'
  BY <1>1, <1>5 DEF DInv, TagsRecorded, RunsRecorded, CompleteMeansRunning
<1>7. CASE Stops(d)
  <2>1. /\ deployment' \in [Deployers -> {NotDeploying} \cup Deployments]
        /\ ~Deploying(d)'
        /\ \A q \in Deployers \ {d} : deployment'[q] = deployment[q]
    BY <1>1, <1>7, Stopped
  <2>2. DeployTypeOK'
    BY <1>1, <1>5, <2>1 DEF DeployTypeOK
  <2>3. Apart' /\ \A q \in Deployers \ {d} : InForce(q)'
    <3>1. astray' = astray /\ logs' = logs /\ runs' = runs /\ astray \subseteq DeployEnvs
      BY <1>1 DEF DeployTypeOK
    <3> QED
      BY <1>1, <2>1, <3>1, Rest
  <2>4. \A q \in Deployers : InForce(q)'
    BY <2>1, <2>3 DEF InForce
  <2> QED
    BY <1>6, <2>2, <2>3, <2>4 DEF DInv
<1>8. CASE ~Stops(d)
  <2>1. PICK doubt :
            /\ Keeps(d, "save", doubt)
            /\ doubt = deployment[d].doubtful \/ doubt = TRUE
            /\ doubt # TRUE => t \in DOMAIN tagged /\ registry' = moved
    BY <1>1, <1>2, <1>8, GoneOn DEF Push
  <2>2. DeployTypeOK'
    BY <1>1, <1>5, <2>1 DEF DeployTypeOK, Keeps
  <2>3. Mine(d)'
    <3>1. SUFFICES ASSUME Sure(d)' # 0 PROVE Mine(d)'
      BY DEF Mine
    <3>2. Sure(d) # 0 /\ doubt # TRUE
      BY <1>2, <2>1, <3>1, SureStays
    <3>3. tagged[t] = deployment[d].id
      BY <1>1, <3>2 DEF DInv, InForce, Mine
    <3>4. t \in DOMAIN registry' /\ registry'[t] = deployment[d].id
      BY <1>4, <2>1, <3>2, <3>3
    <3> QED
      BY <2>1, <3>4 DEF Mine, Keeps
  <2>4. Apart' /\ \A q \in Deployers : InForce(q)'
    BY <1>1, <1>2, <2>1, <2>3, Onwards
  <2> QED
    BY <1>6, <2>2, <2>4 DEF DInv
<1> QED
  BY <1>7, <1>8

LEMMA SaveKeeps ==
    ASSUME DInv, NEW d \in Deployers, Save(d)
    PROVE  DInv'
PROOF
<1> DEFINE e == Target(d)
           v == Version(d)
<1>1. /\ DeployTypeOK /\ Deploying(d) /\ deployment[d].at = "save"
      /\ Onward(d, "apply")
      /\ logs' = deployment[d].logs /\ open' = open \ {deployment[d].tag}
      /\ UNCHANGED <<image, tagged, registry, runs, deploys, astray, complete>>
  BY DEF DInv, Save, Reached
<1>2. /\ deployment[d].id \in Nat /\ deployment[d].doubtful \in BOOLEAN
      /\ "apply" \in Places /\ e \in DeployEnvs /\ v \in TVersions
      /\ deployment[d].logs \in [DeployEnvs -> TVersions]
      /\ deployment[d].tag = [env |-> e, version |-> v]
  BY <1>1, Fields DEF Places
<1>3. Keeps(d, "apply", deployment[d].doubtful)
  BY <1>1, <1>2, GoneOn
<1>4. DeployTypeOK'
  BY <1>1, <1>2, <1>3 DEF DeployTypeOK, Keeps
<1>5. Mine(d)'
  <2>1. Sure(d)' = Sure(d)
    BY <1>3 DEF Keeps, Sure
  <2>2. Mine(d)
    BY <1>1 DEF DInv, InForce
  <2> QED
    BY <1>1, <1>3, <2>1, <2>2 DEF Mine, Keeps
<1>6. /\ logs'[e] = v
      /\ \A f \in DeployEnvs \ astray : f # e => logs'[f] = logs[f]
  BY <1>1 DEF DInv, InForce, LogsRead
<1>7. Apart' /\ \A q \in Deployers : InForce(q)'
  BY <1>1, <1>2, <1>3, <1>5, <1>6, Onwards
<1>8. e \notin astray => Below(logs[e], v) /\ Below(runs[e].version, v)
  BY <1>1 DEF DInv, InForce, Fresh, Recording
<1>9. TagsRecorded'
  <2>1. SUFFICES ASSUME NEW t \in DOMAIN registry \ open', t.env \notin astray
                 PROVE  ~Below(logs'[t.env], t.version)
    BY <1>1 DEF TagsRecorded
  <2>2. t \in Tags /\ t.env \in DeployEnvs /\ t.version \in TVersions
    <3>1. t \in Tags
      BY <1>1 DEF DeployTypeOK
    <3> QED
      BY <3>1 DEF Tags
  <2>3. CASE t.env # e
    <3>1. t \notin open
      BY <1>1, <1>2, <2>3
    <3> QED
      BY <1>6, <2>1, <2>2, <2>3, <3>1 DEF DInv, TagsRecorded
  <2>4. CASE t.env = e /\ t \in open
    <3>1. t.version = v
      BY <1>1, <1>2, <2>4
    <3> QED
      BY <1>2, <1>6, <1>8, <2>1, <2>4, <3>1, BelowChain
         DEF TVersions, Below
  <2>5. CASE t.env = e /\ t \notin open
    <3>1. ~Below(logs[e], t.version) /\ Below(logs[e], v)
      BY <1>8, <2>1, <2>5 DEF DInv, TagsRecorded
    <3>2. logs[e] \in TVersions
      BY <1>1, <1>2 DEF DeployTypeOK
    <3> QED
      BY <1>2, <1>6, <2>2, <2>5, <3>1, <3>2, BelowChain
  <2> QED
    BY <2>3, <2>4, <2>5
<1>10. RunsRecorded'
  <2>1. SUFFICES ASSUME NEW f \in DeployEnvs \ astray
                 PROVE  ~Below(logs'[f], runs[f].version)
    BY <1>1 DEF RunsRecorded
  <2>2. runs[f].version \in TVersions /\ runs[e].version \in TVersions
    BY <1>1, <1>2 DEF DeployTypeOK
  <2>3. CASE f # e
    BY <1>6, <2>3 DEF DInv, RunsRecorded
  <2>4. CASE f = e
    BY <1>2, <1>6, <1>8, <2>2, <2>4, BelowChain
  <2> QED
    BY <2>3, <2>4
<1>11. CompleteMeansRunning'
  BY <1>1 DEF DInv, CompleteMeansRunning
<1> QED
  BY <1>4, <1>7, <1>9, <1>10, <1>11 DEF DInv

LEMMA ApplyKeeps ==
    ASSUME DInv, NEW d \in Deployers, Apply(d)
    PROVE  DInv'
PROOF
<1> DEFINE t == deployment[d].tag
           e == Target(d)
           anew == t \in DOMAIN registry /\ t.version # runs[e].version
           run == [version |-> t.version, image |-> registry[t]]
<1>1. /\ DeployTypeOK /\ Deploying(d) /\ deployment[d].at = "apply" /\ Stops(d)
      /\ UNCHANGED <<logs, image, tagged, registry, deploys, open>>
  BY DEF DInv, Apply, Reached
<1>2. /\ deployment[d].id \in Nat /\ t \in Tags
      /\ e \in DeployEnvs /\ t.version \in TVersions
      /\ t = [env |-> e, version |-> Version(d)] /\ t.version = Version(d)
  BY <1>1, Fields DEF Version
<1>3. \/ /\ anew
         /\ runs' = [runs EXCEPT ![e] = run]
         /\ astray' = astray \cup
                (IF Below(logs[e], t.version) THEN {e} ELSE {})
         /\ complete' = [complete EXCEPT ![e] = Sure(d)]
      \/ /\ ~anew
         /\ complete' = [complete EXCEPT ![e] = Sure(d)]
         /\ runs' = runs /\ astray' = astray
      \/ /\ complete' = [complete EXCEPT ![e] = 0]
         /\ runs' = runs /\ astray' = astray
  BY DEF Apply, Target
<1>4. /\ deployment' \in [Deployers -> {NotDeploying} \cup Deployments]
      /\ ~Deploying(d)'
      /\ \A q \in Deployers \ {d} : deployment'[q] = deployment[q]
  BY <1>1, Stopped
<1>5. Sure(d) \in Nat
  BY <1>2 DEF Sure
<1>6. anew => run \in [version : TVersions, image : Nat]
  BY <1>1, <1>2 DEF DeployTypeOK
<1>7. DeployTypeOK'
  <2>1. astray' \subseteq DeployEnvs /\ complete' \in [DeployEnvs -> Nat]
    BY <1>1, <1>2, <1>3, <1>5 DEF DeployTypeOK
  <2>2. runs' \in [DeployEnvs -> [version : TVersions, image : Nat]]
    BY <1>1, <1>3, <1>6 DEF DeployTypeOK
  <2> QED
    BY <1>1, <1>4, <2>1, <2>2 DEF DeployTypeOK
<1>8. astray \subseteq astray'
  BY <1>3
<1>9. \A f \in DeployEnvs : f # e => runs'[f] = runs[f] /\ complete'[f] = complete[f]
  BY <1>1, <1>3 DEF DeployTypeOK
<1>10. Apart' /\ \A q \in Deployers : InForce(q)'
  <2>1. astray' \subseteq DeployEnvs
    BY <1>7 DEF DeployTypeOK
  <2>2. Apart' /\ \A q \in Deployers \ {d} : InForce(q)'
    BY <1>1, <1>4, <1>8, <1>9, <2>1, Rest
  <2> QED
    BY <1>4, <2>2 DEF InForce
<1>11. TagsRecorded'
  BY <1>1, <1>8 DEF DInv, TagsRecorded
<1>12. RunsRecorded'
  <2>1. SUFFICES ASSUME NEW f \in DeployEnvs \ astray'
                 PROVE  ~Below(logs[f], runs'[f].version)
    BY <1>1 DEF RunsRecorded
  <2>2. f \notin astray
    BY <1>8
  <2>3. CASE runs'[f] = runs[f]
    BY <2>2, <2>3 DEF DInv, RunsRecorded
  <2>4. CASE runs'[f] # runs[f]
    <3>1. f = e /\ runs' = [runs EXCEPT ![e] = run] /\ ~Below(logs[e], t.version)
      BY <1>3, <1>9, <2>4
    <3> QED
      BY <1>1, <1>2, <3>1 DEF DeployTypeOK
  <2> QED
    BY <2>3, <2>4
<1>13. CompleteMeansRunning'
  <2>1. SUFFICES ASSUME NEW f \in DeployEnvs, complete'[f] # 0, f \notin astray'
                 PROVE  runs'[f].image = complete'[f]
    BY DEF CompleteMeansRunning
  <2>2. CASE f # e
    BY <1>8, <1>9, <2>1, <2>2 DEF DInv, CompleteMeansRunning
  <2>3. CASE f = e
    <3>1. e \notin astray /\ complete'[e] = Sure(d) /\ Sure(d) # 0
      BY <1>1, <1>2, <1>3, <1>8, <2>1, <2>3 DEF DeployTypeOK
    <3>2. /\ t \in DOMAIN registry /\ registry[t] = deployment[d].id
          /\ Below(runs[e].version, Version(d))
      BY <1>1, <3>1 DEF DInv, InForce, Mine, Fresh
    <3>3. anew
      <4>1. runs[e].version \in TVersions
        BY <1>1, <1>2 DEF DeployTypeOK
      <4> QED
        BY <1>2, <3>2, <4>1 DEF TVersions, Below
    <3>4. complete' # [complete EXCEPT ![e] = 0]
      BY <1>1, <1>2, <2>1, <2>3 DEF DeployTypeOK
    <3>5. runs' = [runs EXCEPT ![e] = run]
      BY <1>3, <3>3, <3>4
    <3>6. runs'[e].image = deployment[d].id
      BY <1>1, <1>2, <3>2, <3>5 DEF DeployTypeOK
    <3> QED
      BY <2>3, <3>1, <3>6 DEF Sure
  <2> QED
    BY <2>2, <2>3
<1> QED
  BY <1>7, <1>10, <1>11, <1>12, <1>13 DEF DInv

LEMMA BeginKeeps ==
    ASSUME DInv, NEW d \in Deployers, NEW e \in DeployEnvs, NEW v \in TVersions,
           NEW skip \in Skips, Begin(d, e, v, skip),
           astray \cup Crossed(e) \subseteq astray', astray' \subseteq DeployEnvs,
           e \notin astray' => Below(logs[e], v)
    PROVE  DInv'
PROOF
<1> DEFINE others == {q \in Deployers : Deploying(q)}
           new == [at |-> IF "build" \in skip THEN "apply" ELSE "build",
                   id |-> deploys + 1, tag |-> [env |-> e, version |-> v],
                   logs |-> [logs EXCEPT ![e] = v], skip |-> skip,
                   alone |-> others = {}, doubtful |-> FALSE]
<1>1. /\ DeployTypeOK /\ ~Deploying(d) /\ deploys < MaxDeploys
      /\ deploys' = deploys + 1
      /\ UNCHANGED <<logs, image, tagged, registry, runs, open, complete>>
  BY DEF DInv, Begin
<1>2. /\ deployment'[d] = new
      /\ \A q \in others : deployment'[q] = [deployment[q] EXCEPT !.alone = FALSE]
      /\ \A q \in Deployers \ {d} : q \notin others => deployment'[q] = deployment[q]
      /\ DOMAIN deployment' = Deployers /\ deployment' = [q \in Deployers |-> deployment'[q]]
  BY <1>1 DEF Begin
<1>2a. others # {} => new.alone = FALSE
  OBVIOUS
<1>3. new \in Deployments
  <2>1. [logs EXCEPT ![e] = v] \in [DeployEnvs -> TVersions] /\ deploys + 1 \in Nat
    BY <1>1 DEF DeployTypeOK
  <2> QED
    BY <2>1 DEF Deployments, Tags
<1>4. \A q \in others : /\ deployment'[q] \in Deployments /\ ~deployment'[q].alone
                        /\ deployment'[q].at = deployment[q].at
                        /\ deployment'[q].tag = deployment[q].tag
                        /\ deployment'[q].logs = deployment[q].logs
                        /\ deployment'[q].skip = deployment[q].skip
  <2> SUFFICES ASSUME NEW q \in others
               PROVE  /\ deployment'[q] \in Deployments /\ ~deployment'[q].alone
                      /\ deployment'[q].at = deployment[q].at
                      /\ deployment'[q].tag = deployment[q].tag
                      /\ deployment'[q].logs = deployment[q].logs
                      /\ deployment'[q].skip = deployment[q].skip
    OBVIOUS
  <2>1. deployment[q] \in Deployments
    BY <1>1, Fields
  <2>2. deployment'[q] = [deployment[q] EXCEPT !.alone = FALSE]
    BY <1>2
  <2> QED
    BY <2>1, <2>2 DEF Deployments
<1>5. DeployTypeOK'
  <2>1. ASSUME NEW q \in Deployers
        PROVE  deployment'[q] \in {NotDeploying} \cup Deployments
    <3>1. CASE q = d
      BY <1>2, <1>3, <3>1
    <3>2. CASE q \in others
      BY <1>4, <3>2
    <3>3. CASE q # d /\ q \notin others
      BY <1>1, <1>2, <3>3 DEF DeployTypeOK
    <3> QED
      BY <3>1, <3>2, <3>3
  <2>2. deploys + 1 \in 0 .. MaxDeploys
    BY <1>1, DeployAssumption DEF DeployTypeOK
  <2> QED
    BY <1>1, <1>2, <2>1, <2>2 DEF DeployTypeOK
<1>6. \A q \in Deployers \ {d} : Deploying(q)' => q \in others
  BY <1>2 DEF Deploying
<1>7. Apart'
  <2>1. others # {} => ~deployment'[d].alone
    BY <1>2, <1>2a
  <2>2. \A q \in Deployers \ {d} : Deploying(q)' => ~deployment'[q].alone
    BY <1>4, <1>6
  <2>3. \A q \in Deployers \ {d} : Deploying(q)' => others # {}
    BY <1>6
  <2> HIDE DEF others, new
  <2> QED
    BY <2>1, <2>2, <2>3 DEF Apart
<1>8. others # {} => e \in astray' /\ \A q \in others : Target(q) \in astray'
  BY DEF Crossed, Target
<1>9. ASSUME NEW q \in others PROVE InForce(q)'
  <2>1. Building(q) /\ LogsRead(q)
    BY <1>9 DEF DInv, InForce
  <2>2. Target(q)' = Target(q) /\ Version(q)' = Version(q) /\ Target(q) \in astray'
    BY <1>4, <1>8 DEF Target, Version
  <2>3. LogsRead(q)' /\ Building(q)'
    BY <1>1, <1>4, <2>1, <2>2 DEF LogsRead, Building
  <2>4. Sure(q)' = 0
    BY <1>4 DEF Sure
  <2> QED
    BY <2>2, <2>3, <2>4 DEF InForce, Crossing, Fresh, Mine
<1>10. InForce(d)'
  <2>1. Target(d)' = e /\ Version(d)' = v
    BY <1>2 DEF Target, Version
  <2>2. Building(d)' /\ Crossing(d)'
    <3>1. /\ deployment'[d].at # "apply" => "build" \notin deployment'[d].skip
          /\ ~deployment'[d].alone => others # {}
      <4> HIDE DEF others
      <4>1. deployment'[d].at # "apply" => "build" \notin deployment'[d].skip
        BY <1>2
      <4>2. ~deployment'[d].alone => others # {}
        <5>1. new.alone \in BOOLEAN /\ (others = {} \/ others # {})
          OBVIOUS
        <5>2. others = {} => new.alone = TRUE
          OBVIOUS
        <5> QED
          BY <1>2, <5>1, <5>2
      <4> QED
        BY <4>1, <4>2
    <3> HIDE DEF others, new
    <3> QED
      BY <1>8, <2>1, <3>1 DEF Building, Crossing
  <2>3. LogsRead(d)'
    BY <1>1, <1>2, <2>1 DEF LogsRead, DeployTypeOK
  <2>4. Fresh(d)'
    <3>1. SUFFICES ASSUME e \notin astray'
                   PROVE  Below(runs[e].version, v) /\ Recording(d)'
      BY <1>1, <2>1 DEF Fresh
    <3>2. Below(logs[e], v) /\ ~Below(logs[e], runs[e].version)
      BY <3>1 DEF DInv, RunsRecorded
    <3>3. runs[e].version \in TVersions /\ logs[e] \in TVersions
      BY <1>1 DEF DeployTypeOK
    <3>4. Below(runs[e].version, v)
      BY <3>2, <3>3, BelowChain
    <3> QED
      BY <1>1, <1>2, <2>1, <3>2, <3>4 DEF Recording
  <2>5. Mine(d)'
    BY <1>2 DEF Mine, Sure
  <2> QED
    BY <2>2, <2>3, <2>4, <2>5 DEF InForce
<1>11. \A q \in Deployers : InForce(q)'
  BY <1>6, <1>9, <1>10 DEF InForce
<1>12. (TagsRecorded /\ RunsRecorded /\ CompleteMeansRunning)'
  BY <1>1 DEF DInv, TagsRecorded, RunsRecorded, CompleteMeansRunning
<1> QED
  BY <1>5, <1>7, <1>11, <1>12 DEF DInv
-----------------------------------------------------------------------------
LEMMA DeployInitHolds == DeployInit => DInv
PROOF
<1> SUFFICES ASSUME DeployInit PROVE DInv
  OBVIOUS
<1>1. Zero \in TVersions /\ ~Below(Zero, Zero)
  BY DEF Zero, TVersions, Below
<1>2. DeployTypeOK
  BY <1>1, DeployAssumption DEF DeployInit, DeployTypeOK
<1> QED
  BY <1>1, <1>2 DEF DeployInit, DInv, Apart, InForce, Deploying, NotDeploying,
         TagsRecorded, RunsRecorded, CompleteMeansRunning

\* A deployment of a version that is asked for begins.
LEMMA VersionKeeps ==
    ASSUME DInv, NEW d \in Deployers, NEW e \in DeployEnvs, NEW skip \in Skips,
           NEW v \in TVersions, DeployVersion(d, e, v, skip)
    PROVE  DInv'
PROOF
<1>1. astray \subseteq DeployEnvs /\ DeployTypeOK
  BY DEF DInv, DeployTypeOK
<1>2. Crossed(e) \subseteq DeployEnvs
  BY <1>1, Fields DEF Crossed, Target
<1>3. /\ astray \cup Crossed(e) \subseteq astray' /\ astray' \subseteq DeployEnvs
      /\ e \notin astray' => Below(logs[e], v)
  BY <1>1, <1>2 DEF DeployVersion
<1> QED
  BY <1>1, <1>3, BeginKeeps DEF DeployVersion

LEMMA DeployStepHolds == DInv /\ [DeployNext]_deployVars => DInv'
PROOF
<1> SUFFICES ASSUME DInv, [DeployNext]_deployVars PROVE DInv'
  OBVIOUS
<1>1. CASE UNCHANGED deployVars
  BY <1>1 DEF deployVars, deployHistory, DInv, DeployTypeOK, Apart, InForce,
         Building, Crossing, LogsRead, Fresh, Recording, Mine, Sure, Deploying,
         Target, Version, TagsRecorded, RunsRecorded, CompleteMeansRunning
<1>2. ASSUME NEW d \in Deployers, NEW e \in DeployEnvs, NEW skip \in Skips,
             NEW type \in DeployTypes, Deploy(d, e, type, skip)
      PROVE  DInv'
  <2>1. logs[e] \in TVersions /\ astray \subseteq DeployEnvs /\ DeployTypeOK
    BY DEF DInv, DeployTypeOK
  <2>2. Crossed(e) \subseteq DeployEnvs
    BY <2>1, Fields DEF Crossed, Target
  <2>3. /\ Follower(logs[e], type) \in TVersions
        /\ Below(logs[e], Follower(logs[e], type))
    BY <2>1, FollowerAbove, DeployAssumption
  <2> QED
    BY <1>2, <2>1, <2>2, <2>3, BeginKeeps DEF Deploy
<1>3. ASSUME NEW d \in Deployers, NEW e \in DeployEnvs, NEW skip \in Skips,
             NEW asked \in Given,
             DeployVersion(d, e, Completed(asked.version, Follower(logs[e], asked.type)),
                           skip)
      PROVE  DInv'
  <2>1. Completed(asked.version, Follower(logs[e], asked.type)) \in TVersions
    BY CompletedIs DEF DInv, DeployTypeOK
  <2> QED
    BY <1>3, <2>1, VersionKeeps
<1>4. ASSUME NEW d \in Deployers,
             \/ BuildImage(d) \/ TagImage(d) \/ Push(d) \/ Save(d) \/ Apply(d)
             \/ DeployFails(d)
      PROVE  DInv'
  BY <1>4, BuildKeeps, TagKeeps, PushKeeps, SaveKeeps, ApplyKeeps, FailsKeeps
<1> QED
  BY <1>1, <1>2, <1>3, <1>4 DEF DeployNext

\* The invariant holds in every state of the specification.
THEOREM DeployInvariant == DeploySpec => []DInv
PROOF
  BY DeployInitHolds, DeployStepHolds, PTL DEF DeploySpec

\* The logs, the tags and what the environments run are of their types.
THEOREM DeployTypeCorrect == DeploySpec => []DeployTypeOK
PROOF
<1>1. DInv => DeployTypeOK
  BY DEF DInv
<1> QED
  BY <1>1, DeployInvariant, PTL

\* A complete deployment is what its environment runs.
THEOREM CompleteCorrect == DeploySpec => []CompleteMeansRunning
PROOF
<1>1. DInv => CompleteMeansRunning
  BY DEF DInv
<1> QED
  BY <1>1, DeployInvariant, PTL

\* Only a push moves a tag, and the version of a push is above the recorded one.
LEMMA OnlyOpenMove ==
    ASSUME DInv, DeployNext, NEW t \in DOMAIN registry, registry'[t] # registry[t]
    PROVE  t \in open \/ t.env \in astray
PROOF
<1>1. PICK d \in Deployers : Push(d)
  BY DEF DeployNext, Deploy, DeployVersion, Begin, BuildImage, TagImage, Save, Apply,
         DeployFails
<1>2. /\ Deploying(d) /\ DeployTypeOK /\ t = deployment[d].tag
      /\ deployment[d].at = "push"
  BY <1>1 DEF DInv, Push, Reached, Put
<1>3. SUFFICES ASSUME t.env \notin astray, t \notin open PROVE FALSE
  OBVIOUS
<1>4. Below(logs[t.env], t.version)
  BY <1>2, <1>3 DEF DInv, InForce, Fresh, Recording, Target, Version
<1> QED
  BY <1>3, <1>4 DEF DInv, TagsRecorded

\* A tag whose deployment was recorded is never moved to another image.
THEOREM TagsCorrect == DeploySpec => TagsAreNotMoved
PROOF
<1>1. DInv /\ [DeployNext]_deployVars =>
        [\A t \in DOMAIN registry :
            registry'[t] # registry[t] => t \in open \/ t.env \in astray]_deployVars
  BY OnlyOpenMove
<1> QED
  BY <1>1, DeployInvariant, PTL DEF DeploySpec, TagsAreNotMoved
=============================================================================
