----------------------- MODULE RequestPipelineProofs -----------------------
(***************************************************************************)
(* For any number of requests, keys and hooks: the type invariant of       *)
(* RequestPipeline, the gauge, the answers, the order of hooks and         *)
(* handler, and the exclusion by key.                                      *)
(***************************************************************************)
EXTENDS RequestPipeline, FiniteSetTheorems, TLAPS

\* What FailuresAreAnswered says of one request.
Answered(r) ==
    /\ thrown[r] = "error" => answer[r] = <<"error">>
    /\ thrown[r] = "nothing" => answer[r] # <<"error">>
    /\ thrown[r] = "falsy" => answer[r] \in {<<>>, <<"error">>}

\* What holds of a request at each stage: it has a key from the lock on and
\* none before, it has thrown only on its way to the error handler, nothing is
\* written before the last step, and a handler with a key runs under the lock or
\* has lost it.
Coherent ==
    \A r \in Requests :
        /\ stage[r] \in {"new", "pre", "build", "key"} => key[r] = Null
        /\ stage[r] \in {"waiting", "releasing"} => key[r] # Null
        /\ stage[r] \notin {"releasing", "failing", "done"} => thrown[r] = "nothing"
        /\ stage[r] = "failing" => thrown[r] # "nothing"
        /\ stage[r] \notin {"releasing", "done"} => answer[r] = <<>>
        /\ stage[r] = "releasing" => answer[r] # <<"error">>
        /\ stage[r] = "releasing" /\ thrown[r] # "nothing" => answer[r] = <<>>
        /\ stage[r] = "done" => Answered(r)
        /\ r \in Handling /\ key[r] # Null => lock[key[r]] = r \/ r \in lapsed

IInv == TypeOK /\ GaugeIsExact /\ Coherent

\* The answers a request can have are what its only write makes of nothing.
LEMMA OneAnswer ==
    /\ Append(<<>>, "error") = <<"error">>
    /\ Append(<<>>, "response") = <<"response">>
    /\ <<"error">> # <<"response">>
    /\ <<>> # <<"error">> /\ <<>> # <<"response">>
  OBVIOUS

\* Initially nothing is handled, held or answered.
LEMMA InitHolds == Init => IInv
<1> SUFFICES ASSUME Init PROVE IInv
  OBVIOUS
<1>1. Handling = {}
  BY DEF Init, Handling
<1>2. TypeOK
  <2>1. Cardinality(Requests) \in Nat
    BY PipelineAssumption, FS_CardinalityType
  <2> QED
    BY <2>1, PipelineAssumption DEF Init, TypeOK, Stages
<1>3. GaugeIsExact
  BY <1>1, FS_EmptySet DEF Init, GaugeIsExact
<1>4. Coherent
  BY <1>1, OneAnswer DEF Init, Coherent
<1> QED
  BY <1>2, <1>3, <1>4 DEF IInv
-----------------------------------------------------------------------------
\* The gauge and the set of handled requests move together.
LEMMA Handled ==
    ASSUME IInv
    PROVE  /\ Handling \subseteq Requests /\ IsFiniteSet(Handling)
           /\ Cardinality(Handling) \in Nat /\ Cardinality(Requests) \in Nat
           /\ inFlight = Cardinality(Handling)
<1>1. Handling \subseteq Requests
  BY DEF Handling
<1>2. IsFiniteSet(Handling)
  BY <1>1, PipelineAssumption, FS_Subset
<1> QED
  BY <1>1, <1>2, PipelineAssumption, FS_CardinalityType DEF IInv, GaugeIsExact

\* A set of requests is counted by the gauge's type.
LEMMA GaugeType ==
    ASSUME GaugeIsExact'
    PROVE  (inFlight \in 0..Cardinality(Requests))'
<1>1. Handling' \subseteq Requests
  BY DEF Handling
<1>2. /\ Cardinality(Handling') \in Nat /\ Cardinality(Requests) \in Nat
      /\ Cardinality(Handling') <= Cardinality(Requests)
  BY <1>1, PipelineAssumption, FS_Subset, FS_CardinalityType
<1> QED
  BY <1>2 DEF GaugeIsExact

LEMMA GaugeRises ==
    ASSUME IInv, NEW r \in Requests, r \notin Handling,
           Handling' = Handling \cup {r}, inFlight' = inFlight + 1
    PROVE  GaugeIsExact'
  BY Handled, FS_AddElement DEF GaugeIsExact

LEMMA GaugeFalls ==
    ASSUME IInv, NEW r \in Requests, r \in Handling,
           Handling' = Handling \ {r}, inFlight' = inFlight - 1
    PROVE  GaugeIsExact'
<1>1. Cardinality(Handling \ {r}) = Cardinality(Handling) - 1
  BY Handled, FS_RemoveElement
<1> QED
  BY <1>1, Handled DEF GaugeIsExact

LEMMA GaugeStays ==
    ASSUME IInv, Handling' = Handling, inFlight' = inFlight
    PROVE  GaugeIsExact'
  BY DEF IInv, GaugeIsExact

\* How one request's change of stage changes the set of handled requests.
LEMMA HandlingMoves ==
    ASSUME TypeOK, NEW r \in Requests, NEW s, GoTo(r, s)
    PROVE  Handling' = IF s \in {"handling", "post", "responding"}
                       THEN Handling \cup {r} ELSE Handling \ {r}
  BY DEF TypeOK, GoTo, Handling
-----------------------------------------------------------------------------
\* Where each request stands in the row of hooks: at the first one until it is
\* handled, never past the last one while hooks run.
HooksInTurn ==
    /\ stage \in [Requests -> Stages]
    /\ hook \in [Requests -> 1..HookCount + 1]
    /\ \A r \in Requests :
        /\ stage[r] \in {"pre", "post"} => hook[r] <= HookCount
        /\ stage[r] \in {"new", "build", "key", "waiting", "handling"} => hook[r] = 1

LEMMA InitHooks == Init => HooksInTurn
  BY PipelineAssumption DEF Init, HooksInTurn, Stages

\* The steps of one request keep its place in the row.
LEMMA ProceedHooks ==
    ASSUME HooksInTurn, NEW r \in Requests, Proceed(r)
    PROVE  HooksInTurn'
<1>1. CASE Arrive(r)
  BY <1>1, PipelineAssumption DEF Arrive, Throw, GoTo, HooksInTurn, Stages
<1>2. CASE PreHook(r)
  <2>1. CASE hook[r] = HookCount
    <3>1. PICK s \in {"build", "failing"} : GoTo(r, s)
      BY <1>2, <2>1 DEF PreHook, Throw
    <3>2. hook' = [hook EXCEPT ![r] = 1] \/ (hook' = hook /\ s = "failing")
      BY <1>2, <2>1, <3>1 DEF PreHook, Throw, GoTo, HooksInTurn
    <3>3. 1 \in 1..HookCount + 1
      BY PipelineAssumption
    <3> QED
      BY <3>1, <3>2, <3>3 DEF GoTo, HooksInTurn, Stages
  <2>2. CASE hook[r] # HookCount
    <3>1. hook[r] \in 1..HookCount /\ hook[r] + 1 \in 1..HookCount
      BY <1>2, <2>2, PipelineAssumption DEF PreHook, HooksInTurn
    <3> QED
      BY <1>2, <2>2, <3>1, PipelineAssumption
         DEF PreHook, Throw, GoTo, Note, HooksInTurn, Stages
  <2> QED
    BY <2>1, <2>2
<1>3. CASE Build(r)
  BY <1>3 DEF Build, Throw, GoTo, HooksInTurn, Stages
<1>4. CASE Identify(r)
  BY <1>4 DEF Identify, BeginHandle, Throw, GoTo, HooksInTurn, Stages
<1>5. CASE Handle(r)
  BY <1>5, PipelineAssumption
     DEF Handle, HandleThrows, EndHandle, GoTo, Note, HooksInTurn, Stages
<1>6. CASE PostHook(r)
  <2>1. hook[r] + 1 \in 1..HookCount + 1
    BY <1>6, PipelineAssumption DEF PostHook, HooksInTurn
  <2>2. hook[r] # HookCount => hook[r] + 1 <= HookCount
    BY <1>6, PipelineAssumption DEF PostHook, HooksInTurn
  <2> QED
    BY <1>6, <2>1, <2>2 DEF PostHook, HandleThrows, EndHandle, GoTo, Note, HooksInTurn, Stages
<1>7. CASE Respond(r)
  BY <1>7 DEF Respond, HandleThrows, EndHandle, GoTo, HooksInTurn, Stages
<1>8. CASE Release(r)
  BY <1>8 DEF Release, GoTo, HooksInTurn, Stages
<1>9. CASE HandleError(r)
  BY <1>9 DEF HandleError, GoTo, HooksInTurn, Stages
<1> QED
  BY <1>1, <1>2, <1>3, <1>4, <1>5, <1>6, <1>7, <1>8, <1>9 DEF Proceed

LEMMA HooksStep == HooksInTurn /\ [Next]_vars => HooksInTurn'
<1> SUFFICES ASSUME HooksInTurn, [Next]_vars PROVE HooksInTurn'
  OBVIOUS
<1>1. ASSUME NEW r \in Requests, Grant(r) PROVE HooksInTurn'
  BY <1>1 DEF Grant, BeginHandle, GoTo, HooksInTurn, Stages
<1>2. ASSUME NEW r \in Requests, TurnAway(r) PROVE HooksInTurn'
  BY <1>2 DEF TurnAway, GoTo, HooksInTurn, Stages
<1>3. ASSUME NEW r \in Requests, Lapse(r) PROVE HooksInTurn'
  BY <1>3 DEF Lapse, HooksInTurn
<1>4. CASE UNCHANGED vars
  BY <1>4 DEF vars, HooksInTurn
<1> QED
  BY <1>1, <1>2, <1>3, <1>4, ProceedHooks DEF Next
-----------------------------------------------------------------------------
(* What the trail of a request looks like at each stage. *)

Steps == {"pre", "handler", "post"}

\* All pre hooks come first, and the handler is next if it is there.
InOrder(t) ==
    \A i \in DOMAIN t :
        /\ t[i] = "pre" <=> i <= HookCount
        /\ t[i] = "handler" => i = HookCount + 1

TrailsInTurn ==
    /\ trail \in [Requests -> Seq(Steps)]
    /\ \A r \in Requests :
        /\ InOrder(trail[r])
        /\ stage[r] = "new" => trail[r] = <<>>
        /\ stage[r] = "pre" => Len(trail[r]) = hook[r] - 1
        /\ stage[r] \in {"build", "key", "waiting", "handling"} =>
              Len(trail[r]) = HookCount
        /\ stage[r] = "post" => Len(trail[r]) >= HookCount

LEMMA InitTrails == Init => TrailsInTurn
  BY DEF Init, TrailsInTurn, InOrder

\* What may be noted next.
LEMMA NotedInOrder ==
    ASSUME NEW t \in Seq(Steps), InOrder(t), NEW what \in Steps,
           \/ what = "pre" /\ Len(t) < HookCount
           \/ what = "handler" /\ Len(t) = HookCount
           \/ what = "post" /\ Len(t) >= HookCount
    PROVE  /\ InOrder(Append(t, what))
           /\ Append(t, what) \in Seq(Steps)
           /\ Len(Append(t, what)) = Len(t) + 1
<1>1. /\ DOMAIN Append(t, what) = 1..Len(t) + 1
      /\ \A i \in 1..Len(t) : Append(t, what)[i] = t[i] /\ i \in DOMAIN t
      /\ Append(t, what)[Len(t) + 1] = what
  OBVIOUS
<1>2. ASSUME NEW i \in DOMAIN Append(t, what)
      PROVE  /\ Append(t, what)[i] = "pre" <=> i <= HookCount
             /\ Append(t, what)[i] = "handler" => i = HookCount + 1
  <2>1. CASE i \in 1..Len(t)
    BY <1>1, <2>1 DEF InOrder
  <2>2. CASE i = Len(t) + 1
    BY <1>1, <2>2, PipelineAssumption
  <2> QED
    BY <1>1, <2>1, <2>2
<1> QED
  BY <1>2 DEF InOrder

\* A step that notes nothing, and leads where as much is asked of the trail.
LEMMA SilentKeepsTrails ==
    ASSUME TrailsInTurn, HooksInTurn, NEW r \in Requests, NEW s \in Stages,
           GoTo(r, s), UNCHANGED <<hook, trail>>,
           s # "new",
           s \in {"pre", "build"} => stage[r] = "new" /\ (s = "build" => HookCount = 0),
           s \in {"key", "waiting", "handling"} =>
              stage[r] \in {"build", "key", "waiting"},
           s = "post" => stage[r] = "handling"
    PROVE  TrailsInTurn'
<1>1. /\ stage'[r] = s
      /\ \A q \in Requests \ {r} : stage'[q] = stage[q]
  BY DEF GoTo, HooksInTurn
<1>2. stage[r] = "new" => Len(trail[r]) = 0 /\ hook[r] = 1
  BY DEF TrailsInTurn, HooksInTurn
<1> QED
  BY <1>1, <1>2, PipelineAssumption DEF TrailsInTurn

\* A step that notes what comes next.
LEMMA NotingKeepsTrails ==
    ASSUME TrailsInTurn, HooksInTurn, NEW r \in Requests, NEW s \in Stages,
           NEW what \in Steps, GoTo(r, s), Note(r, what),
           \A q \in Requests \ {r} : hook'[q] = hook[q],
           \/ /\ what = "pre" /\ stage[r] = "pre"
              /\ \/ s = "pre" /\ hook[r] < HookCount /\ hook'[r] = hook[r] + 1
                 \/ s = "build" /\ hook[r] = HookCount
           \/ what = "handler" /\ stage[r] = "handling" /\ s \in {"post", "responding"}
           \/ what = "post" /\ stage[r] = "post" /\ s \in {"post", "responding"}
    PROVE  TrailsInTurn'
<1>1. /\ stage'[r] = s
      /\ \A q \in Requests \ {r} : stage'[q] = stage[q]
  BY DEF GoTo, HooksInTurn
<1>2. /\ trail'[r] = Append(trail[r], what)
      /\ \A q \in Requests \ {r} : trail'[q] = trail[q]
  BY DEF Note, TrailsInTurn
<1>3. /\ trail[r] \in Seq(Steps) /\ InOrder(trail[r])
      /\ what = "pre" => Len(trail[r]) = hook[r] - 1
      /\ what = "handler" => Len(trail[r]) = HookCount
      /\ what = "post" => Len(trail[r]) >= HookCount
      /\ stage[r] = "pre" => hook[r] \in 1..HookCount
  BY DEF TrailsInTurn, HooksInTurn
<1>4. /\ InOrder(trail'[r]) /\ trail'[r] \in Seq(Steps)
      /\ Len(trail'[r]) = Len(trail[r]) + 1
  <2>1. \/ what = "pre" /\ Len(trail[r]) < HookCount
        \/ what = "handler" /\ Len(trail[r]) = HookCount
        \/ what = "post" /\ Len(trail[r]) >= HookCount
    BY <1>3, PipelineAssumption
  <2> QED
    BY <1>2, <1>3, <2>1, NotedInOrder
<1>5. /\ s = "pre" => Len(trail'[r]) = hook'[r] - 1
      /\ s = "build" => Len(trail'[r]) = HookCount
      /\ s = "post" => Len(trail'[r]) >= HookCount
  BY <1>3, <1>4, PipelineAssumption
<1>6. trail' \in [Requests -> Seq(Steps)]
  BY <1>2, <1>4 DEF Note, TrailsInTurn
<1>7. \A q \in Requests \ {r} :
        /\ InOrder(trail'[q])
        /\ stage'[q] = "new" => trail'[q] = <<>>
        /\ stage'[q] = "pre" => Len(trail'[q]) = hook'[q] - 1
        /\ stage'[q] \in {"build", "key", "waiting", "handling"} =>
              Len(trail'[q]) = HookCount
        /\ stage'[q] = "post" => Len(trail'[q]) >= HookCount
  BY <1>1, <1>2 DEF TrailsInTurn
<1>8. s \in {"pre", "build", "post", "responding"}
  OBVIOUS
<1> QED
  BY <1>1, <1>4, <1>5, <1>6, <1>7, <1>8 DEF TrailsInTurn, InOrder

\* The steps of one request.
LEMMA ProceedTrails ==
    ASSUME TrailsInTurn, HooksInTurn, NEW r \in Requests, Proceed(r)
    PROVE  TrailsInTurn'
<1>1. CASE Arrive(r)
  <2>1. PICK s \in {"build", "pre", "failing"} :
            GoTo(r, s) /\ (s = "build" => HookCount = 0)
    BY <1>1 DEF Arrive, Throw
  <2> QED
    BY <1>1, <2>1, SilentKeepsTrails DEF Arrive, Stages
<1>2. CASE PreHook(r)
  <2>1. CASE GoTo(r, "failing") /\ UNCHANGED <<hook, trail>>
    BY <2>1, SilentKeepsTrails DEF Stages
  <2>2. CASE /\ GoTo(r, IF hook[r] = HookCount THEN "build" ELSE "pre")
             /\ hook' = [hook EXCEPT ![r] = IF @ = HookCount THEN 1 ELSE @ + 1]
             /\ Note(r, "pre")
    <3>1. stage[r] = "pre" /\ hook[r] \in 1..HookCount
      BY <1>2 DEF PreHook, HooksInTurn
    <3>2. /\ hook'[r] = IF hook[r] = HookCount THEN 1 ELSE hook[r] + 1
          /\ \A q \in Requests \ {r} : hook'[q] = hook[q]
      BY <2>2 DEF HooksInTurn
    <3>3. CASE hook[r] = HookCount
      BY <2>2, <3>1, <3>2, <3>3, NotingKeepsTrails DEF Stages, Steps
    <3>4. CASE hook[r] # HookCount
      BY <2>2, <3>1, <3>2, <3>4, PipelineAssumption, NotingKeepsTrails DEF Stages, Steps
    <3> QED
      BY <3>3, <3>4
  <2> QED
    BY <1>2, <2>1, <2>2 DEF PreHook, Throw
<1>3. CASE Build(r)
  <2>1. PICK s \in {"key", "failing"} : GoTo(r, s)
    BY <1>3 DEF Build, Throw
  <2> QED
    BY <1>3, <2>1, SilentKeepsTrails DEF Build, Stages
<1>4. CASE Identify(r)
  <2>1. PICK s \in {"waiting", "handling", "failing"} : GoTo(r, s)
    BY <1>4 DEF Identify, BeginHandle, Throw
  <2> QED
    BY <1>4, <2>1, SilentKeepsTrails DEF Identify, Stages
<1>5. CASE Handle(r)
  <2>1. CASE HandleThrows(r) /\ UNCHANGED trail
    <3>1. PICK s \in {"releasing", "done", "failing"} : GoTo(r, s)
      BY <2>1 DEF HandleThrows, EndHandle
    <3> QED
      BY <1>5, <2>1, <3>1, SilentKeepsTrails DEF Handle, Stages
  <2>2. CASE /\ GoTo(r, IF HookCount = 0 THEN "responding" ELSE "post")
             /\ IF found[r] THEN Note(r, "handler") ELSE UNCHANGED trail
    <3>1. PICK s \in {"post", "responding"} : GoTo(r, s)
      BY <2>2
    <3>2. CASE Note(r, "handler")
      BY <1>5, <3>1, <3>2, NotingKeepsTrails DEF Handle, Stages, Steps
    <3>3. CASE UNCHANGED trail
      BY <1>5, <3>1, <3>3, SilentKeepsTrails DEF Handle, Stages
    <3> QED
      BY <2>2, <3>2, <3>3
  <2> QED
    BY <1>5, <2>1, <2>2 DEF Handle
<1>6. CASE PostHook(r)
  <2>1. CASE HandleThrows(r) /\ UNCHANGED <<hook, trail>>
    <3>1. PICK s \in {"releasing", "done", "failing"} : GoTo(r, s)
      BY <2>1 DEF HandleThrows, EndHandle
    <3> QED
      BY <2>1, <3>1, SilentKeepsTrails DEF Stages
  <2>2. CASE /\ GoTo(r, IF hook[r] = HookCount THEN "responding" ELSE "post")
             /\ hook' = [hook EXCEPT ![r] = @ + 1]
             /\ Note(r, "post")
    <3>1. PICK s \in {"post", "responding"} : GoTo(r, s)
      BY <2>2
    <3>2. \A q \in Requests \ {r} : hook'[q] = hook[q]
      BY <2>2 DEF HooksInTurn
    <3> QED
      BY <1>6, <2>2, <3>1, <3>2, NotingKeepsTrails DEF PostHook, Stages, Steps
  <2> QED
    BY <1>6, <2>1, <2>2 DEF PostHook
<1>7. CASE Respond(r)
  <2>1. PICK s \in {"releasing", "done", "failing"} : GoTo(r, s)
    BY <1>7 DEF Respond, HandleThrows, EndHandle
  <2> QED
    BY <1>7, <2>1, SilentKeepsTrails DEF Respond, Stages
<1>8. CASE Release(r)
  <2>1. PICK s \in {"done", "failing"} : GoTo(r, s)
    BY <1>8 DEF Release
  <2> QED
    BY <1>8, <2>1, SilentKeepsTrails DEF Release, Stages
<1>9. CASE HandleError(r)
  BY <1>9, SilentKeepsTrails DEF HandleError, Stages
<1> QED
  BY <1>1, <1>2, <1>3, <1>4, <1>5, <1>6, <1>7, <1>8, <1>9 DEF Proceed

LEMMA TrailsStep == TrailsInTurn /\ HooksInTurn /\ [Next]_vars => TrailsInTurn'
<1> SUFFICES ASSUME TrailsInTurn, HooksInTurn, [Next]_vars PROVE TrailsInTurn'
  OBVIOUS
<1>1. ASSUME NEW r \in Requests, Grant(r) PROVE TrailsInTurn'
  BY <1>1, SilentKeepsTrails DEF Grant, BeginHandle, Stages
<1>2. ASSUME NEW r \in Requests, TurnAway(r) PROVE TrailsInTurn'
  BY <1>2, SilentKeepsTrails DEF TurnAway, Stages
<1>3. ASSUME NEW r \in Requests, Lapse(r) PROVE TrailsInTurn'
  BY <1>3 DEF Lapse, TrailsInTurn, InOrder
<1>4. CASE UNCHANGED vars
  BY <1>4 DEF vars, TrailsInTurn, InOrder
<1> QED
  BY <1>1, <1>2, <1>3, <1>4, ProceedTrails DEF Next

\* A trail in turn is what ServedInOrder asks for.
LEMMA InOrderServes ==
    ASSUME NEW t \in Seq(Steps), InOrder(t), NEW i \in DOMAIN t, NEW j \in DOMAIN t
    PROVE  /\ t[i] = "handler" => (t[j] = "pre" <=> j < i)
           /\ t[i] # "pre" =>
                 Cardinality({n \in 1..i : t[n] = "pre"}) = HookCount
           /\ t[i] = "post" /\ i < j => t[j] = "post"
<1>1. i \in 1..Len(t) /\ j \in 1..Len(t) /\ Len(t) \in Nat /\ t[j] \in Steps
  OBVIOUS
<1>2. t[i] = "handler" => (t[j] = "pre" <=> j < i)
  BY <1>1, PipelineAssumption DEF InOrder
<1>3. ASSUME t[i] # "pre"
      PROVE  Cardinality({n \in 1..i : t[n] = "pre"}) = HookCount
  <2>1. i > HookCount
    BY <1>1, <1>3, PipelineAssumption DEF InOrder
  <2>2. {n \in 1..i : t[n] = "pre"} = 1..HookCount
    BY <1>1, <2>1, PipelineAssumption DEF InOrder
  <2>3. Cardinality(1..HookCount) = HookCount
    BY PipelineAssumption, FS_Interval
  <2> QED
    BY <2>2, <2>3
<1>4. ASSUME t[i] = "post", i < j PROVE t[j] = "post"
  BY <1>1, <1>4, PipelineAssumption DEF InOrder, Steps
<1> QED
  BY <1>2, <1>3, <1>4
-----------------------------------------------------------------------------
(* One lemma for each action. *)

\* One more note in the trail of a request.
LEMMA Noted ==
    ASSUME TypeOK, NEW r \in Requests, NEW what \in {"pre", "handler", "post"},
           Note(r, what) \/ UNCHANGED trail
    PROVE  trail' \in [Requests -> Seq({"pre", "handler", "post"})]
<1>1. trail \in [Requests -> Seq({"pre", "handler", "post"})]
  BY DEF TypeOK
<1>2. Append(trail[r], what) \in Seq({"pre", "handler", "post"})
  BY <1>1
<1> QED
  BY <1>1, <1>2 DEF Note

\* A request that goes to a stage, and what may have been thrown on its way.
LEMMA StageMoves ==
    ASSUME TypeOK, NEW r \in Requests, NEW s \in Stages, GoTo(r, s)
    PROVE  stage' \in [Requests -> Stages]
  BY DEF GoTo, TypeOK

LEMMA Thrown ==
    ASSUME TypeOK, NEW r \in Requests, Throw(r) \/ UNCHANGED thrown
    PROVE  thrown' \in [Requests -> Throwable \cup {"nothing"}]
<1>1. thrown \in [Requests -> Throwable \cup {"nothing"}]
  BY DEF TypeOK
<1> QED
  BY <1>1 DEF Throw

LEMMA ArriveKeeps ==
    ASSUME IInv, NEW r \in Requests, Arrive(r)
    PROVE  IInv'
<1>1. PICK s \in {"build", "pre", "failing"} : GoTo(r, s)
  BY DEF Arrive, Throw
<1>2. Handling' = Handling
  BY <1>1, HandlingMoves DEF Arrive, IInv, Handling
<1>3. GaugeIsExact'
  BY <1>2, GaugeStays DEF Arrive
<1>4. TypeOK'
  <2>1. stage' \in [Requests -> Stages]
    BY <1>1, StageMoves DEF IInv, Stages
  <2>2. thrown' \in [Requests -> Throwable \cup {"nothing"}]
    BY Thrown DEF Arrive, IInv
  <2> QED
    BY <1>3, <2>1, <2>2, GaugeType DEF Arrive, IInv, TypeOK
<1>5. Coherent'
  BY <1>2 DEF Arrive, Throw, GoTo, IInv, TypeOK, Coherent, Answered, Throwable
<1> QED
  BY <1>3, <1>4, <1>5 DEF IInv

LEMMA PreHookKeeps ==
    ASSUME IInv, HooksInTurn', NEW r \in Requests, PreHook(r)
    PROVE  IInv'
<1>1. PICK s \in {"build", "pre", "failing"} : GoTo(r, s)
  BY DEF PreHook, Throw, Note
<1>2. Handling' = Handling
  BY <1>1, HandlingMoves DEF PreHook, IInv, Handling
<1>3. GaugeIsExact'
  BY <1>2, GaugeStays DEF PreHook
<1>4. TypeOK'
  <2>1. hook' \in [Requests -> 1..HookCount + 1]
    BY DEF HooksInTurn
  <2>2. trail' \in [Requests -> Seq({"pre", "handler", "post"})]
    BY Noted DEF PreHook, IInv
  <2>3. stage' \in [Requests -> Stages]
    BY <1>1, StageMoves DEF IInv, Stages
  <2>4. thrown' \in [Requests -> Throwable \cup {"nothing"}]
    BY Thrown DEF PreHook, IInv
  <2> QED
    BY <1>3, <2>1, <2>2, <2>3, <2>4, GaugeType DEF PreHook, IInv, TypeOK
<1>5. Coherent'
  BY <1>2 DEF PreHook, Throw, Note, GoTo, IInv, TypeOK, Coherent, Answered, Throwable
<1> QED
  BY <1>3, <1>4, <1>5 DEF IInv

LEMMA BuildKeeps ==
    ASSUME IInv, NEW r \in Requests, Build(r)
    PROVE  IInv'
<1>1. PICK s \in {"key", "failing"} : GoTo(r, s)
  BY DEF Build, Throw
<1>2. Handling' = Handling
  BY <1>1, HandlingMoves DEF Build, IInv, Handling
<1>3. GaugeIsExact'
  BY <1>2, GaugeStays DEF Build
<1>4. TypeOK'
  <2>1. stage' \in [Requests -> Stages]
    BY <1>1, StageMoves DEF IInv, Stages
  <2>2. thrown' \in [Requests -> Throwable \cup {"nothing"}]
    BY Thrown DEF Build, IInv
  <2>3. found' \in [Requests -> BOOLEAN]
    BY DEF Build, IInv, TypeOK
  <2> QED
    BY <1>3, <2>1, <2>2, <2>3, GaugeType DEF Build, IInv, TypeOK
<1>5. Coherent'
  BY <1>2 DEF Build, Throw, GoTo, IInv, TypeOK, Coherent, Answered, Throwable
<1> QED
  BY <1>3, <1>4, <1>5 DEF IInv

LEMMA TurnAwayKeeps ==
    ASSUME IInv, NEW r \in Requests, TurnAway(r)
    PROVE  IInv'
<1>1. PICK s \in {"stranded"} : GoTo(r, s)
  BY DEF TurnAway
<1>2. Handling' = Handling
  BY <1>1, HandlingMoves DEF TurnAway, IInv, Handling
<1>3. GaugeIsExact'
  BY <1>2, GaugeStays DEF TurnAway
<1>4. TypeOK'
  BY <1>1, <1>3, GaugeType DEF TurnAway, GoTo, IInv, TypeOK, Stages
<1>5. Coherent'
  BY <1>2 DEF TurnAway, GoTo, IInv, TypeOK, Coherent, Answered
<1> QED
  BY <1>3, <1>4, <1>5 DEF IInv

LEMMA ReleaseKeeps ==
    ASSUME IInv, NEW r \in Requests, Release(r)
    PROVE  IInv'
<1>1. PICK s \in {"failing", "done"} : GoTo(r, s)
  BY DEF Release
<1>2. Handling' = Handling
  BY <1>1, HandlingMoves DEF Release, IInv, Handling
<1>3. GaugeIsExact'
  BY <1>2, GaugeStays DEF Release
<1>4. TypeOK'
  BY <1>1, <1>3, GaugeType DEF Release, GoTo, IInv, TypeOK, Stages
<1>5. Coherent'
  <2>1. r \notin Handling /\ key[r] \in Keys
    BY DEF Release, Handling, IInv, TypeOK, Coherent
  <2>2. \A q \in Handling : key[q] # Null =>
            lock'[key[q]] = lock[key[q]] \/ q \in lapsed
    BY <2>1 DEF Release, Handling, IInv, TypeOK, Coherent
  <2> QED
    BY <1>2, <2>1, <2>2 DEF Release, GoTo, IInv, TypeOK, Coherent, Answered
<1> QED
  BY <1>3, <1>4, <1>5 DEF IInv

LEMMA HandleErrorKeeps ==
    ASSUME IInv, NEW r \in Requests, HandleError(r)
    PROVE  IInv'
<1>1. PICK s \in {"done"} : GoTo(r, s)
  BY DEF HandleError
<1>2. Handling' = Handling
  BY <1>1, HandlingMoves DEF HandleError, IInv, Handling
<1>3. GaugeIsExact'
  BY <1>2, GaugeStays DEF HandleError
<1>4. TypeOK'
  <2>1. answer[r] = <<>>
    BY DEF HandleError, IInv, Coherent
  <2>2. answer' \in [Requests -> {<<>>, <<"response">>, <<"error">>}]
    BY <2>1, OneAnswer DEF HandleError, IInv, TypeOK
  <2> QED
    BY <1>1, <1>3, <2>2, GaugeType DEF HandleError, GoTo, IInv, TypeOK, Stages
<1>5. Coherent'
  <2>1. thrown[r] \in Throwable /\ answer[r] = <<>>
    BY DEF HandleError, IInv, TypeOK, Coherent
  <2>2. \/ answer'[r] = <<"error">>
        \/ thrown[r] = "falsy" /\ answer'[r] = <<>>
    BY <2>1, OneAnswer DEF HandleError, IInv, TypeOK
  <2>3. \A q \in Requests \ {r} : stage'[q] = stage[q] /\ answer'[q] = answer[q]
    BY DEF HandleError, GoTo, IInv, TypeOK
  <2>4. stage'[r] = "done" /\ r \notin Handling'
    BY DEF HandleError, GoTo, Handling, IInv, TypeOK
  <2>5. UNCHANGED <<key, thrown, lock, lapsed>>
    BY DEF HandleError
  <2> QED
    BY <1>2, <2>1, <2>2, <2>3, <2>4, <2>5 DEF IInv, Coherent, Answered, Throwable
<1> QED
  BY <1>3, <1>4, <1>5 DEF IInv

LEMMA LapseKeeps ==
    ASSUME IInv, NEW r \in Requests, Lapse(r)
    PROVE  IInv'
<1>1. Handling' = Handling
  BY DEF Lapse, Handling
<1>2. GaugeIsExact'
  BY <1>1, GaugeStays DEF Lapse
<1>3. TypeOK'
  BY <1>2, GaugeType DEF Lapse, IInv, TypeOK
<1>4. Coherent'
  BY <1>1 DEF Lapse, IInv, TypeOK, Coherent, Answered
<1> QED
  BY <1>2, <1>3, <1>4 DEF IInv

\* A request enters handle().
LEMMA Enters ==
    ASSUME IInv, NEW r \in Requests, r \notin Handling, BeginHandle(r)
    PROVE  /\ Handling' = Handling \cup {r}
           /\ GaugeIsExact'
           /\ (inFlight \in 0..Cardinality(Requests))'
<1>1. Handling' = Handling \cup {r}
  BY HandlingMoves DEF BeginHandle, IInv
<1>2. GaugeIsExact'
  BY <1>1, GaugeRises DEF BeginHandle
<1> QED
  BY <1>1, <1>2, GaugeType

LEMMA IdentifyKeeps ==
    ASSUME IInv, NEW r \in Requests, Identify(r)
    PROVE  IInv'
<1>1. r \notin Handling
  BY DEF Identify, Handling
<1>2. CASE BeginHandle(r)
  <2>1. /\ Handling' = Handling \cup {r}
        /\ GaugeIsExact'
        /\ (inFlight \in 0..Cardinality(Requests))'
    BY <1>1, <1>2, Enters
  <2>2. UNCHANGED <<hook, found, answer, lock, lapsed, trail>>
    BY DEF Identify
  <2>3. UNCHANGED <<key, thrown>>
    BY <1>2 DEF Identify, BeginHandle, Throw, GoTo, IInv, TypeOK
  <2>4. TypeOK'
    BY <2>1, <2>2, <2>3, <1>2 DEF BeginHandle, GoTo, IInv, TypeOK, Stages
  <2>5. Coherent'
    BY <2>1, <2>2, <2>3, <1>2 DEF Identify, BeginHandle, GoTo, IInv, TypeOK, Coherent, Answered
  <2> QED
    BY <2>1, <2>4, <2>5 DEF IInv
<1>3. CASE ~BeginHandle(r)
  <2>1. PICK s \in {"waiting", "failing"} : GoTo(r, s)
    BY <1>3 DEF Identify, Throw
  <2>2. Handling' = Handling
    BY <1>1, <2>1, HandlingMoves DEF IInv
  <2>3. GaugeIsExact'
    BY <1>3, <2>2, GaugeStays DEF Identify
  <2>4. TypeOK'
    <3>1. /\ key' \in [Requests -> Keys \cup {Null}]
          /\ thrown' \in [Requests -> Throwable \cup {"nothing"}]
      BY <1>3 DEF Identify, Throw, IInv, TypeOK
    <3>2. UNCHANGED <<hook, found, answer, lock, lapsed, trail>>
      BY DEF Identify
    <3> QED
      BY <2>1, <2>3, <3>1, <3>2, GaugeType DEF GoTo, IInv, TypeOK, Stages
  <2>5. /\ UNCHANGED <<answer, lock, lapsed>>
        /\ \A q \in Requests \ {r} :
              /\ stage'[q] = stage[q] /\ key'[q] = key[q] /\ thrown'[q] = thrown[q]
        /\ \/ stage'[r] = "waiting" /\ key'[r] \in Keys /\ thrown'[r] = thrown[r]
           \/ stage'[r] = "failing" /\ key'[r] = key[r] /\ thrown'[r] \in Throwable
    BY <1>3 DEF Identify, Throw, GoTo, IInv, TypeOK
  <2>6. Coherent'
    <3>1. r \notin Handling'
      BY <1>1, <2>2
    <3>2. stage[r] = "key" /\ thrown[r] = "nothing" /\ answer[r] = <<>>
      BY DEF Identify, IInv, Coherent
    <3> QED
      BY <2>2, <2>5, <3>1, <3>2, PipelineAssumption
         DEF IInv, Coherent, Answered, Throwable
  <2> QED
    BY <2>3, <2>4, <2>6 DEF IInv
<1> QED
  BY <1>2, <1>3

LEMMA GrantKeeps ==
    ASSUME IInv, NEW r \in Requests, Grant(r)
    PROVE  IInv'
<1>1. r \notin Handling
  BY DEF Grant, Handling
<1>2. /\ Handling' = Handling \cup {r}
      /\ GaugeIsExact'
      /\ (inFlight \in 0..Cardinality(Requests))'
  BY <1>1, Enters DEF Grant
<1>3. key[r] \in Keys
  BY DEF Grant, IInv, TypeOK, Coherent
<1>4. TypeOK'
  BY <1>2, <1>3 DEF Grant, BeginHandle, GoTo, IInv, TypeOK, Stages
<1>5. Coherent'
  BY <1>2, <1>3, PipelineAssumption
     DEF Grant, BeginHandle, GoTo, IInv, TypeOK, Coherent, Answered
<1> QED
  BY <1>2, <1>4, <1>5 DEF IInv

\* A request leaves handle(), with what it has answered so far.
LEMMA Leaves ==
    ASSUME IInv, NEW r \in Requests, NEW x \in Throwable \cup {"nothing"},
           r \in Handling, EndHandle(r, x),
           UNCHANGED <<found, key, lock, lapsed>>,
           hook' \in [Requests -> 1..HookCount + 1],
           trail' \in [Requests -> Seq({"pre", "handler", "post"})],
           \/ answer' = answer
           \/ x = "nothing" /\ answer' = [answer EXCEPT ![r] = <<"response">>]
    PROVE  IInv'
<1>1. Handling' = Handling \ {r}
  BY HandlingMoves DEF EndHandle, IInv
<1>2. GaugeIsExact'
  BY <1>1, GaugeFalls DEF EndHandle
<1>3. TypeOK'
  BY <1>2, GaugeType DEF EndHandle, GoTo, IInv, TypeOK, Stages
<1>4. Coherent'
  <2>1. /\ stage[r] \in {"handling", "post", "responding"}
        /\ thrown[r] = "nothing" /\ answer[r] = <<>>
    BY DEF Handling, IInv, Coherent
  <2>2. \A q \in Requests \ {r} :
            /\ stage'[q] = stage[q] /\ thrown'[q] = thrown[q] /\ answer'[q] = answer[q]
            /\ q \in Handling' => q \in Handling
    BY <1>1 DEF EndHandle, GoTo, IInv, TypeOK
  <2>3. r \notin Handling' /\ thrown'[r] = x
    BY <1>1 DEF EndHandle, IInv, TypeOK
  <2>4. stage'[r] = IF key[r] # Null THEN "releasing"
                    ELSE IF x = "nothing" THEN "done" ELSE "failing"
    BY DEF EndHandle, GoTo, IInv, TypeOK
  <2>5. answer'[r] = <<>> \/ (x = "nothing" /\ answer'[r] = <<"response">>)
    BY <2>1 DEF IInv, TypeOK
  <2> QED
    BY <2>2, <2>3, <2>4, <2>5, OneAnswer DEF IInv, Coherent, Answered, Throwable
<1> QED
  BY <1>2, <1>3, <1>4 DEF IInv

\* A request goes on within handle().
LEMMA Continues ==
    ASSUME IInv, NEW r \in Requests, NEW s \in {"post", "responding"},
           r \in Handling, GoTo(r, s),
           UNCHANGED <<found, key, thrown, answer, inFlight, lock, lapsed>>,
           hook' \in [Requests -> 1..HookCount + 1],
           trail' \in [Requests -> Seq({"pre", "handler", "post"})]
    PROVE  IInv'
<1>1. Handling' = Handling
  BY HandlingMoves DEF IInv
<1>2. GaugeIsExact'
  BY <1>1, GaugeStays
<1>3. TypeOK'
  BY <1>2, GaugeType DEF GoTo, IInv, TypeOK, Stages
<1>4. Coherent'
  BY <1>1 DEF GoTo, Handling, IInv, TypeOK, Coherent, Answered
<1> QED
  BY <1>2, <1>3, <1>4 DEF IInv

LEMMA HandleKeeps ==
    ASSUME IInv, HooksInTurn', NEW r \in Requests, Handle(r)
    PROVE  IInv'
<1>1. r \in Handling
  BY DEF Handle, Handling
<1>2. /\ trail' \in [Requests -> Seq({"pre", "handler", "post"})]
      /\ hook' \in [Requests -> 1..HookCount + 1]
  BY Noted DEF Handle, IInv, HooksInTurn
<1>3. CASE HandleThrows(r)
  BY <1>1, <1>2, <1>3, Leaves DEF Handle, HandleThrows
<1>4. CASE ~HandleThrows(r)
  <2>1. PICK s \in {"post", "responding"} : GoTo(r, s)
    BY <1>4 DEF Handle
  <2> QED
    BY <1>1, <1>2, <1>4, <2>1, Continues DEF Handle
<1> QED
  BY <1>3, <1>4

LEMMA PostHookKeeps ==
    ASSUME IInv, HooksInTurn', NEW r \in Requests, PostHook(r)
    PROVE  IInv'
<1>1. r \in Handling
  BY DEF PostHook, Handling
<1>2. /\ trail' \in [Requests -> Seq({"pre", "handler", "post"})]
      /\ hook' \in [Requests -> 1..HookCount + 1]
  BY Noted DEF PostHook, IInv, HooksInTurn
<1>3. CASE HandleThrows(r)
  BY <1>1, <1>2, <1>3, Leaves DEF PostHook, HandleThrows
<1>4. CASE ~HandleThrows(r)
  <2>1. PICK s \in {"post", "responding"} : GoTo(r, s)
    BY <1>4 DEF PostHook
  <2> QED
    BY <1>1, <1>2, <1>4, <2>1, Continues DEF PostHook
<1> QED
  BY <1>3, <1>4

LEMMA RespondKeeps ==
    ASSUME IInv, HooksInTurn', NEW r \in Requests, Respond(r)
    PROVE  IInv'
<1>1. r \in Handling
  BY DEF Respond, Handling
<1>2. /\ trail' \in [Requests -> Seq({"pre", "handler", "post"})]
      /\ hook' \in [Requests -> 1..HookCount + 1]
  BY DEF Respond, IInv, TypeOK, HooksInTurn
<1>3. answer[r] = <<>>
  BY DEF Respond, IInv, Coherent
<1>4. PICK x \in Throwable \cup {"nothing"} :
          /\ EndHandle(r, x)
          /\ \/ answer' = answer
             \/ x = "nothing" /\ answer' = [answer EXCEPT ![r] = <<"response">>]
  BY <1>3, OneAnswer DEF Respond, HandleThrows
<1> QED
  BY <1>1, <1>2, <1>4, Leaves DEF Respond
-----------------------------------------------------------------------------
\* Every step keeps the invariant.
LEMMA StepKeeps == IInv /\ HooksInTurn' /\ [Next]_vars => IInv'
<1> SUFFICES ASSUME IInv, HooksInTurn', [Next]_vars PROVE IInv'
  OBVIOUS
<1>1. ASSUME NEW r \in Requests, Proceed(r) PROVE IInv'
  BY <1>1, ArriveKeeps, PreHookKeeps, BuildKeeps, IdentifyKeeps, HandleKeeps,
     PostHookKeeps, RespondKeeps, ReleaseKeeps, HandleErrorKeeps DEF Proceed
<1>2. CASE UNCHANGED vars
  <2>1. Handling' = Handling
    BY <1>2 DEF vars, Handling
  <2> QED
    BY <1>2, <2>1 DEF vars, IInv, TypeOK, GaugeIsExact, Coherent, Answered
<1> QED
  BY <1>1, <1>2, GrantKeeps, TurnAwayKeeps, LapseKeeps DEF Next

\* The invariant holds in every behaviour.
THEOREM Invariant == Spec => [](IInv /\ HooksInTurn)
<1>1. Init => IInv /\ HooksInTurn
  BY InitHolds, InitHooks
<1>2. IInv /\ HooksInTurn /\ [Next]_vars => (IInv /\ HooksInTurn)'
  BY StepKeeps, HooksStep
<1> QED
  BY <1>1, <1>2, PTL DEF Spec

\* Whatever the number of requests and hooks, the types are kept: a response is
\* written at most once, and the gauge is never negative.
THEOREM TypeCorrect == Spec => []TypeOK
<1>1. IInv => TypeOK
  BY DEF IInv
<1> QED
  BY <1>1, Invariant, PTL

\* The gauge http_requests_in_flight always is the number of requests between
\* the inc and the dec of handle().
THEOREM GaugeCorrect == Spec => []GaugeIsExact
<1>1. IInv => GaugeIsExact
  BY DEF IInv
<1> QED
  BY <1>1, Invariant, PTL

\* What fails anywhere is answered with the error and with nothing else.
THEOREM AnswersCorrect == Spec => []FailuresAreAnswered
<1>1. IInv => FailuresAreAnswered
  BY DEF IInv, Coherent, Answered, FailuresAreAnswered
<1> QED
  BY <1>1, Invariant, PTL

\* Hooks and handler run in their order, whatever the number of hooks.
THEOREM OrderCorrect == Spec => []ServedInOrder
<1>1. Init => HooksInTurn /\ TrailsInTurn
  BY InitHooks, InitTrails
<1>2. HooksInTurn /\ TrailsInTurn /\ [Next]_vars => (HooksInTurn /\ TrailsInTurn)'
  BY HooksStep, TrailsStep
<1>3. TrailsInTurn => ServedInOrder
  BY InOrderServes DEF TrailsInTurn, ServedInOrder
<1> QED
  BY <1>1, <1>2, <1>3, PTL DEF Spec

\* Two requests with one key are never handled together while both hold it.
THEOREM ExclusionCorrect == Spec => []SequentialByKey
<1>1. IInv => SequentialByKey
  <2> SUFFICES ASSUME IInv, NEW r \in Handling, NEW q \in Handling,
                      r # q, key[r] # Null, key[r] = key[q],
                      {r, q} \cap lapsed = {}
               PROVE  FALSE
    BY DEF SequentialByKey
  <2>1. r \in Requests /\ q \in Requests /\ r \notin lapsed /\ q \notin lapsed
    BY DEF Handling
  <2>2. lock[key[r]] = r /\ lock[key[q]] = q
    BY <2>1 DEF IInv, Coherent
  <2> QED
    BY <2>2
<1> QED
  BY <1>1, Invariant, PTL
=============================================================================
