-------------------------- MODULE LifecycleProofs --------------------------
(***************************************************************************)
(* Theorems about Lifecycle, for every set of requests, every choice of    *)
(* components and all durations.  Each invariant of the specification is   *)
(* the consequence of one of the named parts below, which are inductive    *)
(* together with the types.                                                *)
(***************************************************************************)
EXTENDS Lifecycle, FiniteSetTheorems, SequenceTheorems, TLAPS

-----------------------------------------------------------------------------
(* Types *)

LEMMA InitTypes == Init => LTypeOK
<1> SUFFICES ASSUME Init PROVE LTypeOK
  OBVIOUS
<1> USE LifecycleAssumption DEF LifecycleAssumption, Init
<1>1. errCh \in Seq(Component)
  BY EmptySeq
<1>2. age \in [Request -> 0..DrainTime] /\ down \in 0..DrainTime /\ grace \in 0..GraceTime
  OBVIOUS
<1>3. kind \in [Request -> Route] /\ bound \subseteq {"api", "metrics", "udp", "tcp"}
  BY DEF Route
<1> QED
  BY <1>1, <1>2, <1>3 DEF LTypeOK, Ended

LEMMA StopCloses ==
  ASSUME NEW c, Stop(c)
  PROVE  bound' \subseteq bound /\ UNCHANGED <<goroutine, errCh>>
BY DEF Stop

LEMMA MainTypes == LTypeOK /\ (MainStep \/ Interrupt) => LTypeOK'
<1> SUFFICES ASSUME LTypeOK, MainStep \/ Interrupt PROVE LTypeOK'
  OBVIOUS
<1> USE LifecycleAssumption DEF LTypeOK, LifecycleAssumption, Ended, process, workers, web
<1>1. CASE New \/ NewFails
  BY <1>1 DEF New, NewFails, TurnPorts
<1>2. CASE Interrupt \/ SelectSignal
  BY <1>2 DEF Interrupt, SelectSignal
<1>3. CASE RunInBackground
  BY <1>3 DEF RunInBackground
<1>4. CASE SelectError
  <2>1. errCh' \in Seq(Component)
    BY <1>4, HeadTailProperties DEF SelectError
  <2> QED
    BY <1>4, <2>1 DEF SelectError
<1>5. CASE CloseSignaling \/ SignalingClosed \/ APIDrained \/ GraceExpires
  BY <1>5 DEF CloseSignaling, SignalingClosed, APIDrained, GraceExpires
<1>6. CASE ShutdownAPI
  BY <1>6 DEF ShutdownAPI, Stop
<1>7. CASE ShutdownMetrics
  <2>1. CASE "metrics" \in Component
    <3>1. Stop("metrics")
      BY <1>7, <2>1 DEF ShutdownMetrics
    <3>2. bound' \subseteq bound /\ UNCHANGED <<goroutine, errCh>>
      BY ONLY <3>1, StopCloses
    <3>3. stopping' \subseteq Component
      BY <2>1, <3>1 DEF Stop
    <3> QED
      BY <1>7, <3>2, <3>3 DEF ShutdownMetrics
  <2>2. CASE "metrics" \notin Component
    BY <1>7, <2>2 DEF ShutdownMetrics
  <2> QED
    BY <2>1, <2>2
<1>8. CASE CancelTurn
  BY <1>8 DEF CancelTurn
<1>9. CASE Exit \/ SignalingPanics
  <2>1. /\ got' \in [Request -> {"nothing", "ok", "unavailable", "lost", "cut"}]
        /\ at' \in [Request -> {"idle", "active", "sleeping", "replying", "socket", "late", "done"}]
        /\ UNCHANGED <<kind, age, isReady, down, undone>>
    BY <1>9 DEF Exit, SignalingPanics, CutOff
  <2> QED
    BY <1>9, <2>1 DEF Exit, SignalingPanics
<1> QED
  BY <1>1, <1>2, <1>3, <1>4, <1>5, <1>6, <1>7, <1>8, <1>9 DEF MainStep

LEMMA GoTypes ==
  ASSUME LTypeOK, NEW c \in Component, GoStep(c) \/ AcceptFails(c)
  PROVE  LTypeOK'
<1> USE LifecycleAssumption DEF LTypeOK, LifecycleAssumption, Ended, process, workers, web, Move
<1>1. CASE Listen(c) \/ ListenFails(c) \/ ListenTooLate(c)
  BY <1>1 DEF Listen, ListenFails, ListenTooLate
<1>2. CASE Serve(c) \/ ServerClosed(c)
  BY <1>2 DEF Serve, ServerClosed
<1>5. CASE ServeTooLate(c) \/ AcceptFails(c)
  <2>1. bound' \subseteq {"api", "metrics", "udp", "tcp"}
    BY <1>5 DEF ServeTooLate, AcceptFails
  <2>2. goroutine' \in [Component -> {"none", "starting", "listening", "serving", "failing"} \cup Ended]
    BY <1>5 DEF ServeTooLate, AcceptFails
  <2> QED
    BY <1>5, <2>1, <2>2 DEF ServeTooLate, AcceptFails
<1>3. CASE SendError(c)
  BY <1>3, AppendProperties DEF SendError
<1>4. CASE c = "turn" /\ TurnRuns
  BY <1>4 DEF TurnRuns
<1>6. CASE c = "turn" /\ TurnCloses
  <2>1. bound' \subseteq {"api", "metrics", "udp", "tcp"}
    BY <1>6 DEF TurnCloses
  <2>2. goroutine' \in [Component -> {"none", "starting", "listening", "serving", "failing"} \cup Ended]
    BY <1>6 DEF TurnCloses
  <2> QED
    BY <1>6, <2>1, <2>2 DEF TurnCloses
<1> QED
  BY <1>1, <1>2, <1>3, <1>4, <1>5, <1>6 DEF GoStep

LEMMA WebTypes ==
  ASSUME LTypeOK, NEW r \in Request,
         \/ HandlerStep(r) \/ SocketEnds(r)
         \/ \E k \in Route : Arrive(r, k)
  PROVE  LTypeOK'
<1> USE LifecycleAssumption DEF LTypeOK, LifecycleAssumption, Ended, process, workers, web
<1>1. CASE \E k \in Route : Arrive(r, k)
  BY <1>1 DEF Arrive
<1>2. CASE Drain(r)
  BY <1>2 DEF Drain, Handle
<1>6. CASE Undrain(r)
  BY <1>6 DEF Undrain, Handle
<1>3. CASE Readyz(r) \/ Upgrade(r)
  BY <1>3 DEF Readyz, Upgrade, Handle
<1>4. CASE SocketEnds(r) \/ Wake(r)
  BY <1>4 DEF SocketEnds, Wake
<1>5. CASE Reply(r)
  BY <1>5 DEF Reply
<1> QED
  BY <1>1, <1>2, <1>3, <1>4, <1>5, <1>6 DEF HandlerStep

LEMMA TickTypes == LTypeOK /\ Tick => LTypeOK'
<1> SUFFICES ASSUME LTypeOK, Tick PROVE LTypeOK'
  OBVIOUS
<1> USE LifecycleAssumption DEF LTypeOK, LifecycleAssumption, Ended, Tick, InHandler, Slept
<1>1. age' \in [Request -> 0..DrainTime]
  OBVIOUS
<1>2. grace' \in 0..GraceTime /\ down' \in 0..DrainTime
  OBVIOUS
<1> QED
  BY <1>1, <1>2 DEF workers

LEMMA TypeStep == LTypeOK /\ [Next]_vars => LTypeOK'
<1> SUFFICES ASSUME LTypeOK, [Next]_vars PROVE LTypeOK'
  OBVIOUS
<1>1. CASE UNCHANGED vars
  BY <1>1 DEF LTypeOK, vars, process, workers, web
<1> QED
  BY <1>1, MainTypes, GoTypes, WebTypes, TickTypes DEF Next

\* Every variable of the process keeps its type; no handler sleeps longer than
\* DrainDuration and the graceful period is never overdrawn.
THEOREM LifecycleTypes == Spec => []LTypeOK
BY InitTypes, TypeStep, PTL DEF Spec

-----------------------------------------------------------------------------
(* How far main has come, and what that says of the rest *)

Stopped == {"draining", "metrics", "turn", "wait", "exited"}

\* No goroutine runs before RunInBackground; the graceful period begins, and the
\* listener takes no more requests, with srv.srv.Shutdown; and main knows how far
\* Hub.Close has come.
Stages ==
    /\ main \in {"new", "created"} => goroutine = [c \in Component |-> "none"]
    /\ main \in Stopped => "api" \in stopping
    /\ main \notin Stopped => grace = GraceTime
    /\ main \in {"new", "created", "select", "signaling", "failed", "killed"} => hub = "open"
    /\ main = "sockets" => hub \in {"closing", "released"}
    /\ main \in {"api"} \cup Stopped => hub = "closed"
    /\ main = "panicked" => hub = "panicked"

\* A request has an age only once its handler sleeps, and only /drain sleeps.
Requests ==
    /\ \A r \in Request : at[r] \in {"idle", "active"} => age[r] = 0 /\ r \notin undone
    /\ \A r \in Request : at[r] = "sleeping" \/ age[r] > 0 => kind[r] = "drain"
    /\ \A r \in Request : got[r] = "cut" => at[r] = "done"
    /\ main = "exited" => \A r \in Request : at[r] \in {"idle", "done"}

LEMMA InitStages == Init => Stages /\ Requests
BY DEF Init, Stages, Requests, Stopped

\* The three kinds of steps that are not main's leave it where it is.
LEMMA Others ==
  /\ \A c \in Component : GoStep(c) \/ AcceptFails(c) => UNCHANGED <<process, stopping, web>>
  /\ \A r \in Request :
        HandlerStep(r) \/ SocketEnds(r) \/ (\E k \in Route : Arrive(r, k))
          => /\ UNCHANGED <<main, signalled, grace, workers>>
             /\ hub' = hub \/ (hub = "closing" /\ hub' = "released")
  /\ Tick => UNCHANGED <<main, signalled, hub, workers, at, kind, got, isReady, undone>>
<1>1. ASSUME NEW c \in Component, GoStep(c) \/ AcceptFails(c)
      PROVE  UNCHANGED <<process, stopping, web>>
  BY <1>1 DEF GoStep, Listen, ListenFails, ListenTooLate, Serve, ServeTooLate, ServerClosed,
              SendError, TurnRuns, TurnCloses, AcceptFails
<1>2. ASSUME NEW r \in Request,
             HandlerStep(r) \/ SocketEnds(r) \/ (\E k \in Route : Arrive(r, k))
      PROVE  /\ UNCHANGED <<main, signalled, grace, workers>>
             /\ hub' = hub \/ (hub = "closing" /\ hub' = "released")
  BY <1>2 DEF HandlerStep, Drain, Undrain, Readyz, Upgrade, Handle, Wake, Reply, SocketEnds, Arrive,
              process
<1> QED
  BY <1>1, <1>2 DEF Tick

LEMMA StagesStep == LTypeOK /\ Stages /\ [Next]_vars => Stages'
<1> SUFFICES ASSUME LTypeOK, Stages, [Next]_vars PROVE Stages'
  OBVIOUS
<1> USE DEF Stages, Stopped, process, workers
<1>1. CASE New \/ NewFails \/ Interrupt \/ RunInBackground \/ SelectSignal \/ SelectError
  BY <1>1 DEF New, NewFails, Interrupt, RunInBackground, SelectSignal, SelectError
<1>2. CASE \/ CloseSignaling \/ SignalingClosed \/ SignalingPanics
           \/ ShutdownAPI \/ APIDrained \/ GraceExpires
  BY <1>2 DEF CloseSignaling, SignalingClosed, SignalingPanics, CutOff, ShutdownAPI, Stop,
              APIDrained, GraceExpires
<1>3. CASE ShutdownMetrics \/ CancelTurn \/ Exit
  BY <1>3 DEF ShutdownMetrics, Stop, CancelTurn, Exit, CutOff
<1>4. ASSUME NEW c \in Component, GoStep(c) \/ AcceptFails(c) PROVE Stages'
  <2>1. goroutine[c] # "none"
    BY <1>4 DEF GoStep, Listen, ListenFails, ListenTooLate, Serve, ServeTooLate, ServerClosed,
                SendError, TurnRuns, TurnCloses, AcceptFails, Move
  <2> QED
    BY <1>4, <2>1, Others
<1>5. ASSUME NEW r \in Request,
             HandlerStep(r) \/ SocketEnds(r) \/ (\E k \in Route : Arrive(r, k))
      PROVE  Stages'
  BY <1>5, Others
<1>6. CASE Tick
  BY <1>6 DEF Tick
<1>7. CASE UNCHANGED vars
  BY <1>7 DEF vars
<1> QED
  BY <1>1, <1>2, <1>3, <1>4, <1>5, <1>6, <1>7 DEF Next, MainStep

LEMMA RequestsStep == LTypeOK /\ Stages /\ Requests /\ [Next]_vars => Requests'
<1> SUFFICES ASSUME LTypeOK, Stages, Requests, [Next]_vars PROVE Requests'
  OBVIOUS
<1> USE DEF Requests
<1>1. CASE UNCHANGED web /\ (main' = "exited" => main = "exited")
  BY <1>1 DEF web
<1>2. CASE Exit \/ SignalingPanics
  <2>1. at' = [r \in Request |-> IF at[r] = "idle" THEN "idle" ELSE "done"] /\ UNCHANGED age
    BY <1>2 DEF Exit, SignalingPanics, CutOff
  <2>2. \A r \in Request : at'[r] \in {"idle", "done"} /\ (at'[r] = "idle" => at[r] = "idle")
    BY <2>1
  <2>3. UNCHANGED <<kind, undone>>
    BY <1>2 DEF Exit, SignalingPanics, CutOff
  <2>4. got' = [r \in Request |-> IF InHandler(r) THEN "cut" ELSE got[r]]
    BY <1>2 DEF Exit, SignalingPanics, CutOff
  <2>5. \A r \in Request : got'[r] = "cut" => at'[r] = "done"
    BY <2>1, <2>4 DEF InHandler
  <2> QED
    BY <2>1, <2>2, <2>3, <2>5
<1>3. CASE MainStep \/ Interrupt
  <2>1. Exit \/ SignalingPanics \/ (UNCHANGED web /\ (main' = "exited" => main = "exited"))
    <3>1. CASE New \/ NewFails \/ Interrupt \/ RunInBackground \/ SelectSignal \/ SelectError
      BY <3>1 DEF New, NewFails, Interrupt, RunInBackground, SelectSignal, SelectError
    <3>2. CASE CloseSignaling \/ SignalingClosed \/ ShutdownAPI \/ APIDrained
      BY <3>2 DEF CloseSignaling, SignalingClosed, ShutdownAPI, APIDrained
    <3>3. CASE GraceExpires \/ ShutdownMetrics \/ CancelTurn
      BY <3>3 DEF GraceExpires, ShutdownMetrics, CancelTurn
    <3>4. CASE Exit \/ SignalingPanics
      BY <3>4
    <3> QED
      BY <1>3, <3>1, <3>2, <3>3, <3>4 DEF MainStep
  <2> QED
    BY <1>1, <1>2, <2>1
<1>4. ASSUME NEW c \in Component, GoStep(c) \/ AcceptFails(c) PROVE Requests'
  BY <1>1, <1>4, Others DEF process
<1>5. ASSUME NEW r \in Request, NEW k \in Route, Arrive(r, k) PROVE Requests'
  BY <1>5 DEF Arrive, process, Stages, Stopped, LTypeOK
<1>6. ASSUME NEW r \in Request, Drain(r) PROVE Requests'
  BY <1>6 DEF Drain, Handle, process, LTypeOK
<1>7. ASSUME NEW r \in Request, Undrain(r) PROVE Requests'
  BY <1>7 DEF Undrain, Handle, process, LTypeOK
<1>8. ASSUME NEW r \in Request, Readyz(r) \/ Upgrade(r) PROVE Requests'
  BY <1>8 DEF Readyz, Upgrade, Handle, process, LTypeOK
<1>9. ASSUME NEW r \in Request, SocketEnds(r) \/ Wake(r) \/ Reply(r) PROVE Requests'
  BY <1>9 DEF SocketEnds, Wake, Reply, process, LTypeOK
<1>10. CASE Tick
  BY <1>10 DEF Tick, LTypeOK
<1>11. CASE UNCHANGED vars
  BY <1>1, <1>11 DEF vars, process
<1> QED
  BY <1>3, <1>4, <1>5, <1>6, <1>7, <1>8, <1>9, <1>10, <1>11 DEF Next, HandlerStep

-----------------------------------------------------------------------------
(* Requests and the graceful period *)

\* While Shutdown waits, a request has been served for as long as it has waited.
Grace ==
    /\ main = "draining" => \A r \in Request : InHandler(r) => age[r] + grace >= GraceTime
    /\ main \in {"metrics", "turn", "wait"} =>
          \A r \in Request : InHandler(r) => age[r] >= GraceTime
    /\ CutOnlyAfterGrace

\* The sockets that were open when Shutdown began, and the wait for them.
Sockets == main \in {"api", "draining", "metrics", "turn", "wait"} =>
              \A r \in Request : at[r] # "socket"

Serving == LTypeOK /\ Stages /\ Requests

LEMMA ServingStep == Serving /\ [Next]_vars => Serving'
BY TypeStep, StagesStep, RequestsStep DEF Serving

LEMMA ServingAlways == Spec => []Serving
<1>1. Init => Serving
  BY InitTypes, InitStages DEF Serving
<1> QED
  BY <1>1, ServingStep, PTL DEF Spec

LEMMA GraceStep == Serving /\ Grace /\ [Next]_vars => Grace'
<1> SUFFICES ASSUME LTypeOK, Stages, Requests, Grace, [Next]_vars PROVE Grace'
  BY DEF Serving
<1> USE DEF Grace, CutOnlyAfterGrace, InHandler
<1>1. CASE New \/ NewFails \/ Interrupt \/ RunInBackground \/ SelectSignal \/ SelectError
  BY <1>1 DEF New, NewFails, Interrupt, RunInBackground, SelectSignal, SelectError, web
<1>2. CASE CloseSignaling \/ SignalingClosed
  BY <1>2 DEF CloseSignaling, SignalingClosed, web
<1>3. CASE ShutdownAPI
  BY <1>3, LifecycleAssumption
     DEF ShutdownAPI, web, Stages, Stopped, LTypeOK, LifecycleAssumption
<1>4. CASE APIDrained
  BY <1>4 DEF APIDrained, web
<1>5. CASE GraceExpires
  BY <1>5, LifecycleAssumption
     DEF GraceExpires, GraceExpired, web, LTypeOK, LifecycleAssumption
<1>6. CASE ShutdownMetrics \/ CancelTurn
  BY <1>6 DEF ShutdownMetrics, CancelTurn, web
<1>7. CASE Exit
  <2>1. ASSUME NEW r \in Request, InHandler(r)
        PROVE  kind[r] = "drain" /\ age[r] >= GraceTime
    BY <1>7, <2>1, LifecycleAssumption DEF Exit, CutOff, Requests, LTypeOK, LifecycleAssumption
  <2> QED
    BY <1>7, <2>1 DEF Exit, CutOff, LTypeOK
<1>13. CASE SignalingPanics
  BY <1>13 DEF SignalingPanics, Stages, Stopped
<1>8. ASSUME NEW c \in Component, GoStep(c) \/ AcceptFails(c) PROVE Grace'
  BY <1>8, Others DEF process, web
<1>9. ASSUME NEW r \in Request, NEW k \in Route, Arrive(r, k) PROVE Grace'
  BY <1>9 DEF Arrive, Stages, Stopped, Requests, process, LTypeOK
<1>10. ASSUME NEW r \in Request, HandlerStep(r) \/ SocketEnds(r) PROVE Grace'
  <2>1. UNCHANGED <<main, grace, kind, age>>
    BY <1>10, Others DEF process, HandlerStep, Drain, Undrain, Readyz, Upgrade, Handle,
                         Wake, Reply, SocketEnds
  <2>2. \A q \in Request : InHandler(q)' => InHandler(q)
    BY <1>10 DEF HandlerStep, Drain, Undrain, Readyz, Upgrade, Handle, Wake, Reply,
                 SocketEnds, LTypeOK
  <2>3. \A q \in Request : got'[q] = "cut" => got[q] = "cut"
    BY <1>10 DEF HandlerStep, Drain, Undrain, Readyz, Upgrade, Handle, Wake, Reply,
                 SocketEnds, LTypeOK
  <2> QED
    BY <2>1, <2>2, <2>3
<1>11. CASE Tick
  <2>1. \A r \in Request : InHandler(r) => age'[r] = age[r] + 1
    BY <1>11 DEF Tick, LTypeOK
  <2>2. \A r \in Request : age[r] \in Int /\ age'[r] \in Int /\ age'[r] >= age[r]
    BY <1>11, LifecycleAssumption DEF Tick, LTypeOK, LifecycleAssumption
  <2>3. grace \in Int /\ grace' \in Int /\ grace' >= grace - 1
    BY <1>11, LifecycleAssumption DEF Tick, LTypeOK, LifecycleAssumption
  <2>4. UNCHANGED <<main, at, kind, got>>
    BY <1>11 DEF Tick
  <2>5. GraceTime \in Int
    BY LifecycleAssumption DEF LifecycleAssumption
  <2>6. main # "draining" => grace' = grace
    BY <1>11 DEF Tick
  <2>7. CutOnlyAfterGrace'
    <3> SUFFICES ASSUME NEW r \in Request, got[r] = "cut"
                 PROVE  \/ main = "panicked" /\ grace' = GraceTime
                        \/ kind[r] = "drain" /\ age'[r] >= GraceTime
      BY <2>4
    <3> QED
      BY <2>2, <2>5, <2>6
  <2> QED
    BY <2>1, <2>2, <2>3, <2>4, <2>5, <2>6, <2>7
<1>12. CASE UNCHANGED vars
  BY <1>12 DEF vars, process, web
<1> QED
  BY <1>1, <1>2, <1>3, <1>4, <1>5, <1>6, <1>7, <1>8, <1>9, <1>10, <1>11, <1>12,
     <1>13 DEF Next, MainStep

\* The end of the process cuts off only requests that have had the whole
\* graceful period, however requests, drains and failures interleave, unless it
\* is the WaitGroup's panic, which comes before that period has begun.
THEOREM GraceGiven == Spec => []CutOnlyAfterGrace
<1>1. Init => Grace
  BY DEF Init, Grace, CutOnlyAfterGrace, InHandler
<1>2. Grace => CutOnlyAfterGrace
  BY DEF Grace
<1> QED
  BY <1>1, <1>2, GraceStep, ServingAlways, PTL DEF Spec

LEMMA SocketsStep == Serving /\ Sockets /\ [Next]_vars => Sockets'
<1> SUFFICES ASSUME LTypeOK, Stages, Sockets, [Next]_vars PROVE Sockets'
  BY DEF Serving
<1> USE DEF Sockets
<1>1. CASE New \/ NewFails \/ Interrupt \/ RunInBackground \/ SelectSignal \/ SelectError
  BY <1>1 DEF New, NewFails, Interrupt, RunInBackground, SelectSignal, SelectError, web
<1>2. CASE CloseSignaling \/ SignalingClosed \/ SignalingPanics
  BY <1>2 DEF CloseSignaling, SignalingClosed, SignalingPanics, CutOff, SocketsGone, web
<1>3. CASE ShutdownAPI \/ APIDrained \/ GraceExpires
  BY <1>3 DEF ShutdownAPI, APIDrained, GraceExpires, web
<1>4. CASE ShutdownMetrics \/ CancelTurn \/ Exit
  BY <1>4 DEF ShutdownMetrics, CancelTurn, Exit, CutOff, web
<1>5. ASSUME NEW c \in Component, GoStep(c) \/ AcceptFails(c) PROVE Sockets'
  BY <1>5, Others DEF process, web
<1>6. ASSUME NEW r \in Request,
             HandlerStep(r) \/ SocketEnds(r) \/ (\E k \in Route : Arrive(r, k))
      PROVE  Sockets'
  <2>1. UNCHANGED main
    BY <1>6, Others DEF process
  <2>2. hub = "closed" => \A q \in Request : at'[q] = "socket" => at[q] = "socket"
    BY <1>6 DEF HandlerStep, Drain, Undrain, Readyz, Upgrade, Handle, Wake, Reply,
                SocketEnds, Arrive, LTypeOK
  <2> QED
    BY <2>1, <2>2 DEF Stages, Stopped
<1>7. CASE Tick
  BY <1>7 DEF Tick
<1>8. CASE UNCHANGED vars
  BY <1>8 DEF vars, process, web
<1> QED
  BY <1>1, <1>2, <1>3, <1>4, <1>5, <1>6, <1>7, <1>8 DEF Next, MainStep

\* No WebSocket that was open when Shutdown began is left when the API server is
\* shut down, which neither waits for hijacked connections nor closes them.
THEOREM SocketsFirst == Spec => []SocketsEndFirst
<1>1. Init => Sockets
  BY DEF Init, Sockets
<1>2. Sockets => SocketsEndFirst
  BY DEF Sockets, SocketsEndFirst
<1> QED
  BY <1>1, <1>2, SocketsStep, ServingAlways, PTL DEF Spec

-----------------------------------------------------------------------------
(* The errors of the components *)

Sent == {c \in Component : goroutine[c] = "sent"}

\* Each component sends once, so the channel never holds more than they are.
Errors == Len(errCh) <= Cardinality(Sent)

LEMMA FewComponents ==
  ASSUME NEW S \in SUBSET Component
  PROVE  IsFiniteSet(S) /\ Cardinality(S) \in 0..3
<1>1. IsFiniteSet({}) /\ Cardinality({}) = 0
  BY FS_EmptySet
<1>2. IsFiniteSet({"api"}) /\ Cardinality({"api"}) = 1
  BY FS_Singleton
<1>3. IsFiniteSet({"api", "metrics"}) /\ Cardinality({"api", "metrics"}) = 2
  <2>1. {"api"} \cup {"metrics"} = {"api", "metrics"} /\ "metrics" \notin {"api"}
    OBVIOUS
  <2> QED
    BY <1>2, <2>1, FS_AddElement
<1>4. IsFiniteSet({"api", "metrics", "turn"}) /\ Cardinality({"api", "metrics", "turn"}) = 3
  <2>1. /\ {"api", "metrics"} \cup {"turn"} = {"api", "metrics", "turn"}
        /\ "turn" \notin {"api", "metrics"}
    OBVIOUS
  <2> QED
    BY <1>3, <2>1, FS_AddElement
<1>5. S \subseteq {"api", "metrics", "turn"}
  BY LifecycleAssumption DEF LifecycleAssumption
<1>6. IsFiniteSet(S) /\ Cardinality(S) <= 3
  <2>1. S \in SUBSET {"api", "metrics", "turn"}
    BY <1>5
  <2> DEFINE Three == {"api", "metrics", "turn"}
  <2>2. IsFiniteSet(Three) /\ Cardinality(Three) = 3 /\ S \in SUBSET Three
    BY <1>4, <2>1
  <2> HIDE DEF Three
  <2>3. IsFiniteSet(S) /\ Cardinality(S) <= Cardinality(Three)
    BY <2>2, FS_Subset
  <2> QED
    BY <2>2, <2>3
<1>7. Cardinality(S) \in Nat
  BY <1>6, FS_CardinalityType
<1> QED
  BY <1>6, <1>7

LEMMA SentKept ==
  ASSUME UNCHANGED errCh, LTypeOK, Errors, Sent \subseteq Sent', Sent' \subseteq Component
  PROVE  Errors'
<1>1. IsFiniteSet(Sent') /\ Cardinality(Sent) <= Cardinality(Sent')
  BY FewComponents, FS_Subset
<1>2. Cardinality(Sent) \in Int /\ Cardinality(Sent') \in Int /\ Len(errCh) \in Int
  <2>1. errCh \in Seq(Component)
    BY DEF LTypeOK
  <2>2. Len(errCh) \in Int
    BY <2>1, LenProperties
  <2>3. Sent \in SUBSET Component /\ Sent' \in SUBSET Component
    BY DEF Sent
  <2> QED
    BY <2>2, <2>3, FewComponents
<1> QED
  BY <1>1, <1>2 DEF Errors

LEMMA ErrorsStep == Serving /\ Errors /\ [Next]_vars => Errors'
<1> SUFFICES ASSUME LTypeOK, Stages, Errors, [Next]_vars PROVE Errors'
  BY DEF Serving
<1>1. Sent' \subseteq Component
  BY DEF Sent
<1>2. CASE UNCHANGED <<goroutine, errCh>>
  BY <1>1, <1>2, SentKept DEF Sent
<1>3. CASE RunInBackground
  <2>1. Sent = {} /\ UNCHANGED errCh
    BY <1>3 DEF RunInBackground, Stages, Sent
  <2> QED
    BY <1>1, <2>1, SentKept
<1>4. CASE SelectError
  <2>1. UNCHANGED goroutine /\ errCh # <<>> /\ errCh' = Tail(errCh)
    BY <1>4 DEF SelectError
  <2>2. Sent' = Sent
    BY <2>1 DEF Sent
  <2>3. Len(errCh') = Len(errCh) - 1 /\ Len(errCh) \in Nat
    BY <2>1, HeadTailProperties, LenProperties DEF LTypeOK
  <2>4. Cardinality(Sent) \in Int
    BY FewComponents DEF Sent
  <2> QED
    BY <2>2, <2>3, <2>4 DEF Errors
<1>5. CASE MainStep \/ Interrupt
  <2>1. CASE New \/ NewFails \/ Interrupt \/ SelectSignal
    BY <1>2, <2>1 DEF New, NewFails, Interrupt, SelectSignal, workers
  <2>2. CASE \/ CloseSignaling \/ SignalingClosed \/ SignalingPanics
             \/ ShutdownAPI \/ APIDrained \/ GraceExpires
    BY <1>2, <2>2 DEF CloseSignaling, SignalingClosed, SignalingPanics, CutOff, ShutdownAPI, Stop,
                      APIDrained, GraceExpires, workers
  <2>3. CASE ShutdownMetrics \/ CancelTurn \/ Exit
    BY <1>2, <2>3 DEF ShutdownMetrics, Stop, CancelTurn, Exit, CutOff, workers
  <2> QED
    BY <1>3, <1>4, <1>5, <2>1, <2>2, <2>3 DEF MainStep
<1>6. ASSUME NEW c \in Component, SendError(c) PROVE Errors'
  <2>1. /\ goroutine[c] = "failing" /\ goroutine' = [goroutine EXCEPT ![c] = "sent"]
        /\ errCh' = Append(errCh, c)
    BY <1>6 DEF SendError, Move
  <2>2. Sent' = Sent \cup {c} /\ c \notin Sent
    BY <2>1 DEF Sent, LTypeOK
  <2>3. IsFiniteSet(Sent) /\ Cardinality(Sent) \in Int
    BY FewComponents DEF Sent
  <2>4. Cardinality(Sent') = Cardinality(Sent) + 1
    BY <2>2, <2>3, FS_AddElement
  <2>5. Len(errCh') = Len(errCh) + 1 /\ Len(errCh) \in Int
    BY <2>1, AppendProperties, LenProperties DEF LTypeOK
  <2> QED
    BY <2>3, <2>4, <2>5 DEF Errors
<1>7. ASSUME NEW c \in Component, GoStep(c) \/ AcceptFails(c) PROVE Errors'
  <2>1. CASE SendError(c)
    BY <1>6, <2>1
  <2>2. CASE ~SendError(c)
    <3>1. UNCHANGED errCh
      BY <1>7, <2>2 DEF GoStep, Listen, ListenFails, ListenTooLate, Serve, ServeTooLate,
                        ServerClosed, TurnRuns, TurnCloses, AcceptFails
    <3>3. \A b \in Component : goroutine[b] = "sent" => goroutine'[b] = "sent"
      BY <1>7, <2>2 DEF GoStep, Listen, ListenFails, ListenTooLate, Serve, ServeTooLate,
                        ServerClosed, TurnRuns, TurnCloses, AcceptFails, Move, LTypeOK
    <3>2. Sent \subseteq Sent'
      BY <3>3 DEF Sent
    <3> QED
      BY <1>1, <3>1, <3>2, SentKept
  <2> QED
    BY <2>1, <2>2
<1>8. CASE UNCHANGED vars \/ Tick
  BY <1>2, <1>8 DEF vars, workers, Tick
<1>9. ASSUME NEW r \in Request,
             HandlerStep(r) \/ SocketEnds(r) \/ (\E k \in Route : Arrive(r, k))
      PROVE  Errors'
  BY <1>2, <1>9, Others DEF workers
<1> QED
  BY <1>5, <1>7, <1>8, <1>9 DEF Next

\* errCh never fills up: a component that fails hands over its error at once,
\* although main reads one error and Shutdown none.
THEOREM SendersFree == Spec => []SenderNeverBlocks
<1>1. Init => Errors
  BY EmptySeq, FewComponents DEF Init, Errors, Sent
<1>2. LTypeOK /\ Errors => SenderNeverBlocks
  <2>1. Cardinality(Sent) \in 0..3
    BY FewComponents DEF Sent
  <2>2. LTypeOK => Len(errCh) \in Int
    BY LenProperties DEF LTypeOK
  <2> QED
    BY <2>1, <2>2 DEF SenderNeverBlocks, Errors, ErrCap
<1>3. Serving => LTypeOK
  BY DEF Serving
<1> QED
  BY <1>1, <1>2, <1>3, ErrorsStep, ServingAlways, PTL DEF Spec

-----------------------------------------------------------------------------
(* Listening sockets *)

\* An HTTP server's socket is open only while its goroutine is in ListenAndServe,
\* and once Shutdown was called only if Serve has not registered it yet; the TURN
\* sockets are open until Run has closed them.
Ports ==
    /\ \A c \in {"api", "metrics"} : c \in bound =>
          /\ c \in Component
          /\ goroutine[c] \in {"listening", "serving"}
          /\ c \in stopping => goroutine[c] = "listening"
    /\ bound \cap {"udp", "tcp"} # {} /\ main # "failed" =>
          "turn" \in Component /\ goroutine["turn"] \in {"none", "starting", "serving"}
    /\ "turn" \in Component => goroutine["turn"] # "listening"
    /\ main = "exited" => AllReturned
    /\ main = "new" => bound = {}

LEMMA PortsGo ==
  ASSUME LTypeOK, Stages, Ports, NEW c \in Component, GoStep(c) \/ AcceptFails(c)
  PROVE  Ports'
<1>1. UNCHANGED <<main, stopping>>
  BY Others DEF process
<1> USE <1>1 DEF Ports, AllReturned, Ended, Move, LTypeOK
<1>2. CASE Listen(c)
  <2>1. c \in {"api", "metrics"}
    BY <1>2, LifecycleAssumption DEF Listen, LifecycleAssumption
  <2>2. main # "new"
    BY <1>2 DEF Listen, Stages
  <2> QED
    BY <1>2, <2>1, <2>2 DEF Listen
<1>3. CASE ListenFails(c) \/ ListenTooLate(c)
  BY <1>3 DEF ListenFails, ListenTooLate
<1>4. CASE Serve(c)
  BY <1>4 DEF Serve
<1>5. CASE ServeTooLate(c) \/ AcceptFails(c)
  BY <1>5 DEF ServeTooLate, AcceptFails
<1>6. CASE ServerClosed(c)
  BY <1>6 DEF ServerClosed
<1>7. CASE SendError(c)
  BY <1>7 DEF SendError
<1>8. CASE c = "turn" /\ TurnRuns
  BY <1>8 DEF TurnRuns
<1>9. CASE c = "turn" /\ TurnCloses
  <2>1. bound' = bound \ {"udp", "tcp"}
    BY <1>9 DEF TurnCloses, TurnPorts
  <2>2. bound' \cap {"udp", "tcp"} = {} /\ bound' \subseteq bound
    BY <2>1
  <2>3. goroutine' \in {[goroutine EXCEPT !["turn"] = "returned"],
                       [goroutine EXCEPT !["turn"] = "failing"]}
    BY <1>9 DEF TurnCloses
  <2>4. goroutine["turn"] = "serving"
    BY <1>9 DEF TurnCloses
  <2>5. main # "exited"
    BY <1>9, <2>4, <2>2
  <2> QED
    BY <1>9, <2>2, <2>3, <2>4, <2>5
<1> QED
  BY <1>2, <1>3, <1>4, <1>5, <1>6, <1>7, <1>8, <1>9 DEF GoStep

LEMMA PortsStep == Serving /\ Ports /\ [Next]_vars => Ports'
<1> SUFFICES ASSUME LTypeOK, Stages, Ports, [Next]_vars PROVE Ports'
  BY DEF Serving
<1>1. CASE New \/ NewFails
  <2>1. goroutine = [c \in Component |-> "none"] /\ UNCHANGED <<goroutine, stopping>>
    BY <1>1 DEF New, NewFails, Stages
  <2>2. bound' \subseteq TurnPorts /\ main' \in {"created", "failed"}
    BY <1>1 DEF New, NewFails
  <2>3. "api" \notin bound' /\ "metrics" \notin bound'
    BY <2>2 DEF TurnPorts
  <2>4. bound' \cap {"udp", "tcp"} # {} => "turn" \in Component
    BY <2>2 DEF TurnPorts
  <2> QED
    BY <2>1, <2>2, <2>3, <2>4 DEF Ports
<1>2. CASE RunInBackground
  BY <1>2 DEF RunInBackground, Ports, Stages
<1>3. CASE ShutdownAPI
  BY <1>3, LifecycleAssumption DEF ShutdownAPI, Stop, Ports, LTypeOK, LifecycleAssumption
<1>4. CASE ShutdownMetrics
  <2>1. CASE "metrics" \in Component
    BY <1>4, <2>1 DEF ShutdownMetrics, Stop, Ports, LTypeOK
  <2>2. CASE "metrics" \notin Component
    BY <1>4, <2>2 DEF ShutdownMetrics, Ports, workers
  <2> QED
    BY <2>1, <2>2
<1>5. CASE Exit
  BY <1>5 DEF Exit, CutOff, Ports, AllReturned, workers
<1>6. CASE CancelTurn
  BY <1>6 DEF CancelTurn, Ports
<1>7. CASE Interrupt \/ SelectSignal \/ SelectError
  BY <1>7 DEF Interrupt, SelectSignal, SelectError, Ports, workers
<1>8. CASE CloseSignaling \/ SignalingClosed \/ SignalingPanics \/ APIDrained \/ GraceExpires
  BY <1>8 DEF CloseSignaling, SignalingClosed, SignalingPanics, CutOff, APIDrained, GraceExpires, Ports, workers
<1>9. ASSUME NEW r \in Request,
             HandlerStep(r) \/ SocketEnds(r) \/ (\E k \in Route : Arrive(r, k))
      PROVE  Ports'
  BY <1>9, Others DEF process, workers, Ports, AllReturned
<1>10. CASE Tick
  BY <1>10 DEF Tick, workers, Ports, AllReturned
<1>11. CASE UNCHANGED vars
  BY <1>11 DEF vars, process, workers, Ports, AllReturned
<1> QED
  BY <1>1, <1>2, <1>3, <1>4, <1>5, <1>6, <1>7, <1>8, <1>9, <1>10, <1>11, PortsGo
     DEF Next, MainStep

\* When Shutdown returns no goroutine runs and no socket is open, also when a
\* server was still starting, or failing, while it was called.
THEOREM ShutdownComplete == Spec => []NothingOutlivesShutdown
<1>1. Init => Ports
  BY DEF Init, Ports
<1>2. LTypeOK /\ Ports => NothingOutlivesShutdown
  BY DEF Ports, AllReturned, NothingOutlivesShutdown, Ended, LTypeOK
<1>3. Serving => LTypeOK
  BY DEF Serving
<1> QED
  BY <1>1, <1>2, <1>3, PortsStep, ServingAlways, PTL DEF Spec

-----------------------------------------------------------------------------
(* Draining *)

\* While the flag is down, DrainDuration has passed or the /drain that took it
\* down sleeps, and has slept exactly as long as the flag has been down.
Draining ==
    /\ isReady => down = 0
    /\ ~isReady /\ main \notin {"exited", "panicked"} =>
          \/ down = DrainTime
          \/ \E q \in Request : at[q] = "sleeping" /\ age[q] = down
    /\ main = "panicked" => \A r \in Request : at[r] \in {"idle", "done"}
    /\ \A r \in Request :
          kind[r] = "drain" /\ at[r] \in {"sleeping", "replying"} /\ r \notin undone => ~isReady

LEMMA DrainingWeb ==
  ASSUME Serving, Draining, Alive, NEW r \in Request,
         HandlerStep(r) \/ SocketEnds(r) \/ (\E k \in Route : Arrive(r, k))
  PROVE  Draining'
<1>1. UNCHANGED main /\ main # "panicked"
  BY Others DEF process, Alive
<1> USE <1>1 DEF Serving, Draining
<1>2. CASE \E k \in Route : Arrive(r, k)
  BY <1>2 DEF Arrive, LTypeOK
<1>3. CASE Drain(r)
  BY <1>3 DEF Drain, Handle, Requests, LTypeOK
<1>4. CASE Undrain(r)
  BY <1>4 DEF Undrain, Handle, LTypeOK
<1>5. CASE Readyz(r) \/ Upgrade(r)
  BY <1>5 DEF Readyz, Upgrade, Handle, LTypeOK
<1>6. CASE Wake(r)
  <2>1. age[r] = DrainTime
    BY <1>6, LifecycleAssumption DEF Wake, Slept, LTypeOK, LifecycleAssumption
  <2> QED
    BY <1>6, <2>1 DEF Wake, LTypeOK
<1>7. CASE Reply(r) \/ SocketEnds(r)
  BY <1>7 DEF Reply, SocketEnds, LTypeOK
<1> QED
  BY <1>2, <1>3, <1>4, <1>5, <1>6, <1>7 DEF HandlerStep

LEMMA DrainingStep == Serving /\ Draining /\ [Next]_vars => Draining'
<1> SUFFICES ASSUME Serving, Draining, [Next]_vars PROVE Draining'
  OBVIOUS
<1>1. CASE /\ UNCHANGED web
           /\ main' # "exited" => main # "exited"
           /\ main' = "panicked" <=> main = "panicked"
  BY <1>1 DEF web, Draining
<1>2. CASE Exit \/ SignalingPanics
  <2>1. /\ main' \in {"exited", "panicked"} /\ UNCHANGED <<isReady, down>>
        /\ at' = [r \in Request |-> IF at[r] = "idle" THEN "idle" ELSE "done"]
    BY <1>2 DEF Exit, SignalingPanics, CutOff
  <2>2. \A r \in Request : at'[r] \in {"idle", "done"}
    BY <2>1
  <2> QED
    BY <2>1, <2>2 DEF Draining
<1>3. CASE MainStep \/ Interrupt
  <2>1. CASE New \/ NewFails \/ Interrupt \/ RunInBackground \/ SelectSignal \/ SelectError
    BY <1>1, <2>1 DEF New, NewFails, Interrupt, RunInBackground, SelectSignal, SelectError
  <2>2. CASE CloseSignaling \/ SignalingClosed \/ ShutdownAPI \/ APIDrained
    BY <1>1, <2>2 DEF CloseSignaling, SignalingClosed, ShutdownAPI, APIDrained
  <2>3. CASE GraceExpires \/ ShutdownMetrics \/ CancelTurn
    BY <1>1, <2>3 DEF GraceExpires, ShutdownMetrics, CancelTurn
  <2> QED
    BY <1>2, <1>3, <2>1, <2>2, <2>3 DEF MainStep
<1>4. ASSUME NEW c \in Component, GoStep(c) \/ AcceptFails(c) PROVE Draining'
  BY <1>1, <1>4, Others DEF process
<1>5. CASE Tick
  <2>1. UNCHANGED <<main, at, kind, isReady, undone>>
    BY <1>5 DEF Tick
  <2>2. \A q \in Request : at[q] = "sleeping" => age'[q] = age[q] + 1 /\ age[q] < DrainTime
    BY <1>5, LifecycleAssumption
       DEF Tick, InHandler, Slept, Serving, LTypeOK, LifecycleAssumption
  <2>3. /\ down \in 0..DrainTime /\ DrainTime \in Nat
        /\ down' = IF ~isReady /\ down < DrainTime THEN down + 1 ELSE down
    BY <1>5, LifecycleAssumption DEF Tick, Serving, LTypeOK, LifecycleAssumption
  <2> QED
    BY <2>1, <2>2, <2>3 DEF Draining
<1>6. CASE UNCHANGED vars
  BY <1>1, <1>6 DEF vars, process
<1> QED
  BY <1>3, <1>4, <1>5, <1>6, DrainingWeb DEF Next

\* A /drain that returns has given the load balancer its time, or another one is
\* giving it, unless somebody called /undrain.
THEOREM DrainsGiveTime == Spec => []DrainGivesTime
<1>1. Init => Draining
  BY DEF Init, Draining
<1>2. Serving /\ Draining => DrainGivesTime
  BY DEF Serving, Requests, Draining, DrainGivesTime
<1> QED
  BY <1>1, <1>2, DrainingStep, ServingAlways, PTL DEF Spec

-----------------------------------------------------------------------------
(* The hub *)

\* Only a /ws request has a socket, and no handler of one writes an answer; a
\* socket is late only if Close has returned.
Upgraded ==
    /\ \A r \in Request : at[r] \in {"socket", "late"} => kind[r] = "ws"
    /\ \A r \in Request : at[r] \in {"sleeping", "replying"} => kind[r] # "ws"
    /\ \A r \in Request : at[r] = "late" => hub = "closed"

\* A step of main or of a component that moves no request and not the hub.
LEMMA HubUnseen ==
  ASSUME UNCHANGED <<at, kind, hub>>, Upgraded
  PROVE  Upgraded' /\ UNCHANGED Hub!closing
BY DEF Upgraded, Hub!closing

LEMMA HubMain ==
  ASSUME Serving, Upgraded, Alive, MainStep \/ Interrupt
  PROVE  Upgraded' /\ [hub # "panicked" /\ Hub!Next]_(Hub!closing)
<1>0. LTypeOK /\ Stages
  BY DEF Serving
<1>1. CASE CloseSignaling
  <2>1. /\ hub = "open" /\ hub' = "closing" /\ UNCHANGED <<at, kind>>
    BY <1>0, <1>1 DEF CloseSignaling, Stages, web
  <2> QED
    BY <2>1 DEF Upgraded, Hub!Next, Hub!Close
<1>2. CASE SignalingClosed
  <2>1. /\ hub \in {"closing", "released"} /\ hub' = "closed" /\ UNCHANGED <<at, kind>>
        /\ SocketsGone
    BY <1>0, <1>2 DEF SignalingClosed, Stages, web
  <2>2. {r \in Request : at[r] \in {"socket", "late"}} = {}
    BY <2>1 DEF Upgraded, SocketsGone
  <2> QED
    BY <2>1, <2>2 DEF Upgraded, Hub!Next, Hub!Return
<1>3. CASE SignalingPanics
  <2>1. /\ hub = "released" /\ hub' = "panicked" /\ UNCHANGED kind
        /\ at' = [r \in Request |-> IF at[r] = "idle" THEN "idle" ELSE "done"]
        /\ ~SocketsGone
    BY <1>3 DEF SignalingPanics, CutOff
  <2>2. /\ {r \in Request : at[r] \in {"socket", "late"}} # {}
        /\ {r \in Request : at'[r] \in {"socket", "late"}} = {}
        /\ {r \in Request : kind[r] = "ws" /\ at[r] = "done"}
             \subseteq {r \in Request : kind'[r] = "ws" /\ at'[r] = "done"}
    BY <2>1 DEF SocketsGone
  <2>3. Upgraded'
    BY <2>1 DEF Upgraded
  <2> QED
    BY <2>1, <2>2, <2>3 DEF Hub!Next, Hub!Panic
<1>4. CASE Exit
  <2>1. /\ hub = "closed" /\ UNCHANGED <<hub, kind>>
        /\ at' = [r \in Request |-> IF at[r] = "idle" THEN "idle" ELSE "done"]
    BY <1>0, <1>4 DEF Exit, CutOff, Stages, Stopped
  <2>2. /\ {r \in Request : at'[r] \in {"socket", "late"}} = {}
        /\ {r \in Request : kind[r] = "ws" /\ at[r] = "done"}
             \cup {r \in Request : at[r] \in {"socket", "late"}}
             \subseteq {r \in Request : kind'[r] = "ws" /\ at'[r] = "done"}
    BY <2>1 DEF Upgraded
  <2>3. Upgraded'
    BY <2>1 DEF Upgraded
  <2> QED
    BY <2>1, <2>2, <2>3 DEF Hub!Next, Hub!Stop
<1>5. CASE \/ New \/ NewFails \/ Interrupt \/ RunInBackground \/ SelectSignal
           \/ SelectError \/ ShutdownAPI \/ APIDrained \/ GraceExpires
           \/ ShutdownMetrics \/ CancelTurn
  <2>1. UNCHANGED <<at, kind, hub>>
    BY <1>5 DEF New, NewFails, Interrupt, RunInBackground, SelectSignal,
                SelectError, ShutdownAPI, APIDrained, GraceExpires, ShutdownMetrics,
                CancelTurn, web
  <2> QED
    BY <2>1, HubUnseen
<1> QED
  BY <1>1, <1>2, <1>3, <1>4, <1>5 DEF MainStep

\* A request: /ws that is upgraded comes, one whose socket ends goes.
LEMMA HubWeb ==
  ASSUME Serving, Upgraded, Alive, NEW r \in Request,
         HandlerStep(r) \/ SocketEnds(r) \/ (\E k \in Route : Arrive(r, k))
  PROVE  Upgraded' /\ [hub # "panicked" /\ Hub!Next]_(Hub!closing)
<1>0. LTypeOK /\ Stages
  BY DEF Serving
<1>1. /\ at \in [Request -> {"idle", "active", "sleeping", "replying", "socket", "late", "done"}]
      /\ kind \in [Request -> Route]
  BY <1>0 DEF LTypeOK
<1>2. hub # "panicked"
  BY <1>0 DEF LTypeOK, Stages, Stopped, Alive
<1> DEFINE Inside == {q \in Request : at[q] \in {"socket", "late"}}
           Gone   == {q \in Request : kind[q] = "ws" /\ at[q] = "done"}
<1>3. CASE Upgrade(r)
  <2>1. /\ at[r] = "active" /\ kind[r] = "ws"
        /\ at' = [at EXCEPT ![r] = IF hub = "closed" THEN "late" ELSE "socket"]
        /\ UNCHANGED <<kind, hub>>
    BY <1>3 DEF Upgrade, Handle, process
  <2>2. Upgraded'
    BY <1>1, <2>1 DEF Upgraded
  <2>3. Inside' = Inside \cup {r} /\ UNCHANGED Gone /\ r \notin Inside \cup Gone
    BY <1>1, <2>1
  <2>4. Hub!Come(r)
    BY <2>1, <2>3 DEF Hub!Come
  <2> QED
    BY <1>2, <2>2, <2>4 DEF Hub!Next
<1>4. CASE SocketEnds(r)
  <2>1. /\ at[r] \in {"socket", "late"}
        /\ at' = [at EXCEPT ![r] = "done"]
        /\ UNCHANGED kind
        /\ \/ UNCHANGED hub
           \/ hub = "closing" /\ hub' = "released" /\ SocketsGone'
    BY <1>4 DEF SocketEnds
  <2>2. Upgraded'
    BY <1>1, <2>1 DEF Upgraded
  <2>3. Inside' = Inside \ {r} /\ Gone' = Gone \cup {r} /\ r \in Inside
    BY <1>1, <2>1 DEF Upgraded
  <2>4. hub = "closing" /\ SocketsGone' => Inside = {r}
    BY <1>1, <2>1 DEF Upgraded, SocketsGone
  <2>5. Hub!End(r)
    BY <2>1, <2>3, <2>4 DEF Hub!End
  <2> QED
    BY <1>2, <2>2, <2>5 DEF Hub!Next
<1>5. ASSUME UNCHANGED hub, Upgraded', UNCHANGED Inside, UNCHANGED Gone
      PROVE  Upgraded' /\ [hub # "panicked" /\ Hub!Next]_(Hub!closing)
  BY <1>5 DEF Hub!closing
<1>6. CASE \E k \in Route : Arrive(r, k)
  <2>1. PICK k \in Route : Arrive(r, k)
    BY <1>6
  <2>2. /\ at[r] = "idle" /\ UNCHANGED hub
        /\ at' = [at EXCEPT ![r] = "active"] /\ kind' = [kind EXCEPT ![r] = k]
    BY <2>1 DEF Arrive, process
  <2> QED
    BY <1>1, <1>5, <2>2 DEF Upgraded
<1>7. CASE Drain(r) \/ Undrain(r) \/ Readyz(r)
  <2>1. /\ at[r] = "active" /\ kind[r] # "ws" /\ UNCHANGED <<kind, hub>>
        /\ \E next \in {"sleeping", "replying"} : at' = [at EXCEPT ![r] = next]
    BY <1>7 DEF Drain, Undrain, Readyz, Handle, process
  <2> QED
    BY <1>1, <1>5, <2>1 DEF Upgraded
<1>8. CASE Wake(r) \/ Reply(r)
  <2>1. /\ at[r] \in {"sleeping", "replying"} /\ UNCHANGED <<kind, hub>>
        /\ \E next \in {"replying", "done"} : at' = [at EXCEPT ![r] = next]
    BY <1>8 DEF Wake, Reply, process
  <2> QED
    BY <1>1, <1>5, <2>1 DEF Upgraded
<1> QED
  BY <1>3, <1>4, <1>6, <1>7, <1>8 DEF HandlerStep

LEMMA HubStep ==
  Serving /\ Upgraded /\ [Next]_vars
    => Upgraded' /\ [hub # "panicked" /\ Hub!Next]_(Hub!closing)
<1> SUFFICES ASSUME Serving, Upgraded, [Next]_vars
             PROVE  Upgraded' /\ [hub # "panicked" /\ Hub!Next]_(Hub!closing)
  OBVIOUS
<1>1. CASE UNCHANGED vars
  BY <1>1, HubUnseen DEF vars, process, web
<1>2. CASE Next
  <2>1. Alive
    BY <1>2 DEF Next
  <2>2. ASSUME NEW c \in Component, GoStep(c) \/ AcceptFails(c)
        PROVE  UNCHANGED <<at, kind, hub>>
    BY <2>2, Others DEF process, web
  <2>3. Tick => UNCHANGED <<at, kind, hub>>
    BY DEF Tick
  <2> QED
    BY <1>2, <2>1, <2>2, <2>3, HubMain, HubWeb, HubUnseen DEF Next
<1> QED
  BY <1>1, <1>2

\* The process uses the hub as Closing describes it, which is what Signaling
\* implements (ImplementsClosing): Close is called once, it returns only while
\* no connection is inside, and a connection that the end of the process cuts
\* off has come after that.
THEOREM UsesClosing == Spec => HubSafety
<1>1. Init => Upgraded /\ Hub!Init
  BY DEF Init, Upgraded, Hub!Init
<1> QED
  BY <1>1, HubStep, ServingAlways, PTL DEF Spec, HubSafety, Hub!Safety

=============================================================================
