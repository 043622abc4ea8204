----------------------------- MODULE Lifecycle -----------------------------
(***************************************************************************)
(* The process of cmd/server: main creates a server.Server, starts its     *)
(* components, waits for a signal or for the first error, and shuts down.  *)
(* Meanwhile the API server answers requests, among them the load          *)
(* balancer's /drain and /undrain, whose handlers share one flag.           *)
(*                                                                         *)
(* net/http and pion are external.  Time is counted in units in which a    *)
(* handler that does not sleep takes none; 15 seconds is one that divides  *)
(* the durations main.go configures.                                       *)
(***************************************************************************)
EXTENDS Integers, Sequences, FiniteSets

CONSTANTS
    Request,     \* HTTP requests to the API server
    Component,   \* what the flags enable, of "api", "metrics" and "turn"
    DrainTime,   \* cfg.DrainDuration: what /drain sleeps
    WriteTime,   \* cfg.WriteTimeout: an answer written later is not sent
    GraceTime    \* cfg.GracefulShutdownDuration

ASSUME LifecycleAssumption ==
    /\ Component \subseteq {"api", "metrics", "turn"}
    /\ "api" \in Component
    /\ DrainTime \in Nat
    /\ WriteTime \in Nat
    /\ GraceTime \in Nat \ {0}

VARIABLES
    main,        \* where main, or Shutdown on its behalf, stands
    signalled,   \* a signal waits in the channel exit
    goroutine,   \* what srv.wg.Go runs, per component
    errCh,       \* srv.errCh
    stopping,    \* HTTP servers whose Shutdown was called, and "turn" once cancelled
    bound,       \* listening sockets that are open
    hub,         \* how far signaling.Hub.Close has come: see Closing
    grace,       \* what is left of the context given to srv.srv.Shutdown
    at,          \* where the handler of a request stands
    kind,        \* the route of a request
    age,         \* time since the request was read, while it sleeps
    got,         \* what the client got
    isReady,     \* Healthcheck.isReady
    down,        \* how long isReady has been false, up to DrainTime
    undone       \* /drain requests that an /undrain has overtaken

process == <<main, signalled, hub, grace>>
workers == <<goroutine, errCh, stopping, bound>>
web     == <<at, kind, age, got, isReady, down, undone>>
vars    == <<process, workers, web>>

Route     == {"drain", "undrain", "readyz", "ws"}
TurnPorts == IF "turn" \in Component THEN {"udp", "tcp"} ELSE {}
\* mutant: errCh holds the one error that main reads
ErrCapOne == 1
ErrCap    == 4
Ended     == {"returned", "sent"}

(* Handlers http.Server.Shutdown waits for: a hijacked connection is not   *)
(* one of them.                                                            *)
InHandler(r) == at[r] \in {"active", "sleeping", "replying"}

Init ==
    /\ main = "new" /\ signalled = FALSE
    /\ goroutine = [c \in Component |-> "none"]
    /\ errCh = <<>> /\ stopping = {} /\ bound = {}
    /\ hub = "open" /\ grace = GraceTime
    /\ at = [r \in Request |-> "idle"]
    /\ kind = [r \in Request |-> "readyz"]
    /\ age = [r \in Request |-> 0]
    /\ got = [r \in Request |-> "nothing"]
    /\ isReady = TRUE /\ down = 0 /\ undone = {}

-----------------------------------------------------------------------------
(* main: create, start, select. What main returns is left out. *)

(* turn.New opens the UDP and then the TCP socket; signaling.New follows. *)
New ==
    /\ main = "new"
    /\ main' = "created"
    /\ bound' = TurnPorts
    /\ UNCHANGED <<signalled, hub, grace, goroutine, errCh, stopping, web>>

(* Whatever was open by then stays open until the process ends, at once. *)
NewFails ==
    /\ main = "new"
    /\ main' = "failed"
    /\ bound' \in {{}, TurnPorts \cap {"udp"}, TurnPorts}
    /\ UNCHANGED <<signalled, hub, grace, goroutine, errCh, stopping, web>>

(* Before signal.Notify a signal ends the process. The channel holds one;  *)
(* one that comes after main has left its select is never read.            *)
Interrupt ==
    /\ main \in {"new", "created", "select"}
    /\ ~signalled
    /\ main' = IF main = "new" THEN "killed" ELSE main
    /\ signalled' = (main # "new")
    /\ UNCHANGED <<hub, grace, workers, web>>

RunInBackground ==
    /\ main = "created"
    /\ main' = "select"
    /\ goroutine' = [c \in Component |-> "starting"]
    /\ UNCHANGED <<signalled, hub, grace, errCh, stopping, bound, web>>

SelectSignal ==
    /\ main = "select" /\ signalled
    /\ main' = "signaling"
    /\ signalled' = FALSE
    /\ UNCHANGED <<hub, grace, workers, web>>

\* mutant: main logs the error and goes on
SelectErrorLogs ==
    /\ main = "select" /\ errCh # <<>>
    /\ errCh' = Tail(errCh)
    /\ UNCHANGED <<process, goroutine, stopping, bound, web>>

SelectError ==
    /\ main = "select" /\ errCh # <<>>
    /\ errCh' = Tail(errCh)
    /\ main' = "signaling"
    /\ UNCHANGED <<signalled, hub, grace, goroutine, stopping, bound, web>>

-----------------------------------------------------------------------------
(* Shutdown, in its order. *)

CloseSignaling ==
    /\ main = "signaling"
    /\ hub' = "closing"
    /\ main' = "sockets"
    /\ UNCHANGED <<signalled, grace, workers, web>>

\* mutant: Close cancels the connections and does not wait
SocketsCancelled == hub # "open"

(* Hub.Close waits for the handlers that wg counts; see Signaling. *)
SocketsGone == \A r \in Request : at[r] # "socket"

SignalingClosed ==
    /\ main = "sockets"
    /\ SocketsGone
    /\ hub' = "closed"
    /\ main' = "api"
    /\ UNCHANGED <<signalled, grace, workers, web>>

(* What the end of the process does to the requests it still has.          *)
CutOff ==
    /\ got' = [r \in Request |-> IF InHandler(r) THEN "cut" ELSE got[r]]
    /\ at'  = [r \in Request |-> IF at[r] = "idle" THEN "idle" ELSE "done"]
    /\ UNCHANGED <<kind, age, isReady, down, undone>>

(* The last one has released Close, and another has come before it ran:    *)
(* the WaitGroup panics, and that is the end of the process.               *)
SignalingPanics ==
    /\ main = "sockets"
    /\ hub = "released" /\ ~SocketsGone
    /\ hub' = "panicked"
    /\ main' = "panicked"
    /\ CutOff
    /\ UNCHANGED <<signalled, grace, workers>>

(* http.Server.Shutdown closes the listeners that Serve has registered. *)
Stop(c) ==
    /\ stopping' = stopping \cup {c}
    /\ bound' = IF goroutine[c] = "serving" THEN bound \ {c} ELSE bound
    /\ UNCHANGED <<goroutine, errCh>>

ShutdownAPI ==
    /\ main = "api"
    /\ Stop("api")
    /\ main' = "draining"
    /\ UNCHANGED <<signalled, hub, grace, web>>

APIDrained ==
    /\ main = "draining"
    /\ \A r \in Request : ~InHandler(r)
    /\ main' = "metrics"
    /\ UNCHANGED <<signalled, hub, grace, workers, web>>

\* mutant: the context is cancelled from the start
GraceIgnored == grace <= GraceTime

(* Shutdown returns an error, which is logged; the handlers run on. *)
GraceExpired == grace = 0

GraceExpires ==
    /\ main = "draining"
    /\ GraceExpired
    /\ main' = "metrics"
    /\ UNCHANGED <<signalled, hub, grace, workers, web>>

ShutdownMetrics ==
    /\ main = "metrics"
    /\ IF "metrics" \in Component THEN Stop("metrics") ELSE UNCHANGED workers
    /\ main' = "turn"
    /\ UNCHANGED <<signalled, hub, grace, web>>

\* mutant: Shutdown forgets the TURN server
CancelNothing ==
    /\ main = "turn"
    /\ main' = "wait"
    /\ UNCHANGED <<signalled, hub, grace, workers, web>>

(* turnCancel. *)
CancelTurn ==
    /\ main = "turn"
    /\ stopping' = stopping \cup (Component \cap {"turn"})
    /\ main' = "wait"
    /\ UNCHANGED <<signalled, hub, grace, goroutine, errCh, bound, web>>

\* mutant: the TURN server is started with go, not with wg.Go
OthersReturned == \A c \in Component \ {"turn"} : goroutine[c] \in Ended

(* srv.wg.Wait. *)
AllReturned == \A c \in Component : goroutine[c] \in Ended

(* main returns and the process ends, whatever still runs in it. *)
Exit ==
    /\ main = "wait"
    /\ AllReturned
    /\ main' = "exited"
    /\ CutOff
    /\ UNCHANGED <<signalled, hub, grace, workers>>

MainStep ==
    \/ New \/ NewFails \/ RunInBackground \/ SelectSignal \/ SelectError
    \/ CloseSignaling \/ SignalingClosed \/ SignalingPanics \/ ShutdownAPI \/ APIDrained \/ GraceExpires
    \/ ShutdownMetrics \/ CancelTurn \/ Exit

-----------------------------------------------------------------------------
(* The goroutines of RunInBackground. *)

Move(c, from, to) ==
    /\ goroutine[c] = from
    /\ goroutine' = [goroutine EXCEPT ![c] = to]

(* ListenAndServe: a server that is shut down already returns at once. *)
Listen(c) ==
    /\ c # "turn" /\ c \notin stopping
    /\ Move(c, "starting", "listening")
    /\ bound' = bound \cup {c}
    /\ UNCHANGED <<process, errCh, stopping, web>>

ListenFails(c) ==
    /\ c # "turn" /\ c \notin stopping
    /\ Move(c, "starting", "failing")
    /\ UNCHANGED <<process, errCh, stopping, bound, web>>

ListenTooLate(c) ==
    /\ c # "turn" /\ c \in stopping
    /\ Move(c, "starting", "returned")
    /\ UNCHANGED <<process, errCh, stopping, bound, web>>

(* Serve registers the listener, or closes it when Shutdown came between. *)
Serve(c) ==
    /\ c \notin stopping
    /\ Move(c, "listening", "serving")
    /\ UNCHANGED <<process, errCh, stopping, bound, web>>

ServeTooLate(c) ==
    /\ c \in stopping
    /\ Move(c, "listening", "returned")
    /\ bound' = bound \ {c}
    /\ UNCHANGED <<process, errCh, stopping, web>>

(* Accept fails for good: Serve closes the listener and returns. *)
AcceptFails(c) ==
    /\ c # "turn" /\ c \notin stopping
    /\ Move(c, "serving", "failing")
    /\ bound' = bound \ {c}
    /\ UNCHANGED <<process, errCh, stopping, web>>

(* http.ErrServerClosed is no error. *)
ServerClosed(c) ==
    /\ c # "turn" /\ c \in stopping
    /\ Move(c, "serving", "returned")
    /\ UNCHANGED <<process, errCh, stopping, bound, web>>

(* turn.Server.Run has nothing to do but wait: the sockets are served since New. *)
TurnRuns ==
    /\ Move("turn", "starting", "serving")
    /\ UNCHANGED <<process, errCh, stopping, bound, web>>

(* Run's context is done: it closes both sockets and returns Close's error. *)
TurnCloses ==
    /\ "turn" \in stopping
    /\ \/ Move("turn", "serving", "returned")
       \/ Move("turn", "serving", "failing")
    /\ bound' = bound \ TurnPorts
    /\ UNCHANGED <<process, errCh, stopping, web>>

(* srv.errCh <- err, which blocks while the channel is full. *)
SendError(c) ==
    /\ Len(errCh) < ErrCap
    /\ Move(c, "failing", "sent")
    /\ errCh' = Append(errCh, c)
    /\ UNCHANGED <<process, stopping, bound, web>>

GoStep(c) ==
    \/ Listen(c) \/ ListenFails(c) \/ ListenTooLate(c)
    \/ Serve(c) \/ ServeTooLate(c) \/ ServerClosed(c) \/ SendError(c)
    \/ c = "turn" /\ (TurnRuns \/ TurnCloses)

-----------------------------------------------------------------------------
(* The API server's requests. *)

Arrive(r, k) ==
    /\ goroutine["api"] = "serving" /\ "api" \notin stopping
    /\ at[r] = "idle"
    /\ at' = [at EXCEPT ![r] = "active"]
    /\ kind' = [kind EXCEPT ![r] = k]
    /\ UNCHANGED <<process, workers, age, got, isReady, down, undone>>

Handle(r, k, next) ==
    /\ at[r] = "active" /\ kind[r] = k
    /\ at' = [at EXCEPT ![r] = next]
    /\ UNCHANGED <<process, workers, kind, age>>

\* mutant: the test of wasReady is inverted
DrainInverted(r) ==
    /\ Handle(r, "drain", IF isReady THEN "replying" ELSE "sleeping")
    /\ isReady' = FALSE
    /\ got' = [got EXCEPT ![r] = "ok"]
    /\ UNCHANGED <<down, undone>>

(* A /drain that finds the flag down already does not sleep. *)
Drain(r) ==
    /\ Handle(r, "drain", IF isReady THEN "sleeping" ELSE "replying")
    /\ isReady' = FALSE
    /\ got' = [got EXCEPT ![r] = "ok"]
    /\ UNCHANGED <<down, undone>>

Undrain(r) ==
    /\ Handle(r, "undrain", "replying")
    /\ isReady' = TRUE
    /\ down' = 0
    /\ got' = [got EXCEPT ![r] = "ok"]
    /\ undone' = undone \cup {q \in Request : kind[q] = "drain" /\ at[q] \in {"sleeping", "replying"}}

Readyz(r) ==
    /\ Handle(r, "readyz", "replying")
    /\ got' = [got EXCEPT ![r] = IF isReady THEN "ok" ELSE "unavailable"]
    /\ UNCHANGED <<isReady, down, undone>>

\* mutant: a socket that comes while Close waits is not counted
UpgradeUncounted(r) ==
    /\ Handle(r, "ws", IF hub = "open" THEN "socket" ELSE "late")
    /\ UNCHANGED <<got, isReady, down, undone>>

(* The handler of /ws hijacks the connection. Hub.Close waits also for one  *)
(* that comes while it waits, but not for one that comes late.             *)
Upgrade(r) ==
    /\ Handle(r, "ws", IF hub = "closed" THEN "late" ELSE "socket")
    /\ UNCHANGED <<got, isReady, down, undone>>

(* The client leaves, or the hub's context ends the connection. The last   *)
(* one releases Close if that has come to its wg.Wait.                     *)
SocketEnds(r) ==
    /\ at[r] \in {"socket", "late"}
    /\ at' = [at EXCEPT ![r] = "done"]
    /\ \/ UNCHANGED hub
       \/ hub = "closing" /\ hub' = "released" /\ SocketsGone'
    /\ UNCHANGED <<main, signalled, grace, workers, kind, age, got, isReady, down, undone>>

\* mutant: one unit too long
Overslept(r) == age[r] > DrainTime

Slept(r) == age[r] >= DrainTime

Wake(r) ==
    /\ at[r] = "sleeping" /\ Slept(r)
    /\ at' = [at EXCEPT ![r] = "replying"]
    /\ UNCHANGED <<process, workers, kind, age, got, isReady, down, undone>>

(* The answer is written when the handler has returned. *)
Reply(r) ==
    /\ at[r] = "replying"
    /\ at' = [at EXCEPT ![r] = "done"]
    /\ got' = [got EXCEPT ![r] = IF age[r] < WriteTime THEN @ ELSE "lost"]
    /\ UNCHANGED <<process, workers, kind, age, isReady, down, undone>>

HandlerStep(r) ==
    Drain(r) \/ Undrain(r) \/ Readyz(r) \/ Upgrade(r) \/ Wake(r) \/ Reply(r)

(* A unit of time passes, which only a sleep or the grace period can see.  *)
Timed == \/ main = "draining" /\ grace > 0
         \/ \E r \in Request : at[r] = "sleeping"

Tick ==
    /\ Timed
    /\ \A r \in Request : InHandler(r) => at[r] = "sleeping" /\ ~Slept(r)
    /\ age' = [r \in Request |-> IF at[r] = "sleeping" THEN age[r] + 1 ELSE age[r]]
    /\ grace' = IF main = "draining" /\ grace > 0 THEN grace - 1 ELSE grace
    /\ down' = IF ~isReady /\ down < DrainTime THEN down + 1 ELSE down
    /\ UNCHANGED <<main, signalled, hub, workers, at, kind, got, isReady, undone>>

(* The process has not panicked. *)
Alive == main # "panicked"

Next ==
    /\ Alive
    /\ \/ MainStep
       \/ Interrupt
       \/ \E c \in Component : GoStep(c) \/ AcceptFails(c)
       \/ \E r \in Request : HandlerStep(r) \/ SocketEnds(r) \/ \E k \in Route : Arrive(r, k)
       \/ Tick

Spec == Init /\ [][Next]_vars

(* Goroutines and the clock go on. Nobody has to send a signal or a        *)
(* request, and a client need not leave: a socket must end once the hub    *)
(* has cancelled it.                                                       *)
FairSpec ==
    /\ Spec
    /\ WF_vars(Alive /\ MainStep)
    /\ \A c \in Component : WF_vars(Alive /\ GoStep(c))
    /\ \A r \in Request :
          /\ WF_vars(Alive /\ HandlerStep(r))
          /\ WF_vars(Alive /\ hub # "open" /\ SocketEnds(r))
    /\ WF_vars(Alive /\ Tick)

-----------------------------------------------------------------------------
(* Properties. *)

LTypeOK ==
    /\ main \in {"new", "created", "select", "signaling", "sockets", "api", "draining",
                 "metrics", "turn", "wait", "exited", "failed", "killed", "panicked"}
    /\ signalled \in BOOLEAN
    /\ hub \in {"open", "closing", "released", "closed", "panicked"}
    /\ goroutine \in [Component -> {"none", "starting", "listening", "serving", "failing"} \cup Ended]
    /\ errCh \in Seq(Component)
    /\ stopping \subseteq Component
    /\ bound \subseteq {"api", "metrics", "udp", "tcp"}
    /\ grace \in 0..GraceTime
    /\ at \in [Request -> {"idle", "active", "sleeping", "replying", "socket", "late", "done"}]
    /\ kind \in [Request -> Route]
    /\ age \in [Request -> 0..DrainTime]
    /\ got \in [Request -> {"nothing", "ok", "unavailable", "lost", "cut"}]
    /\ isReady \in BOOLEAN /\ down \in 0..DrainTime
    /\ undone \subseteq Request

Shutdown == {"signaling", "sockets", "api", "draining", "metrics", "turn", "wait"}

(* A component that fails can always hand over its error, although main    *)
(* reads only one: errCh is buffered so senders never block (server.go:140).*)
SenderNeverBlocks ==
    \A c \in Component : goroutine[c] = "failing" => Len(errCh) < ErrCap

(* When Shutdown has returned every goroutine has ended and every socket    *)
(* the server opened is closed, also one whose Listen ran while Shutdown    *)
(* was called.                                                             *)
NothingOutlivesShutdown ==
    main = "exited" => bound = {} /\ \A c \in Component : goroutine[c] \in Ended

(* A request is cut off by the end of the process only after it has had     *)
(* the whole graceful period, and only the drain sleep takes that long.     *)
(* The exception is the panic of the WaitGroup, which cuts off whatever it  *)
(* finds before the graceful period has begun.                             *)
CutOnlyAfterGrace ==
    \A r \in Request :
        got[r] = "cut" =>
            \/ main = "panicked" /\ grace = GraceTime
            \/ kind[r] = "drain" /\ age[r] >= GraceTime

(* The WebSockets that were open when Shutdown began have ended before the  *)
(* API server is shut down, which neither waits for them nor closes them.   *)
SocketsEndFirst ==
    main \in {"api", "draining", "metrics", "turn", "wait"} =>
        \A r \in Request : at[r] # "socket"

(* A /drain that returns has given the load balancer DrainDuration to see   *)
(* the server as not ready, or another /drain is still giving it, or        *)
(* somebody has called /undrain meanwhile.                                 *)
DrainGivesTime ==
    \A r \in Request : kind[r] = "drain" /\ at[r] = "replying" =>
        \/ r \in undone
        \/ ~isReady /\ (down = DrainTime \/ \E q \in Request : at[q] = "sleeping")

(* Shutdown returns, whatever clients and components do meanwhile, unless   *)
(* one that joins late makes the WaitGroup panic.                          *)
ShutdownReturns == main \in Shutdown ~> main \in {"exited", "panicked"}

(* A component that fails ends the process: it is not left half alive.     *)
ComponentErrorIsFatal ==
    \A c \in Component : goroutine[c] = "failing" ~> main \in {"exited", "panicked"}

(* With the handlers of /ws as the connections, and the hub's part of main *)
(* as Close, Lifecycle is Closing.                                         *)
Hub == INSTANCE Closing WITH
    Peer   <- Request,
    inside <- {r \in Request : at[r] \in {"socket", "late"}},
    gone   <- {r \in Request : kind[r] = "ws" /\ at[r] = "done"},
    phase  <- hub

(* What the process expects of the hub is what Signaling implements: Close  *)
(* is called once and returns to Shutdown only while no socket is open,    *)
(* one that came while it waited included, and only a socket that came     *)
(* after that, or a panic, may end with the process.                       *)
HubSafety == Hub!Safety

(* healthcheck_test.go:50: a call to /drain returns "Ok". With the          *)
(* durations main.go sets the answer comes after the write deadline.        *)
DrainIsAnswered ==
    \A r \in Request : kind[r] = "drain" /\ at[r] = "done" => got[r] \in {"ok", "cut"}
=============================================================================
