------------------------- MODULE SignalingLiveness -------------------------
(***************************************************************************)
(* What the goroutines of a connection bring to an end, for every set of    *)
(* connections, whatever the clients do.  That a goroutine is ready when    *)
(* its turn comes speaks of ENABLED: WaitsAreJustified, which TLC checks,   *)
(* is a hypothesis here.  The rest is proved: where each loop and each      *)
(* deferred call leads, and that no step of anybody else undoes it.  If the *)
(* WaitGroup panics, at shutdown, nothing runs any more.                    *)
(***************************************************************************)
EXTENDS SignalingProofs, HubLiveness, HubFrames

-----------------------------------------------------------------------------
(* Whose steps move a connection *)

HandlerMoves(p) ==
  HandlerSteps(p) \/ Accept(p) \/ ReadJoin(p) \/ ReadSignal(p) \/ ReadBye(p)

\* The two goroutines of a connection are moved by their own steps only; a
\* context that has ended and a socket that is closed stay so.
LEMMA OthersWait ==
  ASSUME TypeOK, STypeOK, [SNext]_svars, NEW p \in Peer
  PROVE  /\ HandlerMoves(p) \/ (handler'[p] = handler[p] /\ at'[p] = at[p])
         /\ WriterSteps(p) \/ StartLoops(p) \/ writer'[p] = writer[p]
         /\ cancelled[p] => cancelled'[p]
         /\ link[p] = "down" /\ handler[p] # "none" => link'[p] = "down"
<1> DEFINE Goal ==
             /\ HandlerMoves(p) \/ (handler'[p] = handler[p] /\ at'[p] = at[p])
             /\ WriterSteps(p) \/ StartLoops(p) \/ writer'[p] = writer[p]
             /\ cancelled[p] => cancelled'[p]
             /\ link[p] = "down" /\ handler[p] # "none" => link'[p] = "down"
<1>0. /\ handler \in [Peer -> HandlerPlace] /\ writer \in [Peer -> WriterPlace]
      /\ link \in [Peer -> Link] /\ cancelled \in [Peer -> BOOLEAN]
      /\ at \in [Peer -> Place]
  BY DEF TypeOK, STypeOK
<1>1. ASSUME NEW q \in Peer, OutsideHub(q) PROVE Goal
  <2>1. at' = at
    BY <1>1, OutsideStep DEF vars, handlers
  <2>2. HandlerMoves(p) \/ handler'[p] = handler[p]
    <3>1. handler' = handler \/ HandlerMoves(q)
      BY <1>1
      DEF HandlerMoves, HandlerSteps, OutsideHub, Accept, Enter, ReadJoin, AwaitFails, StartLoops,
          ReadBye, ReadFails, WriterEnded, CloseSocket, RejectSocket, Return,
          WriterStops, WriteReturns, WriteFails, FlushFails, PingStarts, Pong,
          PingFails, WriterCloses, FlushEnds, WriterHangsUp, ClientStalls,
          ClientResumes, ClientGoes, HookFires
    <3>2. handler' = handler \/ \E from, to \in HandlerPlace : Go(q, from, to)
      <4>1. \/ handler' = handler
            \/ \E from, to \in Entered \cup {"none", "accepted", "done"} :
                 Go(q, from, to)
        BY <1>1
        DEF Entered, OutsideHub, Accept, Enter, ReadJoin, AwaitFails, StartLoops,
          ReadBye, ReadFails, WriterEnded, CloseSocket, RejectSocket, Return,
          WriterStops, WriteReturns, WriteFails, FlushFails, PingStarts, Pong,
          PingFails, WriterCloses, FlushEnds, WriterHangsUp, ClientStalls,
          ClientResumes, ClientGoes, HookFires
      <4> QED
        BY <4>1 DEF HandlerPlace
    <3> QED
      BY <1>0, <3>1, <3>2 DEF Go
  <2>3. WriterSteps(p) \/ StartLoops(p) \/ writer'[p] = writer[p]
    <3>1. \/ writer' = writer
          \/ /\ WriterSteps(q) \/ StartLoops(q)
             /\ \E from, to \in WriterPlace : Write(q, from, to)
      <4>1. writer' = writer \/ WriterSteps(q) \/ StartLoops(q)
        BY <1>1
        DEF WriterSteps, OutsideHub, Accept, Enter, ReadJoin, AwaitFails, StartLoops,
          ReadBye, ReadFails, WriterEnded, CloseSocket, RejectSocket, Return,
          WriterStops, WriteReturns, WriteFails, FlushFails, PingStarts, Pong,
          PingFails, WriterCloses, FlushEnds, WriterHangsUp, ClientStalls,
          ClientResumes, ClientGoes, HookFires
      <4>2. (WriterSteps(q) /\ OutsideHub(q)) \/ StartLoops(q)
              => \E from, to \in WriterPlace : Write(q, from, to)
        BY DEF WriterSteps, EndWriter, StartLoops, WriterPlace, WriterStops,
               WriterTakes, WriteReturns, WriteFails, FlushFails, PingStarts,
               Pong, PingFails, WriterCloses, FlushEnds, WriterHangsUp
      <4> QED
        BY <1>1, <4>1, <4>2
    <3> QED
      BY <1>0, <3>1 DEF Write
  <2>4. /\ cancelled[p] => cancelled'[p]
        /\ link[p] = "down" /\ handler[p] # "none" => link'[p] = "down"
    <3>1. cancelled' = cancelled \/ Cancel(q)
      BY <1>1
      DEF EndWriter, OutsideHub, Accept, Enter, ReadJoin, AwaitFails, StartLoops,
          ReadBye, ReadFails, WriterEnded, CloseSocket, RejectSocket, Return,
          WriterStops, WriteReturns, WriteFails, FlushFails, PingStarts, Pong,
          PingFails, WriterCloses, FlushEnds, WriterHangsUp, ClientStalls,
          ClientResumes, ClientGoes, HookFires
    <3>2. \/ link' = link \/ HangUp(q)
          \/ Accept(q) \/ ClientStalls(q) \/ ClientResumes(q)
      BY <1>1
      DEF OutsideHub, Accept, Enter, ReadJoin, AwaitFails, StartLoops,
          ReadBye, ReadFails, WriterEnded, CloseSocket, RejectSocket, Return,
          WriterStops, WriteReturns, WriteFails, FlushFails, PingStarts, Pong,
          PingFails, WriterCloses, FlushEnds, WriterHangsUp, ClientStalls,
          ClientResumes, ClientGoes, HookFires
    <3> QED
      BY <1>0, <3>1, <3>2
      DEF Cancel, HangUp, Go, Accept, ClientStalls, ClientResumes
  <2> QED
    BY <2>1, <2>2, <2>3, <2>4
<1>2. ASSUME NEW q \in Peer,
             Join(q) \/ ReadSignal(q) \/ RelaySignal(q) \/ LeaveHub(q)
      PROVE  Goal
  <2>1. /\ writer' = writer /\ cancelled' = cancelled /\ link' = link
        /\ handler' = handler \/ Go(q, "joining", "rejecting")
    BY <1>2 DEF Join, ReadSignal, RelaySignal, LeaveHub, conns
  <2>2. Handler(q) /\ [Next]_vars
    BY <1>2 DEF Join, ReadSignal, RelaySignal, LeaveHub, Handler, Next
  <2>3. CASE q = p
    <3>1. HandlerMoves(p)
      BY <1>2, <2>3 DEF HandlerMoves, HandlerSteps
    <3> QED
      BY <2>1, <3>1
  <2>4. CASE q # p
    <3>1. at'[p] = at[p]
      BY <1>0, <2>2, <2>4
      DEF Handler, JoinRejected, JoinRegister, JoinAnnounce, Announce, CloseReplaced,
          Forward, ForwardSend, Leave, LeaveSend
    <3> QED
      BY <1>0, <2>1, <2>4, <3>1 DEF Go
  <2> QED
    BY <2>3, <2>4
<1>3. ASSUME NEW q \in Peer, WriterTakes(q) PROVE Goal
  BY <1>0, <1>3 DEF WriterTakes, WriterSteps, Write, Drain, handlers
<1>4. ASSUME NEW q \in Peer, LonelyTimer(q), UNCHANGED conns PROVE Goal
  BY <1>4 DEF LonelyTimer, LonelyFires, ExpireLonely, ExpireSend,
              ExpireClose, handlers, conns
<1>5. CASE CloseCancels \/ CloseWaits \/ CloseWakes \/ CloseEnds
  BY <1>5 DEF CloseCancels, CloseWaits, CloseWakes, CloseEnds, CloseSweep,
              CloseGauge, vars, handlers, conns
<1>6. CASE UNCHANGED svars
  BY <1>6 DEF svars
<1> QED
  BY <1>1, <1>2, <1>3, <1>4, <1>5, <1>6, StepsSplit

\* What a step of the handler leads to, from every place it may stand at.
LEMMA HandlerNext ==
  ASSUME TypeOK, STypeOK, Places, NEW p \in Peer, HandlerMoves(p)
  PROVE  /\ handler[p] = "none" => handler'[p] = "accepted"
         /\ handler[p] = "accepted" => handler'[p] = "awaiting"
         /\ handler[p] = "awaiting" =>
              \/ handler'[p] = "rejecting"
              \/ handler'[p] = "joining" /\ link[p] # "down" /\ at'[p] = "dialing"
         /\ handler[p] = "joining" =>
              \/ handler'[p] = "rejecting"
              \/ handler'[p] = "joining" /\ at[p] = "dialing"
                   /\ at'[p] = "announcing"
              \/ handler'[p] = "joining" /\ at[p] = "announcing"
                   /\ at'[p] \in {"replacing", "serving"}
              \/ handler'[p] = "joining" /\ at[p] = "replacing"
                   /\ at'[p] = "serving"
              \/ handler'[p] = "reading" /\ writer'[p] = "selecting"
                   /\ at[p] = "serving" /\ at'[p] = "serving"
         /\ handler[p] = "reading" =>
              \/ handler'[p] = "stopping" /\ cancelled'[p]
              \/ handler'[p] = "reading" /\ at[p] = "relaying"
                   /\ at'[p] = "serving"
              \/ handler'[p] = "reading" /\ at[p] = "serving"
                   /\ link[p] # "down" /\ ReadSignal(p)
         /\ handler[p] = "stopping"
              => handler'[p] = "hanging up" /\ writer[p] = "done"
         /\ handler[p] = "hanging up"
              => handler'[p] = "leaving" /\ link'[p] = "down"
         /\ handler[p] = "leaving" =>
              \/ handler'[p] = "leaving" /\ at[p] = "serving"
                   /\ at'[p] \in {"leaving", "gone"}
              \/ handler'[p] = "leaving" /\ at[p] = "leaving"
                   /\ at'[p] = "gone"
              \/ handler'[p] = "done"
         /\ handler[p] = "rejecting" => handler'[p] = "returning"
         /\ handler[p] = "returning" => handler'[p] = "done"
         /\ handler[p] # "done"
<1>0. /\ handler \in [Peer -> HandlerPlace] /\ writer \in [Peer -> WriterPlace]
      /\ link \in [Peer -> Link] /\ cancelled \in [Peer -> BOOLEAN]
      /\ at \in [Peer -> Place]
  BY DEF TypeOK, STypeOK
<1>1. CASE Accept(p) \/ Enter(p) \/ AwaitFails(p) \/ RejectSocket(p)
  BY <1>0, <1>1 DEF Go, Accept, Enter, AwaitFails, RejectSocket
<1>2. CASE ReadJoin(p)
  BY <1>0, <1>2 DEF Go, ReadJoin, vars, handlers, Places
<1>3. CASE Join(p)
  BY <1>0, <1>3
  DEF Go, Join, conns, JoinRegister, JoinAnnounce, Announce, CloseReplaced, JoinRejected
<1>4. CASE StartLoops(p)
  BY <1>0, <1>4 DEF Go, Write, StartLoops, vars, handlers
<1>5. CASE ReadSignal(p) \/ RelaySignal(p)
  BY <1>0, <1>5 DEF ReadSignal, RelaySignal, Forward, ForwardSend, conns, Places
<1>6. CASE ReadBye(p) \/ ReadFails(p)
  BY <1>0, <1>6 DEF Go, Cancel, ReadBye, ReadFails
<1>7. CASE WriterEnded(p) \/ CloseSocket(p)
  BY <1>0, <1>7 DEF Go, HangUp, WriterEnded, CloseSocket
<1>8. CASE LeaveHub(p)
  BY <1>0, <1>8 DEF LeaveHub, Leave, LeaveSend, conns
<1>9. CASE Return(p)
  BY <1>0, <1>9 DEF Go, Return
<1> QED
  BY <1>1, <1>2, <1>3, <1>4, <1>5, <1>6, <1>7, <1>8, <1>9
  DEF HandlerMoves, HandlerSteps

\* A step of the writer, from every place it may stand at.
LEMMA WriterNext ==
  ASSUME STypeOK, NEW p \in Peer, WriterSteps(p)
  PROVE  /\ writer[p] \notin {"none", "done"}
         /\ writer'[p] # "none"
         /\ writer[p] \in {"writing", "pinging"}
              => writer'[p] \in {"selecting", "done"}
         /\ writer[p] = "selecting"
              => writer'[p] \in {"writing", "pinging", "flushing", "done"}
         /\ writer[p] = "flushing"
              => writer'[p] \in {"last words", "hanging up"}
         /\ writer[p] = "last words" => writer'[p] \in {"flushing", "done"}
         /\ writer[p] = "hanging up" => writer'[p] = "done" /\ link'[p] = "down"
         /\ writer'[p] = "done" => cancelled'[p]
         /\ writer[p] = "pinging" /\ link[p] # "up" => writer'[p] = "done"
<1>0. /\ writer \in [Peer -> WriterPlace]
      /\ link \in [Peer -> Link] /\ cancelled \in [Peer -> BOOLEAN]
  BY DEF STypeOK
<1> QED
  BY <1>0
  DEF WriterSteps, Write, EndWriter, Cancel, HangUp, WriterStops, WriterTakes,
      WriteReturns, WriteFails, FlushFails, PingStarts, Pong, PingFails,
      WriterCloses, FlushEnds, WriterHangsUp

-----------------------------------------------------------------------------
(* The state in which the steps below are taken *)

\* Before websocket.Accept there is no socket.
LEMMA NoSocketYet ==
  ASSUME STypeOK, Places, [SNext]_svars, NEW p \in Peer,
         handler[p] = "none", link[p] = "none"
  PROVE  link'[p] = "none" \/ handler'[p] = "accepted"
<1>0. /\ handler \in [Peer -> HandlerPlace] /\ link \in [Peer -> Link]
      /\ writer[p] = "none"
  BY DEF STypeOK, Places
<1>1. ASSUME NEW q \in Peer, OutsideHub(q)
      PROVE  link'[p] = "none" \/ handler'[p] = "accepted"
  <2>1. CASE q = p
    <3>1. ~WriterSteps(p)
      BY <1>0, WriterNext
    <3>2. Accept(p) \/ ClientStalls(p) \/ ClientResumes(p) \/ ClientGoes(p)
          \/ HookFires(p)
      BY <1>1, <2>1, <3>1
      DEF OutsideHub, WriterSteps, Go, Enter, ReadJoin, AwaitFails, StartLoops,
          ReadBye, ReadFails, WriterEnded, CloseSocket, RejectSocket, Return
    <3> QED
      BY <1>0, <3>2 DEF Accept, Go, ClientStalls, ClientResumes, ClientGoes,
                        HookFires, Entered
  <2>2. CASE q # p
    <3>1. \/ link' = link \/ HangUp(q)
          \/ Accept(q) \/ ClientStalls(q) \/ ClientResumes(q)
      BY <1>1
      DEF OutsideHub, Accept, Enter, ReadJoin, AwaitFails, StartLoops,
          ReadBye, ReadFails, WriterEnded, CloseSocket, RejectSocket, Return,
          WriterStops, WriteReturns, WriteFails, FlushFails, PingStarts, Pong,
          PingFails, WriterCloses, FlushEnds, WriterHangsUp, ClientStalls,
          ClientResumes, ClientGoes, HookFires
    <3> QED
      BY <1>0, <2>2, <3>1 DEF HangUp, Accept, ClientStalls, ClientResumes
  <2> QED
    BY <2>1, <2>2
<1>2. ASSUME NEW q \in Peer,
             \/ Join(q) \/ ReadSignal(q) \/ RelaySignal(q) \/ LeaveHub(q)
             \/ WriterTakes(q) \/ (LonelyTimer(q) /\ UNCHANGED conns)
      PROVE  link' = link
  BY <1>2 DEF Join, ReadSignal, RelaySignal, LeaveHub, WriterTakes, conns
<1>3. CASE CloseCancels \/ CloseWaits \/ CloseWakes \/ CloseEnds
  BY <1>3 DEF CloseCancels, CloseWaits, CloseWakes, CloseEnds, conns
<1>4. CASE UNCHANGED svars
  BY <1>4 DEF svars
<1> QED
  BY <1>1, <1>2, <1>3, <1>4, StepsSplit

\* A handler in its loops has a writer, and whoever of the two ends first has
\* cancelled the context.
Stops ==
  \A p \in Peer :
    /\ handler[p] = "none" => link[p] = "none"
    /\ handler[p] \in {"reading", "stopping"} => writer[p] # "none"
    /\ handler[p] = "stopping" => cancelled[p]
    /\ writer[p] = "done" => cancelled[p]

LEMMA StopsStep == TypeOK /\ Connections /\ Stops /\ [SNext]_svars => Stops'
<1> SUFFICES ASSUME TypeOK, Connections, Stops, [SNext]_svars, NEW p \in Peer
             PROVE  /\ handler'[p] = "none" => link'[p] = "none"
                    /\ handler'[p] \in {"reading", "stopping"}
                          => writer'[p] # "none"
                    /\ handler'[p] = "stopping" => cancelled'[p]
                    /\ writer'[p] = "done" => cancelled'[p]
  BY DEF Stops
<1>0. STypeOK /\ Places
  BY DEF Connections
<1>1. handler[p] \in HandlerPlace
  BY <1>0 DEF STypeOK
<1>2. WriterSteps(p) \/ StartLoops(p) \/ writer'[p] = writer[p]
  BY <1>0, OthersWait
<1>3. StartLoops(p) => writer'[p] = "selecting"
  BY <1>0 DEF StartLoops, Write, STypeOK
<1>4. writer[p] # "none" => writer'[p] # "none"
  BY <1>0, <1>2, <1>3, WriterNext
<1>5. writer'[p] = "done" => cancelled'[p]
  BY <1>0, <1>2, <1>3, WriterNext, OthersWait DEF Stops
<1>6. handler'[p] = "none" => link'[p] = "none"
  <2>1. HandlerMoves(p) => handler'[p] # "none"
    BY <1>0, <1>1, HandlerNext DEF HandlerPlace, Entered
  <2> QED
    BY <1>0, <2>1, OthersWait, NoSocketYet DEF Stops
<1>7. CASE HandlerMoves(p)
  <2>1. handler'[p] = "stopping" => handler[p] = "reading" /\ cancelled'[p]
    BY <1>0, <1>1, <1>7, HandlerNext DEF HandlerPlace, Entered
  <2>2. handler'[p] = "reading"
          => handler[p] = "reading" \/ writer'[p] = "selecting"
    BY <1>0, <1>1, <1>7, HandlerNext DEF HandlerPlace, Entered
  <2> QED
    BY <1>4, <1>5, <1>6, <2>1, <2>2 DEF Stops
<1>8. CASE handler'[p] = handler[p]
  <2>1. cancelled[p] => cancelled'[p]
    BY <1>0, OthersWait
  <2> QED
    BY <1>4, <1>5, <1>6, <1>8, <2>1 DEF Stops
<1> QED
  BY <1>0, <1>7, <1>8, OthersWait

Intact == Sound /\ Connections /\ Stops

LEMMA IntactIs == Intact => TypeOK /\ STypeOK /\ Places /\ Stops
BY DEF Intact, Sound, Handlers, Connections

LEMMA IntactInvariant == SSpec => []Intact
<1>1. SInit => Stops
  BY DEF SInit, Stops
<1>2. TypeOK /\ Connections /\ Stops /\ [SNext]_svars => Stops'
  BY StopsStep
<1> QED
  BY <1>1, <1>2, ConnectionsInvariant, HubImplemented, SoundInvariant, PTL
  DEF SSpec, Intact

\* What the hypotheses say of one connection.
LEMMA FairToConnection ==
  ASSUME NEW p \in Peer PROVE SFairSpec => SSpec /\ ConnectionRuns(p)
<1>1. SFairness => ConnectionRuns(p)
  BY DEF SFairness
<1> QED
  BY <1>1, PTL DEF SFairSpec

LEMMA WaitOf == ASSUME NEW p \in Peer PROVE WaitsAreJustified => WaitJustified(p)
BY DEF WaitsAreJustified

-----------------------------------------------------------------------------
(* The mutex is given back *)

\* A join inside announceJoin reaches the unlock.
LEMMA JoinUnlocks ==
  ASSUME NEW p \in Peer
  PROVE  SFairSpec /\ []WaitsAreJustified => (mu = p ~> mu = NoPeer \/ ~Alive)
<1>1. Intact /\ mu = p => at[p] = "announcing" /\ handler[p] = "joining"
  <2>1. Intact /\ mu = p => at[p] = "announcing"
    BY DEF Intact, Sound, MutexOK
  <2> QED
    BY <2>1, IntactIs DEF STypeOK, Places, HandlerPlace, Entered
<1>2. Intact /\ Intact' /\ mu = p /\ Alive /\ HandlerSteps(p) /\ [SNext]_svars
        => (mu = NoPeer)'
  <2> SUFFICES ASSUME Intact, Intact', mu = p, HandlerSteps(p), [SNext]_svars
               PROVE  mu' = NoPeer
    OBVIOUS
  <2>1. HandlerMoves(p)
    BY DEF HandlerMoves
  <2>2. at'[p] # "announcing" \/ handler'[p] = "rejecting"
    BY <1>1, <2>1, IntactIs, HandlerNext
  <2>3. handler'[p] = "rejecting" => at'[p] # "announcing"
    BY DEF Intact, Connections, Places
  <2>4. mu' # p
    BY <2>2, <2>3 DEF Intact, Sound, MutexOK
  <2>5. mu' = p \/ mu' = NoPeer
    BY StepIsHubStep, MutexKept DEF Intact
  <2> QED
    BY <2>4, <2>5
<1>3. Intact /\ mu = p /\ [SNext]_svars => (mu = p)' \/ (mu = NoPeer)'
  BY StepIsHubStep, MutexKept DEF Intact
<1>4. Intact /\ mu = p => ~HandlerWaits(p)
  BY <1>1 DEF HandlerWaits
<1>5. <<Alive /\ HandlerSteps(p)>>_svars => Alive /\ HandlerSteps(p)
  OBVIOUS
<1>f. SFairSpec => SSpec /\ ConnectionRuns(p)
  BY FairToConnection
<1>s. WaitsAreJustified => WaitJustified(p)
  BY WaitOf
<1> QED
  BY <1>2, <1>3, <1>4, <1>5, <1>f, <1>s, IntactInvariant, PTL
  DEF SSpec, ConnectionRuns, WaitJustified

\* A handler that waits for the mutex finds it free again and again.
LEMMA MutexFreedToAll ==
  SFairSpec /\ []WaitsAreJustified => []<>(mu = NoPeer \/ ~Alive)
<1>1. ASSUME NEW p \in Peer
      PROVE  SFairSpec /\ []WaitsAreJustified
               => [](mu = p => <>(mu = NoPeer \/ ~Alive))
  <2>1. SFairSpec /\ []WaitsAreJustified => (mu = p ~> mu = NoPeer \/ ~Alive)
    BY JoinUnlocks
  <2> QED
    BY <2>1, PTL
<1>2. SFairSpec /\ []WaitsAreJustified
        => \A p \in Peer : [](mu = p => <>(mu = NoPeer \/ ~Alive))
  BY <1>1
<1>3. (\A p \in Peer : [](mu = p => <>(mu = NoPeer \/ ~Alive)))
        => [](\A p \in Peer : (mu = p => <>(mu = NoPeer \/ ~Alive)))
  OBVIOUS
<1>4. (\A p \in Peer : (mu = p => <>(mu = NoPeer \/ ~Alive)))
        => (Intact => <>(mu = NoPeer \/ ~Alive) \/ mu = NoPeer)
  BY DEF Intact, Sound, Handlers, TypeOK, PeerOrNil
<1> QED
  BY <1>2, <1>3, <1>4, IntactInvariant, PTL DEF SFairSpec

-----------------------------------------------------------------------------
(* A handler whose socket is closed comes out of its read loop *)

\* The places before the end of the read loop, counted from there.
Ahead(p) ==
  IF handler[p] = "accepted" THEN 8
  ELSE IF handler[p] = "awaiting" THEN 7
  ELSE IF handler[p] = "joining"
       THEN IF at[p] = "dialing" THEN 6
            ELSE IF at[p] = "announcing" THEN 5
            ELSE IF at[p] = "replacing" THEN 4 ELSE 3
  ELSE IF handler[p] = "reading" THEN IF at[p] = "relaying" THEN 2 ELSE 1
  ELSE 0

\* In a join, or with a socket that is closed, each step leads on.
LEMMA AheadFalls ==
  ASSUME Intact, NEW p \in Peer, HandlerMoves(p),
         handler[p] = "joining" \/ (handler[p] # "none" /\ link[p] = "down")
  PROVE  Ahead(p)' < Ahead(p) \/ (Ahead(p)' = 0 /\ Ahead(p) = 0)
<1>0. TypeOK /\ STypeOK /\ Places
  BY IntactIs
<1>1. CASE handler[p] \in {"accepted", "awaiting"}
  <2>1. \/ handler[p] = "accepted" /\ handler'[p] \in {"awaiting"}
        \/ handler[p] = "awaiting" /\ handler'[p] \in {"joining", "rejecting"}
    BY <1>0, <1>1, HandlerNext
  <2> QED
    BY <2>1 DEF Ahead
<1>2. CASE handler[p] = "joining"
  <2>1. \/ handler'[p] \in {"rejecting", "reading"}
        \/ handler'[p] = "joining" /\ at[p] = "dialing"
             /\ at'[p] = "announcing"
        \/ handler'[p] = "joining" /\ at[p] = "announcing"
             /\ at'[p] \in {"replacing", "serving"}
        \/ handler'[p] = "joining" /\ at[p] = "replacing" /\ at'[p] = "serving"
    BY <1>0, <1>2, HandlerNext
  <2> QED
    BY <1>2, <2>1 DEF Ahead
<1>3. CASE handler[p] = "reading"
  <2>1. \/ handler'[p] = "stopping"
        \/ handler'[p] = "reading" /\ at[p] = "relaying" /\ at'[p] = "serving"
    BY <1>0, <1>3, HandlerNext
  <2> QED
    BY <1>3, <2>1 DEF Ahead
<1>4. CASE handler[p] \in {"stopping", "hanging up", "leaving", "rejecting",
                          "returning", "done"}
  <2>1. handler'[p] \in {"hanging up", "leaving", "returning", "done"}
    BY <1>0, <1>4, HandlerNext
  <2> QED
    BY <1>4, <2>1 DEF Ahead
<1> QED
  BY <1>0, <1>1, <1>2, <1>3, <1>4 DEF STypeOK, HandlerPlace, Entered

\* hub.join comes back, with a peer or with an error.
LEMMA JoinEnds ==
  ASSUME NEW p \in Peer
  PROVE  SFairSpec /\ []WaitsAreJustified
           => (handler[p] = "joining"
                 ~> handler[p] \in {"reading", "rejecting"} \/ ~Alive)
<1> DEFINE Q == handler[p] \in {"reading", "rejecting"}
           B(n) == handler[p] = "joining" /\ Ahead(p) <= n
           Falls(m, n) ==
             /\ Intact /\ B(m) /\ [SNext]_svars => B(m)' \/ Q'
             /\ Intact /\ B(m) /\ Alive /\ HandlerSteps(p) => B(n)' \/ Q'
             /\ Intact /\ B(m) => ~HandlerWaits(p)
<1>1. ASSUME NEW m \in 3 .. 6
      PROVE  Falls(m, m - 1)
  <2>1. ASSUME Intact, handler[p] = "joining", HandlerMoves(p), Ahead(p) <= m
        PROVE  (handler'[p] = "joining" /\ Ahead(p)' <= m - 1) \/ Q'
    <3>1. handler'[p] \in {"joining", "reading", "rejecting"}
      BY <2>1, IntactIs, HandlerNext
    <3>2. Ahead(p)' < Ahead(p) \/ (Ahead(p)' = 0 /\ Ahead(p) = 0)
      BY <2>1, AheadFalls
    <3>3. Ahead(p) \in 3 .. 6
      BY <2>1 DEF Ahead
    <3>4. handler'[p] = "joining" => Ahead(p)' \in 3 .. 6
      BY DEF Ahead
    <3> QED
      BY <2>1, <3>1, <3>2, <3>3, <3>4
  <2>2. ASSUME Intact, B(m), [SNext]_svars PROVE B(m)' \/ Q'
    <3>1. CASE HandlerMoves(p)
      <4>1. handler'[p] = "joining" => Ahead(p)' \in 3 .. 6
        BY DEF Ahead
      <4> QED
        BY <2>1, <2>2, <3>1, <4>1
    <3>2. CASE handler'[p] = handler[p] /\ at'[p] = at[p]
      BY <2>2, <3>2 DEF Ahead
    <3> QED
      BY <2>2, <3>1, <3>2, IntactIs, OthersWait
  <2>3. HandlerSteps(p) => HandlerMoves(p)
    BY DEF HandlerMoves
  <2>4. handler[p] = "joining" => ~HandlerWaits(p)
    BY DEF HandlerWaits
  <2> QED
    BY <2>1, <2>2, <2>3, <2>4
<1>2. Falls(6, 5) /\ Falls(5, 4) /\ Falls(4, 3) /\ Falls(3, 2)
  <2>1. Falls(6, 6 - 1) /\ Falls(5, 5 - 1) /\ Falls(4, 4 - 1) /\ Falls(3, 3 - 1)
    BY <1>1
  <2> QED
    BY <2>1
<1>3. handler[p] = "joining" => B(6)
  BY DEF Ahead
<1>4. ~B(2)
  BY DEF Ahead
<1>5. <<Alive /\ HandlerSteps(p)>>_svars => Alive /\ HandlerSteps(p)
  OBVIOUS
<1>f. SFairSpec => SSpec /\ ConnectionRuns(p)
  BY FairToConnection
<1>s. WaitsAreJustified => WaitJustified(p)
  BY WaitOf
<1> HIDE DEF B, Q
<1>6. SFairSpec /\ []WaitsAreJustified
        => (handler[p] = "joining" ~> Q \/ ~Alive)
  BY <1>2, <1>3, <1>4, <1>5, <1>f, <1>s, IntactInvariant, PTL
  DEF SSpec, ConnectionRuns, WaitJustified, Falls
<1> QED
  BY <1>6 DEF Q

\* The handler is past its read loop, or never came to it.
Over(p) == handler[p] \in {"stopping", "hanging up", "leaving", "rejecting",
                           "returning", "done"}

\* A closed socket ends the wait for a join, and the read loop, after what is
\* under way: the join, or the frame that is being relayed.
LEMMA ClosedComesOut ==
  ASSUME NEW p \in Peer
  PROVE  SFairSpec /\ []WaitsAreJustified
           => (handler[p] # "none" /\ link[p] = "down" ~> Over(p) \/ ~Alive)
<1> DEFINE D == handler[p] # "none" /\ link[p] = "down"
           B(n) == D /\ Ahead(p) <= n
           Falls(m, n) ==
             /\ Intact /\ B(m) /\ [SNext]_svars => B(m)'
             /\ Intact /\ B(m) /\ Alive /\ HandlerSteps(p) /\ [SNext]_svars
                  => B(n)'
             /\ Intact /\ B(m) => B(n) \/ ~HandlerWaits(p)
<1>1. Ahead(p) \in 0 .. 8 /\ Ahead(p)' \in 0 .. 8
  BY DEF Ahead
<1>2. Intact /\ D /\ [SNext]_svars => D'
  <2> SUFFICES ASSUME Intact, D, [SNext]_svars PROVE D'
    OBVIOUS
  <2>1. HandlerMoves(p) => handler'[p] # "none"
    BY IntactIs, HandlerNext DEF STypeOK, HandlerPlace, Entered
  <2> QED
    BY <2>1, IntactIs, OthersWait
<1>3. ASSUME NEW m \in 1 .. 8
      PROVE  Falls(m, m - 1)
  <2>1. ASSUME Intact, D, HandlerMoves(p), Ahead(p) <= m
        PROVE  Ahead(p)' <= m - 1
    BY <1>1, <2>1, AheadFalls
  <2>2. ASSUME Intact, B(m), [SNext]_svars PROVE Ahead(p)' <= m
    <3>1. CASE HandlerMoves(p)
      BY <1>1, <2>1, <2>2, <3>1
    <3>2. CASE handler'[p] = handler[p] /\ at'[p] = at[p]
      BY <2>2, <3>2 DEF Ahead
    <3> QED
      BY <2>2, <3>1, <3>2, IntactIs, OthersWait
  <2>3. HandlerSteps(p) => HandlerMoves(p)
    BY DEF HandlerMoves
  <2>4. ASSUME D, HandlerWaits(p), Ahead(p) <= m PROVE Ahead(p) <= m - 1
    <3>1. handler[p] \in {"none", "done", "stopping", "leaving"}
      BY <2>4 DEF HandlerWaits, Dead
    <3> QED
      BY <3>1 DEF Ahead
  <2> QED
    BY <1>2, <2>1, <2>2, <2>3, <2>4
<1>4. /\ Falls(8, 7) /\ Falls(7, 6) /\ Falls(6, 5) /\ Falls(5, 4)
      /\ Falls(4, 3) /\ Falls(3, 2) /\ Falls(2, 1) /\ Falls(1, 0)
  <2>1. /\ Falls(8, 8 - 1) /\ Falls(7, 7 - 1) /\ Falls(6, 6 - 1)
        /\ Falls(5, 5 - 1) /\ Falls(4, 4 - 1) /\ Falls(3, 3 - 1)
        /\ Falls(2, 2 - 1) /\ Falls(1, 1 - 1)
    <3> HIDE DEF Falls
    <3> QED
      BY <1>3
  <2> QED
    BY <2>1
<1>5. D => B(8)
  BY <1>1
<1>6. Intact /\ B(0) => Over(p)
  <2>1. B(0) => handler[p] \notin {"none", "accepted", "awaiting", "joining",
                                   "reading"}
    BY DEF Ahead
  <2>2. Intact => handler[p] \in HandlerPlace
    BY IntactIs DEF STypeOK
  <2> QED
    BY <2>1, <2>2 DEF Over, HandlerPlace, Entered
<1>7. <<Alive /\ HandlerSteps(p)>>_svars => Alive /\ HandlerSteps(p)
  OBVIOUS
<1>f. SFairSpec => SSpec /\ ConnectionRuns(p)
  BY FairToConnection
<1>s. WaitsAreJustified => WaitJustified(p)
  BY WaitOf
<1> HIDE DEF D, B
<1>8. SFairSpec /\ []WaitsAreJustified => (D ~> Over(p) \/ ~Alive)
  BY <1>4, <1>5, <1>6, <1>7, <1>f, <1>s, IntactInvariant, PTL
  DEF SSpec, ConnectionRuns, WaitJustified, Falls
<1> QED
  BY <1>8 DEF D

-----------------------------------------------------------------------------
(* The writer *)

Flushing(p) == writer[p] \in {"flushing", "last words"}
Looping(p)  == writer[p] \in {"selecting", "writing", "pinging"}

\* A writer that is at work has a handler in its loop or waiting for it.
LEMMA WriterHasHandler ==
  ASSUME Intact, NEW p \in Peer, writer[p] \notin {"none", "done"}
  PROVE  handler[p] \in {"reading", "stopping"}
BY IntactIs DEF STypeOK, Places, HandlerPlace, Entered

\* It moves by its own steps, and its handler only from the loop to the wait.
LEMMA AtWork ==
  ASSUME Intact, [SNext]_svars, NEW p \in Peer, writer[p] \notin {"none", "done"}
  PROVE  /\ WriterSteps(p) \/ writer'[p] = writer[p]
         /\ handler'[p] = handler[p] \/ handler'[p] = "stopping"
<1>0. TypeOK /\ STypeOK /\ Places
  BY IntactIs
<1>1. handler[p] \in {"reading", "stopping"}
  BY WriterHasHandler
<1>2. ~StartLoops(p)
  BY <1>1 DEF StartLoops, Go
<1>3. HandlerMoves(p) => handler'[p] \in {handler[p], "stopping"}
  BY <1>0, <1>1, HandlerNext
<1> QED
  BY <1>0, <1>2, <1>3, OthersWait

\* closeGrace ends the flush, however many frames are still sent to the peer.
LEMMA FlushIsBounded ==
  ASSUME NEW p \in Peer
  PROVE  SFairSpec /\ []WaitsAreJustified
           => (Flushing(p) ~> writer[p] \in {"hanging up", "done"} \/ ~Alive)
<1> DEFINE F == writer[p] = "flushing"
           W == writer[p] = "last words"
           R == handler[p] = "reading"
           Q == writer[p] \in {"hanging up", "done"}
<1>1. Intact /\ Intact' /\ (F \/ W) /\ [SNext]_svars
        => Q' \/ ((F' \/ W') /\ (R' => R))
  <2> SUFFICES ASSUME Intact, F \/ W, [SNext]_svars
               PROVE  Q' \/ ((F' \/ W') /\ (R' => R))
    OBVIOUS
  <2>1. WriterSteps(p) => Q' \/ F' \/ W'
    BY IntactIs, WriterNext
  <2> QED
    BY <2>1, AtWork, WriterHasHandler
<1>2. Intact /\ F /\ WriterSteps(p) => W' \/ Q'
  BY IntactIs, WriterNext
<1>3. F => ~WriterWaits(p) /\ writer[p] # "selecting"
  BY DEF WriterWaits
<1>4. W => Ripe(p)
  BY DEF Ripe
<1>5. Intact /\ (F \/ W) /\ Contended(p) => Q' \/ (R /\ ~R')
  <2> SUFFICES ASSUME Intact, F \/ W, Contended(p) PROVE Q' \/ (R /\ ~R')
    OBVIOUS
  <2>0. TypeOK /\ STypeOK /\ Places
    BY IntactIs
  <2>1. CASE FlushFails(p)
    BY <2>0, <2>1 DEF FlushFails, EndWriter, Write, STypeOK
  <2>2. CASE ReadFails(p)
    BY <2>0, <2>2 DEF ReadFails, Go, STypeOK
  <2>3. ~WriterStops(p) /\ ~WriterCloses(p)
    BY DEF WriterStops, WriterCloses, EndWriter, Write
  <2>4. ~LeaveHub(p)
    BY <2>0 DEF LeaveHub, Places
  <2> QED
    BY <2>1, <2>2, <2>3, <2>4 DEF Contended
<1>6. /\ <<Alive /\ writer[p] # "selecting" /\ WriterSteps(p)>>_svars
           => WriterSteps(p)
      /\ <<Alive /\ Contended(p)>>_svars => Contended(p)
  OBVIOUS
<1>7. Flushing(p) <=> F \/ W
  BY DEF Flushing
<1>f. SFairSpec => SSpec /\ ConnectionRuns(p)
  BY FairToConnection
<1>s. WaitsAreJustified => WaitJustified(p)
  BY WaitOf
<1> HIDE DEF F, W, R, Q
<1>8. SFairSpec /\ []WaitsAreJustified => (Flushing(p) ~> Q \/ ~Alive)
  BY <1>1, <1>2, <1>3, <1>4, <1>5, <1>6, <1>7, <1>f, <1>s,
     IntactInvariant, PTL
  DEF SSpec, ConnectionRuns, WaitJustified
<1> QED
  BY <1>8 DEF Q

\* The close handshake of flushAndClose is bounded by the library.
LEMMA HangUpEnds ==
  ASSUME NEW p \in Peer
  PROVE  SFairSpec /\ []WaitsAreJustified
           => (writer[p] = "hanging up" ~> writer[p] = "done" \/ ~Alive)
<1>1. Intact /\ writer[p] = "hanging up" /\ [SNext]_svars
        => (writer[p] = "hanging up")' \/ (writer[p] = "done")'
  BY IntactIs, AtWork, WriterNext
<1>2. Intact /\ writer[p] = "hanging up" /\ WriterSteps(p)
        => (writer[p] = "done")'
  BY IntactIs, WriterNext
<1>3. writer[p] = "hanging up" => ~WriterWaits(p) /\ writer[p] # "selecting"
  BY DEF WriterWaits
<1>4. <<Alive /\ writer[p] # "selecting" /\ WriterSteps(p)>>_svars
        => WriterSteps(p)
  OBVIOUS
<1>f. SFairSpec => SSpec /\ ConnectionRuns(p)
  BY FairToConnection
<1>s. WaitsAreJustified => WaitJustified(p)
  BY WaitOf
<1> QED
  BY <1>1, <1>2, <1>3, <1>4, <1>f, <1>s, IntactInvariant, PTL
  DEF SSpec, ConnectionRuns, WaitJustified

\* A writer whose context has ended leaves its select in the end, although
\* frames, pings and a close request compete with the context, and although
\* the client may not read.
LEMMA LoopIsLeft ==
  ASSUME NEW p \in Peer
  PROVE  SFairSpec /\ []WaitsAreJustified
           => (handler[p] = "stopping" /\ Looping(p) ~> ~Looping(p) \/ ~Alive)
<1> DEFINE S == handler[p] = "stopping"
           L == writer[p] = "selecting"
           W == writer[p] \in {"writing", "pinging"}
<1>0. Looping(p) <=> L \/ W
  BY DEF Looping
<1>1. Intact /\ S /\ (L \/ W) /\ [SNext]_svars => S'
  BY IntactIs, AtWork
<1>2. Intact /\ W /\ [SNext]_svars => W' \/ L' \/ ~Looping(p)'
  BY DEF Looping
<1>3. Intact /\ W /\ WriterSteps(p) => L' \/ ~Looping(p)'
  BY IntactIs, WriterNext DEF Looping
<1>4. Intact /\ S /\ W => ~WriterWaits(p) /\ writer[p] # "selecting"
  BY IntactIs DEF Stops, WriterWaits, Dead
<1>5. Intact /\ S /\ L => Ripe(p)
  BY IntactIs DEF Stops, Ripe
<1>6. Intact /\ S /\ (L \/ W) /\ Contended(p) => ~Looping(p)'
  <2> SUFFICES ASSUME Intact, S, L \/ W, Contended(p) PROVE ~Looping(p)'
    OBVIOUS
  <2>0. writer \in [Peer -> WriterPlace]
    BY IntactIs DEF STypeOK
  <2>1. WriterStops(p) \/ WriterCloses(p)
    BY DEF Contended, FlushFails, EndWriter, Write, ReadFails, Go, LeaveHub
  <2> QED
    BY <2>0, <2>1 DEF WriterStops, WriterCloses, EndWriter, Write, Looping
<1>7. /\ <<Alive /\ writer[p] # "selecting" /\ WriterSteps(p)>>_svars
           => WriterSteps(p)
      /\ <<Alive /\ Contended(p)>>_svars => Contended(p)
  OBVIOUS
<1>f. SFairSpec => SSpec /\ ConnectionRuns(p)
  BY FairToConnection
<1>s. WaitsAreJustified => WaitJustified(p)
  BY WaitOf
<1> HIDE DEF S, L, W
<1>8. SFairSpec /\ []WaitsAreJustified
        => (S /\ Looping(p) ~> ~Looping(p) \/ ~Alive)
  BY <1>0, <1>1, <1>2, <1>3, <1>4, <1>5, <1>6, <1>7, <1>f, <1>s,
     IntactInvariant, PTL
  DEF SSpec, ConnectionRuns, WaitJustified
<1> QED
  BY <1>8 DEF S

\* "<-writerDone" comes.
LEMMA StoppingEnds ==
  ASSUME NEW p \in Peer
  PROVE  SFairSpec /\ []WaitsAreJustified
           => (handler[p] = "stopping" ~> handler[p] = "hanging up" \/ ~Alive)
<1> DEFINE S == handler[p] = "stopping"
           H == handler[p] = "hanging up"
           U == writer[p] = "hanging up"
           W == writer[p] = "done"
           Q == writer[p] \in {"hanging up", "done"}
<1>0. /\ Q <=> U \/ W
      /\ Intact /\ S => Looping(p) \/ Flushing(p) \/ Q
  <2>1. Intact => writer[p] \in WriterPlace /\ Stops
    BY IntactIs DEF STypeOK
  <2> QED
    BY <2>1 DEF Stops, WriterPlace, Looping, Flushing
<1>1. Intact /\ S /\ [SNext]_svars => S' \/ H'
  BY IntactIs, OthersWait, HandlerNext
<1>2. Intact /\ S /\ W /\ [SNext]_svars => W'
  <2> SUFFICES ASSUME Intact, S, W, [SNext]_svars PROVE W'
    OBVIOUS
  <2>1. ~WriterSteps(p)
    BY IntactIs, WriterNext
  <2>2. ~StartLoops(p)
    BY DEF StartLoops, Go
  <2> QED
    BY <2>1, <2>2, IntactIs, OthersWait
<1>3. Intact /\ S /\ HandlerSteps(p) => H'
  BY IntactIs, HandlerNext DEF HandlerMoves
<1>4. S /\ W => ~HandlerWaits(p)
  BY DEF HandlerWaits
<1>5. <<Alive /\ HandlerSteps(p)>>_svars => HandlerSteps(p)
  OBVIOUS
<1>6. SFairSpec /\ []WaitsAreJustified
        => (S /\ Looping(p) ~> ~Looping(p) \/ ~Alive)
  BY LoopIsLeft
<1>7. SFairSpec /\ []WaitsAreJustified => (Flushing(p) ~> Q \/ ~Alive)
  BY FlushIsBounded
<1>8. SFairSpec /\ []WaitsAreJustified => (U ~> W \/ ~Alive)
  BY HangUpEnds
<1>f. SFairSpec => SSpec /\ ConnectionRuns(p)
  BY FairToConnection
<1>s. WaitsAreJustified => WaitJustified(p)
  BY WaitOf
<1> HIDE DEF S, H, U, W, Q
<1>9. SFairSpec /\ []WaitsAreJustified => (S ~> H \/ ~Alive)
  BY <1>0, <1>1, <1>2, <1>3, <1>4, <1>5, <1>6, <1>7, <1>8, <1>f, <1>s,
     IntactInvariant, PTL
  DEF SSpec, ConnectionRuns, WaitJustified
<1> QED
  BY <1>9 DEF S, H

-----------------------------------------------------------------------------
(* The handler returns *)

\* leave gets the mutex, sends its bye and comes back, among any number of
\* joins, departures and timeouts.
LEMMA LeavingEnds ==
  ASSUME NEW p \in Peer
  PROVE  SFairSpec /\ []WaitsAreJustified
           => (handler[p] = "leaving" ~> handler[p] = "done" \/ ~Alive)
<1> DEFINE L == handler[p] = "leaving"
           V == L /\ at[p] = "serving"
           G == L /\ at[p] = "leaving"
           E == L /\ at[p] = "gone"
           D == handler[p] = "done"
<1>0. Intact => (L <=> V \/ G \/ E)
  BY IntactIs DEF Places
<1>1. /\ Intact /\ V /\ HandlerMoves(p) => G' \/ E' \/ D'
      /\ Intact /\ G /\ HandlerMoves(p) => E' \/ D'
      /\ Intact /\ E /\ HandlerMoves(p) => D'
  BY IntactIs, HandlerNext
<1>2. /\ Intact /\ V /\ [SNext]_svars => V' \/ G' \/ E' \/ D'
      /\ Intact /\ G /\ [SNext]_svars => G' \/ E' \/ D'
      /\ Intact /\ E /\ [SNext]_svars => E' \/ D'
  BY <1>1, IntactIs, OthersWait
<1>3. Intact /\ L /\ Contended(p) => HandlerMoves(p)
  <2> SUFFICES ASSUME Intact, L, Contended(p) PROVE HandlerMoves(p)
    OBVIOUS
  <2>1. writer[p] = "done"
    BY IntactIs DEF Places
  <2>2. LeaveHub(p)
    BY <2>1 DEF Contended, WriterStops, WriterCloses, FlushFails, EndWriter,
                Write, ReadFails, Go
  <2> QED
    BY <2>2 DEF HandlerMoves, HandlerSteps
<1>4. HandlerSteps(p) => HandlerMoves(p)
  BY DEF HandlerMoves
<1>5. /\ V /\ mu = NoPeer => Ripe(p)
      /\ G => Ripe(p)
      /\ E => ~HandlerWaits(p)
  BY DEF Ripe, HandlerWaits
<1>6. /\ <<Alive /\ HandlerSteps(p)>>_svars => HandlerSteps(p)
      /\ <<Alive /\ Contended(p)>>_svars => Contended(p)
  OBVIOUS
<1>f. SFairSpec => SSpec /\ ConnectionRuns(p)
  BY FairToConnection
<1>s. WaitsAreJustified => WaitJustified(p)
  BY WaitOf
<1> HIDE DEF L, V, G, E, D
<1>7. V \/ G \/ E => L
  BY DEF V, G, E
<1>8. SFairSpec /\ []WaitsAreJustified => (L ~> D \/ ~Alive)
  BY <1>0, <1>1, <1>2, <1>3, <1>4, <1>5, <1>6, <1>7, <1>f, <1>s,
     MutexFreedToAll, IntactInvariant, PTL
  DEF SSpec, ConnectionRuns, WaitJustified
<1> QED
  BY <1>8 DEF L, D

\* Wherever the handler stands after its read loop, it returns.
LEMMA OverEnds ==
  ASSUME NEW p \in Peer
  PROVE  SFairSpec /\ []WaitsAreJustified
           => (Over(p) ~> handler[p] = "done" \/ ~Alive)
<1> DEFINE S == handler[p] = "stopping"
           H == handler[p] = "hanging up"
           L == handler[p] = "leaving"
           J == handler[p] = "rejecting"
           R == handler[p] = "returning"
           D == handler[p] = "done"
<1>0. Over(p) <=> S \/ H \/ L \/ J \/ R \/ D
  BY DEF Over
<1>1. /\ Intact /\ H /\ HandlerMoves(p) => L'
      /\ Intact /\ J /\ HandlerMoves(p) => R'
      /\ Intact /\ R /\ HandlerMoves(p) => D'
  BY IntactIs, HandlerNext
<1>2. /\ Intact /\ H /\ [SNext]_svars => H' \/ L'
      /\ Intact /\ J /\ [SNext]_svars => J' \/ R'
      /\ Intact /\ R /\ [SNext]_svars => R' \/ D'
  BY <1>1, IntactIs, OthersWait
<1>3. H \/ J \/ R => ~HandlerWaits(p)
  BY DEF HandlerWaits
<1>4. /\ HandlerSteps(p) => HandlerMoves(p)
      /\ <<Alive /\ HandlerSteps(p)>>_svars => HandlerSteps(p)
  BY DEF HandlerMoves
<1>5. SFairSpec /\ []WaitsAreJustified => (S ~> H \/ ~Alive)
  BY StoppingEnds
<1>6. SFairSpec /\ []WaitsAreJustified => (L ~> D \/ ~Alive)
  BY LeavingEnds
<1>f. SFairSpec => SSpec /\ ConnectionRuns(p)
  BY FairToConnection
<1>s. WaitsAreJustified => WaitJustified(p)
  BY WaitOf
<1> HIDE DEF S, H, L, J, R, D
<1>7. SFairSpec /\ []WaitsAreJustified => (Over(p) ~> D \/ ~Alive)
  BY <1>0, <1>1, <1>2, <1>3, <1>4, <1>5, <1>6, <1>f, <1>s,
     IntactInvariant, PTL
  DEF SSpec, ConnectionRuns, WaitJustified
<1> QED
  BY <1>7 DEF D

\* Close is not taken back.
LEMMA StaysClosing == [SNext]_svars /\ stage # "open" => stage' # "open"
<1>1. ASSUME NEW q \in Peer, OutsideHub(q), stage # "open"
      PROVE  stage' # "open"
  BY <1>1
  DEF OutsideHub, Accept, Enter, ReadJoin, AwaitFails, StartLoops, ReadBye,
      ReadFails, WriterEnded, CloseSocket, RejectSocket, Return, WriterStops,
      WriteReturns, WriteFails, FlushFails, PingStarts, Pong, PingFails,
      WriterCloses, FlushEnds, WriterHangsUp, ClientStalls, ClientResumes,
      ClientGoes, HookFires
<1>2. ASSUME NEW q \in Peer,
             \/ Join(q) \/ ReadSignal(q) \/ RelaySignal(q) \/ LeaveHub(q)
             \/ WriterTakes(q) \/ (LonelyTimer(q) /\ UNCHANGED conns)
      PROVE  stage' = stage
  BY <1>2 DEF Join, ReadSignal, RelaySignal, LeaveHub, WriterTakes, conns
<1>3. ASSUME CloseCancels \/ CloseWaits \/ CloseWakes \/ CloseEnds,
             stage # "open"
      PROVE  stage' # "open"
  BY <1>3 DEF CloseCancels, CloseWaits, CloseWakes, CloseEnds, conns
<1>4. CASE UNCHANGED svars
  BY <1>4 DEF svars
<1> QED
  BY <1>1, <1>2, <1>3, <1>4, StepsSplit

\* The hook closes the socket of a handler that Close has found running.
LEMMA HookCloses ==
  ASSUME NEW p \in Peer
  PROVE  SFairSpec /\ []WaitsAreJustified
           => (handler[p] \in Entered /\ stage # "open"
                 ~> (handler[p] # "none" /\ link[p] = "down")
                      \/ handler[p] = "done" \/ ~Alive)
<1> DEFINE K == handler[p] \in Entered /\ stage # "open"
           L == handler[p] # "none" /\ link[p] = "down"
           D == handler[p] = "done"
<1>1. Intact /\ K /\ [SNext]_svars => K' \/ D'
  <2> SUFFICES ASSUME Intact, K, [SNext]_svars PROVE K' \/ D'
    OBVIOUS
  <2>1. HandlerMoves(p) => handler'[p] \in Entered \/ D'
    BY IntactIs, HandlerNext DEF Entered
  <2> QED
    BY <2>1, IntactIs, OthersWait, StaysClosing
<1>2. Intact /\ K /\ HookFires(p) => L'
  BY IntactIs DEF HookFires, HangUp, STypeOK, Entered
<1>3. K => Hooked(p) \/ L
  BY DEF Hooked, Entered
<1>4. <<Alive /\ HookFires(p)>>_svars => HookFires(p)
  OBVIOUS
<1>f. SFairSpec => SSpec /\ ConnectionRuns(p)
  BY FairToConnection
<1>s. WaitsAreJustified => WaitJustified(p)
  BY WaitOf
<1> HIDE DEF K, L, D
<1>5. SFairSpec /\ []WaitsAreJustified => (K ~> L \/ D \/ ~Alive)
  BY <1>1, <1>2, <1>3, <1>4, <1>f, <1>s, IntactInvariant, PTL
  DEF SSpec, ConnectionRuns, WaitJustified
<1> QED
  BY <1>5 DEF K, L, D

\* A connection that is being ended, by its client, by its own loops or by
\* Close, comes to the end of handleConn with its leave done, whatever the
\* clients, the other connections and the timers do meanwhile.
THEOREM EndedConnectionsReturn ==
  SFairSpec /\ []WaitsAreJustified => EndedConnectionReturns
<1>1. ASSUME NEW p \in Peer
      PROVE  SFairSpec /\ []WaitsAreJustified
               => (Ending(p) ~> handler[p] = "done" \/ stage = "panicked")
  <2> DEFINE K == handler[p] \in Entered /\ stage # "open"
             L == handler[p] # "none" /\ link[p] = "down"
             D == handler[p] = "done"
             X == stage = "panicked"
  <2>1. (Ending(p) => Over(p) \/ L \/ K) /\ (~Alive => X)
    BY DEF Ending, Over, Alive
  <2>2. SFairSpec /\ []WaitsAreJustified => (K ~> L \/ D \/ ~Alive)
    BY HookCloses
  <2>3. SFairSpec /\ []WaitsAreJustified => (L ~> Over(p) \/ ~Alive)
    BY ClosedComesOut
  <2>4. SFairSpec /\ []WaitsAreJustified => (Over(p) ~> D \/ ~Alive)
    BY OverEnds
  <2> HIDE DEF K, L, D, X
  <2>5. SFairSpec /\ []WaitsAreJustified => (Ending(p) ~> D \/ X)
    BY <2>1, <2>2, <2>3, <2>4, PTL
  <2> QED
    BY <2>5 DEF D, X
<1>2. SFairSpec /\ []WaitsAreJustified
        => \A p \in Peer :
             (Ending(p) ~> handler[p] = "done" \/ stage = "panicked")
  BY <1>1
<1> QED
  BY <1>2 DEF EndedConnectionReturns

-----------------------------------------------------------------------------
(* The read loop hears of the end, and the writer of the close request *)

\* A read loop whose context has ended is left, whatever the client sends:
\* the other contended steps of the connection are taken only once.
LEMMA CancelledReadEnds ==
  ASSUME NEW p \in Peer
  PROVE  SFairSpec /\ []WaitsAreJustified
           => (handler[p] = "reading" /\ cancelled[p]
                 ~> handler[p] = "stopping" \/ ~Alive)
<1> DEFINE T == handler[p] = "reading" /\ cancelled[p]
           S == handler[p] = "stopping"
           V == at[p] = "serving"
           Q == writer[p] \in {"hanging up", "done"}
<1>0. Intact /\ T => Looping(p) \/ Flushing(p) \/ Q
  <2>1. Intact => writer[p] \in WriterPlace /\ Stops
    BY IntactIs DEF STypeOK
  <2> QED
    BY <2>1 DEF Stops, WriterPlace, Looping, Flushing
<1>1. Intact /\ T /\ [SNext]_svars => T' \/ S'
  BY IntactIs, OthersWait, HandlerNext
<1>2. Intact /\ T /\ ~Looping(p) /\ [SNext]_svars
        => ~Looping(p)' /\ (Q => Q')
  <2> SUFFICES ASSUME Intact, T, ~Looping(p), [SNext]_svars
               PROVE  ~Looping(p)' /\ (Q => Q')
    OBVIOUS
  <2>1. ~StartLoops(p)
    BY DEF StartLoops, Go
  <2>2. CASE writer'[p] = writer[p]
    BY <2>2 DEF Looping
  <2>3. CASE WriterSteps(p)
    BY <1>0, <2>3, IntactIs, WriterNext DEF Looping, Flushing
  <2> QED
    BY <2>1, <2>2, <2>3, IntactIs, OthersWait
<1>3. Intact /\ Intact' /\ T /\ ~V /\ Alive /\ HandlerSteps(p) => V' \/ S'
  BY IntactIs, HandlerNext DEF HandlerMoves, Places
<1>4. T /\ ~V => ~HandlerWaits(p)
  BY DEF HandlerWaits
<1>5. T /\ V => Ripe(p)
  BY DEF Ripe, Dead
<1>6. Intact /\ T /\ Contended(p)
        => \/ S' \/ (Looping(p) /\ ~Looping(p)') \/ (~Looping(p) /\ ~Q /\ Q')
  <2> SUFFICES ASSUME Intact, T, Contended(p)
               PROVE  \/ S' \/ (Looping(p) /\ ~Looping(p)')
                      \/ (~Looping(p) /\ ~Q /\ Q')
    OBVIOUS
  <2>0. TypeOK /\ STypeOK
    BY IntactIs
  <2>1. CASE ReadFails(p)
    BY <2>0, <2>1 DEF ReadFails, Go, STypeOK
  <2>2. CASE WriterStops(p) \/ WriterCloses(p)
    BY <2>0, <2>2
    DEF WriterStops, WriterCloses, EndWriter, Write, STypeOK, Looping
  <2>3. CASE FlushFails(p)
    BY <2>0, <2>3 DEF FlushFails, EndWriter, Write, STypeOK, Looping
  <2>4. ~LeaveHub(p)
    BY DEF LeaveHub
  <2> QED
    BY <2>1, <2>2, <2>3, <2>4 DEF Contended
<1>7. /\ <<Alive /\ HandlerSteps(p)>>_svars => Alive /\ HandlerSteps(p)
      /\ <<Alive /\ Contended(p)>>_svars => Contended(p)
  OBVIOUS
<1>8. Q => ~Looping(p)
  BY DEF Looping
<1>f. SFairSpec => SSpec /\ ConnectionRuns(p)
  BY FairToConnection
<1>s. WaitsAreJustified => WaitJustified(p)
  BY WaitOf
<1> HIDE DEF T, S, V, Q
<1>9. SFairSpec /\ []WaitsAreJustified => (T ~> S \/ ~Alive)
  BY <1>1, <1>2, <1>3, <1>4, <1>5, <1>6, <1>7, <1>8, <1>f, <1>s,
     IntactInvariant, PTL
  DEF SSpec, ConnectionRuns, WaitJustified
<1> QED
  BY <1>9 DEF T, S

\* A writer that has ended takes its handler with it.
LEMMA WriterEndsBoth ==
  ASSUME NEW p \in Peer
  PROVE  SFairSpec /\ []WaitsAreJustified
           => (writer[p] = "done" ~> handler[p] = "done" \/ ~Alive)
<1> DEFINE T == handler[p] = "reading" /\ cancelled[p]
           S == handler[p] = "stopping"
           D == handler[p] = "done"
<1>1. Intact /\ writer[p] = "done" => T \/ Over(p)
  BY IntactIs DEF STypeOK, Places, Stops, Over, HandlerPlace, Entered
<1>2. S => Over(p)
  BY DEF Over
<1>3. SFairSpec /\ []WaitsAreJustified => (T ~> S \/ ~Alive)
  BY CancelledReadEnds
<1>4. SFairSpec /\ []WaitsAreJustified => (Over(p) ~> D \/ ~Alive)
  BY OverEnds
<1> HIDE DEF T, S, D
<1>5. SFairSpec /\ []WaitsAreJustified => (writer[p] = "done" ~> D \/ ~Alive)
  BY <1>1, <1>2, <1>3, <1>4, IntactInvariant, PTL DEF SFairSpec
<1> QED
  BY <1>5 DEF D

\* A client that stays silent is closed: the ping fails, the writer ends, and
\* the handler closes the socket.
THEOREM SilentClientsAreClosed ==
  SFairSpec /\ []WaitsAreJustified => SilentClientIsClosed
<1>1. ASSUME NEW p \in Peer
      PROVE  SFairSpec /\ []WaitsAreJustified
               => (writer[p] = "pinging" /\ link[p] = "stalled"
                     ~> link[p] # "stalled" \/ stage = "panicked")
  <2> DEFINE P == writer[p] = "pinging" /\ link[p] = "stalled"
             N == link[p] # "stalled"
             W == writer[p] = "done"
             D == handler[p] = "done"
             X == stage = "panicked"
  <2>1. Intact /\ P /\ [SNext]_svars => P' \/ N' \/ W'
    <3> SUFFICES ASSUME Intact, P, [SNext]_svars PROVE P' \/ N' \/ W'
      OBVIOUS
    <3>1. WriterSteps(p) => W'
      BY IntactIs, WriterNext
    <3> QED
      BY <3>1, AtWork
  <2>2. Intact /\ P /\ WriterSteps(p) => W'
    BY IntactIs, WriterNext
  <2>3. P => ~WriterWaits(p) /\ writer[p] # "selecting"
    BY DEF WriterWaits
  <2>4. <<Alive /\ writer[p] # "selecting" /\ WriterSteps(p)>>_svars
          => WriterSteps(p)
    OBVIOUS
  <2>5. (Intact /\ D => N) /\ (~Alive => X)
    BY IntactIs DEF Places, Alive
  <2>6. SFairSpec /\ []WaitsAreJustified => (W ~> D \/ ~Alive)
    BY WriterEndsBoth
  <2>f. SFairSpec => SSpec /\ ConnectionRuns(p)
    BY FairToConnection
  <2>s. WaitsAreJustified => WaitJustified(p)
    BY WaitOf
  <2> HIDE DEF P, N, W, D, X
  <2>7. SFairSpec /\ []WaitsAreJustified => (P ~> N \/ X)
    BY <2>1, <2>2, <2>3, <2>4, <2>5, <2>6, <2>f, <2>s, IntactInvariant, PTL
    DEF SSpec, ConnectionRuns, WaitJustified
  <2> QED
    BY <2>7 DEF P, N, X
<1>2. SFairSpec /\ []WaitsAreJustified
        => \A p \in Peer :
             (writer[p] = "pinging" /\ link[p] = "stalled"
                ~> link[p] # "stalled" \/ stage = "panicked")
  BY <1>1
<1> QED
  BY <1>2 DEF SilentClientIsClosed

\* A writer whose client reads leaves its select for the close request, and
\* the connection with it.
LEMMA RequestEndsLoop ==
  ASSUME NEW p \in Peer
  PROVE  SFairSpec /\ []WaitsAreJustified
           => (handler[p] = "reading" /\ closeReason[p] # "none"
                 ~> link[p] # "up" \/ ~Alive)
<1> DEFINE T == handler[p] = "reading"
           S == handler[p] = "stopping"
           C == closeReason[p] # "none"
           N == link[p] # "up"
           L == writer[p] = "selecting"
           W == writer[p] \in {"writing", "pinging"}
           H == writer[p] = "hanging up"
           E == writer[p] = "done"
           Q == writer[p] \in {"hanging up", "done"}
           D == handler[p] = "done"
<1>0. Intact /\ C /\ [SNext]_svars => C'
  BY StepIsHubStep, CloseStays DEF Intact, Sound
<1>1. Intact /\ T /\ [SNext]_svars => T' \/ S'
  BY IntactIs, OthersWait, HandlerNext
<1>2. Intact /\ T /\ W /\ [SNext]_svars => W' \/ L' \/ ~Looping(p)'
  BY DEF Looping
<1>3. Intact /\ W /\ WriterSteps(p) => L' \/ ~Looping(p)'
  BY IntactIs, WriterNext DEF Looping
<1>4. /\ W => N \/ ~WriterWaits(p)
      /\ W => writer[p] # "selecting"
      /\ L /\ C => Ripe(p)
  BY DEF WriterWaits, Ripe
<1>5. Intact /\ T /\ Looping(p) /\ Contended(p) => ~Looping(p)' \/ S'
  <2> SUFFICES ASSUME Intact, T, Looping(p), Contended(p)
               PROVE  ~Looping(p)' \/ S'
    OBVIOUS
  <2>0. TypeOK /\ STypeOK
    BY IntactIs
  <2>1. CASE ReadFails(p)
    BY <2>0, <2>1 DEF ReadFails, Go, STypeOK
  <2>2. CASE WriterStops(p) \/ WriterCloses(p)
    BY <2>0, <2>2
    DEF WriterStops, WriterCloses, EndWriter, Write, STypeOK, Looping
  <2>3. ~FlushFails(p) /\ ~LeaveHub(p)
    BY DEF FlushFails, EndWriter, Write, LeaveHub, Looping
  <2> QED
    BY <2>1, <2>2, <2>3 DEF Contended
<1>6. /\ <<Alive /\ writer[p] # "selecting" /\ WriterSteps(p)>>_svars
           => WriterSteps(p)
      /\ <<Alive /\ Contended(p)>>_svars => Contended(p)
  OBVIOUS
<1>7. /\ Looping(p) <=> L \/ W
      /\ Intact /\ T => Looping(p) \/ Flushing(p) \/ Q
      /\ Q <=> H \/ E
      /\ S => Over(p)
      /\ Intact /\ D => N
  <2>1. Intact => writer[p] \in WriterPlace /\ Stops /\ Places
    BY IntactIs DEF STypeOK
  <2> QED
    BY <2>1 DEF Stops, Places, WriterPlace, Looping, Flushing, Over
<1>8. SFairSpec /\ []WaitsAreJustified => (Flushing(p) ~> Q \/ ~Alive)
  BY FlushIsBounded
<1>9. SFairSpec /\ []WaitsAreJustified => (H ~> E \/ ~Alive)
  BY HangUpEnds
<1>10. SFairSpec /\ []WaitsAreJustified => (E ~> D \/ ~Alive)
  BY WriterEndsBoth
<1>11. SFairSpec /\ []WaitsAreJustified => (Over(p) ~> D \/ ~Alive)
  BY OverEnds
<1>f. SFairSpec => SSpec /\ ConnectionRuns(p)
  BY FairToConnection
<1>s. WaitsAreJustified => WaitJustified(p)
  BY WaitOf
<1> HIDE DEF T, S, C, N, L, W, H, E, Q, D
<1>12. SFairSpec /\ []WaitsAreJustified
         => (T /\ C /\ Looping(p)
               ~> (T /\ ~Looping(p)) \/ S \/ N \/ ~Alive)
  BY <1>0, <1>1, <1>2, <1>3, <1>4, <1>5, <1>6, <1>7, <1>f, <1>s,
     IntactInvariant, PTL
  DEF SSpec, ConnectionRuns, WaitJustified
<1>13. SFairSpec /\ []WaitsAreJustified => (T /\ C ~> N \/ ~Alive)
  BY <1>7, <1>8, <1>9, <1>10, <1>11, <1>12, IntactInvariant, PTL
  DEF SFairSpec
<1> QED
  BY <1>13 DEF T, C, N

\* The registry's close request reaches every client that reads, even one that
\* sends for ever, and even if it came while the join was under way.
THEOREM CloseRequestsAreHeard ==
  SFairSpec /\ []WaitsAreJustified => CloseRequestIsHeard
<1>1. ASSUME NEW p \in Peer
      PROVE  SFairSpec /\ []WaitsAreJustified
               => (closeReason[p] # "none" /\ link[p] = "up"
                     ~> link[p] # "up" \/ stage = "panicked")
  <2> DEFINE A == handler[p] = "accepted"
             B == handler[p] = "awaiting"
             J == handler[p] = "joining"
             T == handler[p] = "reading"
             TJ == handler[p] \in {"reading", "rejecting"}
             C == closeReason[p] # "none"
             U == link[p] = "up"
             N == link[p] # "up"
             D == handler[p] = "done"
             X == stage = "panicked"
  <2>0. Intact /\ C /\ [SNext]_svars => C'
    BY StepIsHubStep, CloseStays DEF Intact, Sound
  <2>1. Intact => N \/ A \/ B \/ J \/ T \/ Over(p)
    <3>1. Intact => handler[p] \in HandlerPlace /\ Stops
      BY IntactIs DEF STypeOK
    <3> QED
      BY <3>1 DEF Stops, HandlerPlace, Entered, Over
  <2>2. /\ Intact /\ A /\ HandlerMoves(p) => B'
        /\ Intact /\ B /\ HandlerMoves(p) => J' \/ Over(p)'
    BY IntactIs, HandlerNext DEF Over
  <2>3. /\ Intact /\ A /\ [SNext]_svars => A' \/ B'
        /\ Intact /\ B /\ [SNext]_svars => B' \/ J' \/ Over(p)'
    BY <2>2, IntactIs, OthersWait
  <2>4. A \/ B => ~HandlerWaits(p)
    BY DEF HandlerWaits
  <2>5. /\ HandlerSteps(p) => HandlerMoves(p)
        /\ <<Alive /\ HandlerSteps(p)>>_svars => HandlerSteps(p)
    BY DEF HandlerMoves
  <2>6. (Intact /\ D => N) /\ (~Alive => X) /\ (TJ => T \/ Over(p)) /\ (U <=> ~N)
    BY IntactIs DEF Places, Alive, Over
  <2>7. SFairSpec /\ []WaitsAreJustified => (J ~> TJ \/ ~Alive)
    BY JoinEnds
  <2>8. SFairSpec /\ []WaitsAreJustified => (T /\ C ~> N \/ ~Alive)
    BY RequestEndsLoop
  <2>9. SFairSpec /\ []WaitsAreJustified => (Over(p) ~> D \/ ~Alive)
    BY OverEnds
  <2>f. SFairSpec => SSpec /\ ConnectionRuns(p)
    BY FairToConnection
  <2>s. WaitsAreJustified => WaitJustified(p)
    BY WaitOf
  <2> HIDE DEF A, B, J, T, TJ, C, U, N, D, X
  <2>10. SFairSpec /\ []WaitsAreJustified => (C /\ U ~> N \/ X)
    BY <2>0, <2>1, <2>2, <2>3, <2>4, <2>5, <2>6, <2>7, <2>8, <2>9, <2>f, <2>s,
       IntactInvariant, PTL
    DEF SSpec, ConnectionRuns, WaitJustified
  <2> QED
    BY <2>10 DEF C, U, N, X
<1>2. SFairSpec /\ []WaitsAreJustified
        => \A p \in Peer :
             (closeReason[p] # "none" /\ link[p] = "up"
                ~> link[p] # "up" \/ stage = "panicked")
  BY <1>1
<1> QED
  BY <1>2 DEF CloseRequestIsHeard

-----------------------------------------------------------------------------
(* The fairness of Hub is the fairness of its connections *)

\* What a hub function has left to do after an unlock is the handler's next
\* step, and the handler has no other.
LEMMA NextInHub ==
  ASSUME Intact, NEW p \in Peer
  PROVE  /\ at[p] \in {"announcing", "replacing", "relaying", "leaving"}
              => ~HandlerWaits(p)
         /\ HandlerSteps(p) =>
              /\ at[p] = "announcing" => <<JoinAnnounce(p)>>_vars
              /\ at[p] = "replacing" => <<CloseReplaced(p)>>_vars
              /\ at[p] = "relaying" => <<ForwardSend(p)>>_vars
              /\ at[p] = "leaving" => <<LeaveSend(p)>>_vars
<1>0. TypeOK /\ STypeOK /\ Places
  BY IntactIs
<1>1. /\ at[p] \in {"announcing", "replacing"} => handler[p] = "joining"
      /\ at[p] = "relaying" => handler[p] = "reading"
      /\ at[p] = "leaving" => handler[p] = "leaving"
  BY <1>0 DEF STypeOK, Places, HandlerPlace, Entered
<1>2. at[p] \in {"announcing", "replacing", "relaying", "leaving"}
        => ~HandlerWaits(p)
  BY <1>1 DEF HandlerWaits
<1>3. ASSUME HandlerSteps(p), at[p] \in {"announcing", "replacing"}
      PROVE  /\ at[p] = "announcing" => JoinAnnounce(p)
             /\ at[p] = "replacing" => CloseReplaced(p)
  <2>1. Join(p)
    BY <1>1, <1>3
    DEF HandlerSteps, Go, Enter, AwaitFails, StartLoops, RelaySignal,
        ReadFails, WriterEnded, CloseSocket, LeaveHub, RejectSocket, Return
  <2> QED
    BY <1>3, <2>1 DEF Join, JoinRegister, JoinAnnounce, Announce, CloseReplaced,
                      JoinRejected
<1>4. ASSUME HandlerSteps(p), at[p] = "relaying"
      PROVE  ForwardSend(p)
  BY <1>1, <1>4
  DEF HandlerSteps, Go, Enter, AwaitFails, Join, StartLoops, RelaySignal,
      ReadFails, WriterEnded, CloseSocket, LeaveHub, RejectSocket, Return
<1>5. ASSUME HandlerSteps(p), at[p] = "leaving"
      PROVE  LeaveSend(p)
  BY <1>1, <1>5
  DEF HandlerSteps, Go, Enter, AwaitFails, Join, StartLoops, RelaySignal,
      ReadFails, WriterEnded, CloseSocket, LeaveHub, RejectSocket, Return,
      Leave
<1>6. /\ JoinAnnounce(p) \/ CloseReplaced(p) \/ ForwardSend(p) \/ LeaveSend(p)
           => at'[p] # at[p]
  BY <1>0 DEF TypeOK, JoinAnnounce, Announce, CloseReplaced, ForwardSend, LeaveSend
<1>7. at'[p] # at[p] => vars' # vars
  BY DEF vars, handlers
<1> QED
  BY <1>2, <1>3, <1>4, <1>5, <1>6, <1>7

\* The goroutines of a connection keep those of the hub running: conn.go never
\* leaves a hub function in the middle.
LEMMA HubRuns ==
  ASSUME NEW p \in Peer
  PROVE  SFairSpec /\ []WaitsAreJustified /\ []NobodyStuck /\ []Alive
           => GoroutinesRun(p)
<1> DEFINE A == at[p] = "announcing"
           R == at[p] = "replacing"
           F == at[p] = "relaying"
           L == at[p] = "leaving"
<1>1. /\ Intact /\ (A \/ R \/ F \/ L) => ~HandlerWaits(p)
      /\ Intact /\ HandlerSteps(p) /\ A => <<JoinAnnounce(p)>>_vars
      /\ Intact /\ HandlerSteps(p) /\ R => <<CloseReplaced(p)>>_vars
      /\ Intact /\ HandlerSteps(p) /\ F => <<ForwardSend(p)>>_vars
      /\ Intact /\ HandlerSteps(p) /\ L => <<LeaveSend(p)>>_vars
  BY NextInHub
<1>2. <<Alive /\ HandlerSteps(p)>>_svars => HandlerSteps(p)
  OBVIOUS
<1>3. Intact /\ <<Alive /\ LonelyTimer(p) /\ UNCHANGED conns>>_svars
        => <<LonelyTimer(p)>>_vars
  <2>1. Intact /\ LonelyTimer(p) => timer'[p] # timer[p]
    BY IntactIs DEF LonelyTimer, LonelyFires, ExpireLonely, ExpireSend,
                    ExpireClose, TypeOK
  <2>2. timer'[p] # timer[p] => vars' # vars
    BY DEF vars
  <2> QED
    BY <2>1, <2>2
<1>f. SFairSpec => SSpec /\ ConnectionRuns(p)
  BY FairToConnection
<1>s. WaitsAreJustified => WaitJustified(p)
  BY WaitOf
<1>n. NobodyStuck => NotStuck(p)
  BY NeverStuck
<1> HIDE DEF A, R, F, L
<1>4. at[p] = "announcing" <=> A
  BY DEF A
<1>5. at[p] = "replacing" <=> R
  BY DEF R
<1>6. at[p] = "relaying" <=> F
  BY DEF F
<1>7. at[p] = "leaving" <=> L
  BY DEF L
<1> QED
  BY <1>1, <1>2, <1>3, <1>4, <1>5, <1>6, <1>7, <1>f, <1>s, <1>n,
     IntactInvariant, PTL
  DEF SSpec, ConnectionRuns, WaitJustified, NotStuck, GoroutinesRun

\* While Hub.Close is not called, nothing can panic.
LEMMA OpenIsAlive ==
  ASSUME ~Shutdown PROVE SSpec => []Alive
<1>1. SInit => stage = "open"
  BY DEF SInit
<1>2. ASSUME stage = "open", [SNext]_svars
      PROVE  stage' = "open"
  <2>1. ASSUME NEW q \in Peer, OutsideHub(q) PROVE stage' = "open"
    BY <1>2, <2>1
    DEF OutsideHub, Accept, Enter, ReadJoin, AwaitFails, StartLoops, ReadBye,
        ReadFails, WriterEnded, CloseSocket, RejectSocket, Return, WriterStops,
        WriteReturns, WriteFails, FlushFails, PingStarts, Pong, PingFails,
        WriterCloses, FlushEnds, WriterHangsUp, ClientStalls, ClientResumes,
        ClientGoes, HookFires
  <2>2. ASSUME NEW q \in Peer,
               \/ Join(q) \/ ReadSignal(q) \/ RelaySignal(q) \/ LeaveHub(q)
               \/ WriterTakes(q) \/ (LonelyTimer(q) /\ UNCHANGED conns)
        PROVE  stage' = "open"
    BY <1>2, <2>2
    DEF Join, ReadSignal, RelaySignal, LeaveHub, WriterTakes, conns
  <2>3. ~(CloseCancels \/ CloseWaits \/ CloseWakes \/ CloseEnds)
    BY <1>2 DEF CloseCancels, CloseWaits, CloseWakes, CloseEnds
  <2>4. CASE UNCHANGED svars
    BY <1>2, <2>4 DEF svars
  <2> QED
    BY <1>2, <2>1, <2>2, <2>3, <2>4, StepsSplit
<1>3. stage = "open" /\ [SNext]_svars => (stage = "open")'
  BY <1>2
<1>4. stage = "open" => Alive
  BY DEF Alive
<1> QED
  BY <1>1, <1>3, <1>4, PTL DEF SSpec

\* The fairness that Hub assumes is that of the goroutines of conn.go: what
\* HubLiveness shows of the registry holds among real handlers, writers and
\* timers, as long as the WaitGroup does not panic.
THEOREM HubIsScheduled ==
  SFairSpec /\ []WaitsAreJustified /\ []NobodyStuck /\ []Alive => FairSpec
<1>1. SFairSpec /\ []WaitsAreJustified /\ []NobodyStuck /\ []Alive
        => \A p \in Peer : GoroutinesRun(p)
  BY HubRuns
<1>2. SFairSpec => SSpec
  BY DEF SFairSpec
<1> QED
  BY <1>1, <1>2, HubImplemented, PTL DEF FairSpec, Fairness

\* On a server that is not being closed every partner hears of a departure,
\* every displaced peer is asked to close, and no device waits for ever.
THEOREM PromisesAmongConnections ==
  ASSUME ~Shutdown
  PROVE  SFairSpec /\ []WaitsAreJustified /\ []NobodyStuck
           => PairingPromises /\ LoneDeviceResolved
<1>1. SFairSpec => SSpec
  BY DEF SFairSpec
<1>2. SSpec => []Alive
  BY OpenIsAlive
<1> QED
  BY <1>1, <1>2, HubIsScheduled, DebtsArePaid, LoneDevicesResolved

\* Every connection sees the pairing that Pairing describes, its frames in
\* order, one side told to offer, and every departure announced.
THEOREM PairingAmongConnections ==
  SSpec => /\ PairingSafety
           /\ [](FramesInOrder /\ OneInitiator /\ DepartureIsAnnounced)
           /\ ReadyWhenPaired
BY HubImplemented, ImplementsPairing, FramesArriveInOrder, OneSideOffers,
   DeparturesAnnounced, ReadyTellsBoth, PTL

-----------------------------------------------------------------------------
(* What becomes of a connection *)

\* The connection has returned and has given back its place in the registry,
\* its socket and its writer.
Cleared(p) ==
  /\ handler[p] = "done" /\ link[p] = "down"
  /\ writer[p] \in {"none", "done"} /\ ~Holds(p)

\* A connection that is being ended gives everything back.
THEOREM EndedConnectionsClear ==
  SFairSpec /\ []WaitsAreJustified
    => \A p \in Peer : Ending(p) ~> Cleared(p) \/ stage = "panicked"
<1>1. ASSUME NEW p \in Peer
      PROVE  SFairSpec /\ []WaitsAreJustified
               => (Ending(p) ~> Cleared(p) \/ stage = "panicked")
  <2>1. NothingLeftBehind /\ handler[p] = "done" => Cleared(p)
    BY DEF NothingLeftBehind, Cleared
  <2>2. EndedConnectionReturns
          => (Ending(p) ~> handler[p] = "done" \/ stage = "panicked")
    BY DEF EndedConnectionReturns
  <2>3. SFairSpec => SSpec
    BY DEF SFairSpec
  <2> QED
    BY <2>1, <2>2, <2>3, EndedConnectionsReturn, NothingLeft, PTL
<1> QED
  BY <1>1

\* What Close needs of the connections, and Closing says of them: each one it
\* finds, and each one that comes while it waits, ends.
THEOREM KeepsClosingPromise ==
  SFairSpec /\ []WaitsAreJustified => ClosingPromise
<1>1. ASSUME NEW p \in Peer
      PROVE  SFairSpec /\ []WaitsAreJustified
               => (p \in Running /\ Phase # "open"
                     ~> p \notin Running \/ Phase = "panicked")
  <2> DEFINE K == p \in Running /\ Phase # "open"
             D == handler[p] = "done"
             X == stage = "panicked"
             N == p \notin Running \/ Phase = "panicked"
  <2>1. K => Ending(p)
    BY DEF Ending, Running, Phase
  <2>2. D \/ X => N
    BY DEF Running, Entered, Phase
  <2>3. EndedConnectionReturns => (Ending(p) ~> handler[p] = "done" \/ stage = "panicked")
    BY DEF EndedConnectionReturns
  <2>4. SFairSpec /\ []WaitsAreJustified => (Ending(p) ~> D \/ X)
    BY <2>3, EndedConnectionsReturn
  <2> HIDE DEF K, D, X, N
  <2>5. SFairSpec /\ []WaitsAreJustified => (K ~> N)
    BY <2>1, <2>2, <2>4, PTL
  <2> QED
    BY <2>5 DEF K, N
<1> QED
  BY <1>1 DEF ClosingPromise, Wait!Promise, Running

\* A socket, once there, is up, stalled or down.
Dialed == \A p \in Peer : handler[p] # "none" => link[p] # "none"

LEMMA DialedStep == TypeOK /\ Connections /\ Dialed /\ [SNext]_svars => Dialed'
<1> SUFFICES ASSUME TypeOK, Connections, Dialed, [SNext]_svars, NEW p \in Peer,
                    handler'[p] # "none"
             PROVE  link'[p] # "none"
  BY DEF Dialed
<1>0. /\ STypeOK /\ Places
      /\ handler \in [Peer -> HandlerPlace] /\ link \in [Peer -> Link]
  BY DEF Connections, STypeOK
<1>1. ASSUME NEW q \in Peer, OutsideHub(q) PROVE link'[p] # "none"
  <2>1. CASE Accept(q)
    <3>1. link' = [link EXCEPT ![q] = "up"] /\ handler' = [handler EXCEPT ![q] = "accepted"]
      BY <2>1 DEF Accept, Go
    <3> QED
      BY <1>0, <3>1 DEF Dialed
  <2>2. CASE \/ ReadFails(q) \/ CloseSocket(q) \/ RejectSocket(q) \/ WriteFails(q)
             \/ FlushFails(q) \/ WriterHangsUp(q) \/ ClientStalls(q)
             \/ ClientResumes(q) \/ ClientGoes(q) \/ HookFires(q)
    <3>1. /\ \E l \in {"up", "stalled", "down"} : link' = [link EXCEPT ![q] = l]
          /\ handler' = handler \/ \E to \in HandlerPlace : handler[q] # "none" /\ Go(q, handler[q], to)
      BY <2>2 DEF ReadFails, CloseSocket, RejectSocket, WriteFails, FlushFails,
                  WriterHangsUp, ClientStalls, ClientResumes, ClientGoes,
                  HookFires, HangUp, Go, HandlerPlace, Entered
    <3> QED
      BY <1>0, <3>1 DEF Dialed, Go
  <2>3. CASE \/ Enter(q) \/ ReadJoin(q) \/ AwaitFails(q) \/ StartLoops(q)
             \/ ReadBye(q) \/ WriterEnded(q) \/ Return(q)
    <3>1. /\ link' = link
          /\ \E to \in HandlerPlace : handler[q] # "none" /\ Go(q, handler[q], to)
      BY <2>3 DEF Enter, ReadJoin, AwaitFails, StartLoops, ReadBye, WriterEnded,
                  Return, Go, HandlerPlace, Entered
    <3> QED
      BY <1>0, <3>1 DEF Dialed, Go
  <2>4. CASE \/ WriterStops(q) \/ WriteReturns(q) \/ PingStarts(q) \/ Pong(q)
             \/ PingFails(q) \/ WriterCloses(q) \/ FlushEnds(q)
    <3>1. link' = link /\ handler' = handler
      BY <2>4 DEF WriterStops, WriteReturns, PingStarts, Pong, PingFails,
                  WriterCloses, FlushEnds
    <3> QED
      BY <3>1 DEF Dialed
  <2> QED
    BY <1>1, <2>1, <2>2, <2>3, <2>4 DEF OutsideHub
<1>2. ASSUME NEW q \in Peer,
             \/ Join(q) \/ ReadSignal(q) \/ RelaySignal(q) \/ LeaveHub(q)
             \/ WriterTakes(q) \/ (LonelyTimer(q) /\ UNCHANGED conns)
      PROVE  link'[p] # "none"
  <2>1. link' = link /\ (handler' = handler \/ Go(q, "joining", "rejecting"))
    BY <1>2 DEF Join, ReadSignal, RelaySignal, LeaveHub, WriterTakes, conns
  <2> QED
    BY <1>0, <2>1 DEF Dialed, Go
<1>3. CASE CloseCancels \/ CloseWaits \/ CloseWakes \/ CloseEnds \/ UNCHANGED svars
  <2>1. link' = link /\ handler' = handler
    BY <1>3 DEF CloseCancels, CloseWaits, CloseWakes, CloseEnds, conns, svars
  <2> QED
    BY <2>1 DEF Dialed
<1> QED
  BY <1>1, <1>2, <1>3, StepsSplit

LEMMA DialedInvariant == SSpec => []Dialed
<1>1. SInit => Dialed
  BY DEF SInit, Dialed
<1> QED
  BY <1>1, DialedStep, ConnectionsInvariant, PTL DEF SSpec

\* A connection that was asked to close does, and returns, unless its client
\* stops reading over and over.
LEMMA AskedReturns ==
  ASSUME NEW p \in Peer
  PROVE  SFairSpec /\ []WaitsAreJustified
           => (closeReason[p] # "none" /\ handler[p] # "none"
                 ~> handler[p] = "done" \/ stage = "panicked"
                      \/ []<>(link[p] = "stalled"))
<1> DEFINE C == closeReason[p] # "none"
           H == handler[p] # "none"
           U == link[p] = "up"
           N == link[p] # "up"
           T == link[p] = "stalled"
           D == handler[p] = "done"
           X == stage = "panicked"
<1>1. Intact /\ C /\ [SNext]_svars => C'
  BY StepIsHubStep, CloseStays DEF Intact, Sound
<1>2. Intact /\ H /\ [SNext]_svars => H'
  <2> SUFFICES ASSUME Intact, H, [SNext]_svars PROVE H'
    OBVIOUS
  <2>1. HandlerMoves(p) => handler'[p] # "none"
    BY IntactIs, HandlerNext DEF STypeOK, HandlerPlace, Entered
  <2> QED
    BY <2>1, IntactIs, OthersWait
<1>3. Intact /\ Dialed /\ H => U \/ T \/ Ending(p)
  BY IntactIs DEF STypeOK, Link, Dialed, Ending
<1>4. Dialed /\ Intact /\ H /\ N => T \/ Ending(p)
  BY <1>3
<1>5. EndedConnectionReturns
        => (Ending(p) ~> handler[p] = "done" \/ stage = "panicked")
  BY DEF EndedConnectionReturns
<1>6. SFairSpec /\ []WaitsAreJustified => (Ending(p) ~> D \/ X)
  BY <1>5, EndedConnectionsReturn
<1>7. CloseRequestIsHeard
        => (closeReason[p] # "none" /\ link[p] = "up"
              ~> link[p] # "up" \/ stage = "panicked")
  BY DEF CloseRequestIsHeard
<1>8. SFairSpec /\ []WaitsAreJustified => (C /\ U ~> N \/ X)
  BY <1>7, CloseRequestsAreHeard
<1>f. SFairSpec => SSpec
  BY DEF SFairSpec
<1> HIDE DEF C, H, U, N, T, D, X
<1>9. SFairSpec /\ []WaitsAreJustified => (C /\ H ~> D \/ X \/ []<>T)
  BY <1>1, <1>2, <1>3, <1>4, <1>6, <1>8, <1>f, IntactInvariant,
     DialedInvariant, PTL
  DEF SSpec
<1> QED
  BY <1>9 DEF C, H, D, X, T

\* What Hub promises holds among the connections, or the process is gone.
THEOREM PromisesUnlessPanic ==
  SFairSpec /\ []WaitsAreJustified /\ []NobodyStuck
    => (PairingPromises /\ LoneDeviceResolved) \/ <>[](stage = "panicked")
<1>1. stage = "panicked" /\ [SNext]_svars => (stage = "panicked")'
  BY DEF SNext, Alive, svars
<1>2. Alive \/ stage = "panicked"
  BY DEF Alive
<1>3. SFairSpec => SSpec
  BY DEF SFairSpec
<1> QED
  BY <1>1, <1>2, <1>3, HubIsScheduled, DebtsArePaid, LoneDevicesResolved, PTL
  DEF SSpec

\* Who has joined does not come to join again.
LEMMA JoinsOnce ==
  ASSUME NEW p \in Peer, Intact, at[p] # "dialing", [SNext]_svars
  PROVE  at'[p] # "dialing"
<1>1. HandlerMoves(p) => at'[p] # "dialing"
  <2>1. /\ handler \in [Peer -> HandlerPlace] /\ Places
        /\ at \in [Peer -> Place]
    BY IntactIs DEF STypeOK, TypeOK
  <2> QED
    BY <2>1
    DEF HandlerMoves, HandlerSteps, Accept, Enter, ReadJoin, AwaitFails, Join,
        StartLoops, ReadSignal, RelaySignal, ReadBye, ReadFails, WriterEnded,
        CloseSocket, LeaveHub, RejectSocket, Return, JoinRegister, JoinAnnounce, Announce,
        CloseReplaced, JoinRejected, Forward, ForwardSend, Leave, LeaveSend,
        vars, handlers
<1> QED
  BY <1>1, IntactIs, OthersWait

\* The registry is swept only by a Close that has been called.
Swept == sweep # "open" => stage # "open"

LEMMA SweptInvariant == SSpec => []Swept
<1>1. SInit => Swept
  BY DEF SInit, Init, Swept
<1>2. ASSUME Swept, [SNext]_svars PROVE Swept'
  <2>1. ASSUME NEW q \in Peer, OutsideHub(q) PROVE sweep' = sweep
    BY <2>1, OutsideStep DEF vars
  <2>2. ASSUME NEW q \in Peer,
               \/ Join(q) \/ ReadSignal(q) \/ RelaySignal(q) \/ LeaveHub(q)
               \/ WriterTakes(q) \/ (LonelyTimer(q) /\ UNCHANGED conns)
        PROVE  sweep' = sweep
    BY <2>2
    DEF Join, ReadSignal, RelaySignal, LeaveHub, WriterTakes, Drain,
        JoinRegister, JoinAnnounce, Announce, CloseReplaced, JoinRejected, Forward,
        ForwardSend, Leave, LeaveSend, LonelyTimer, LonelyFires, ExpireLonely,
        ExpireSend, ExpireClose, registry, handlers, vars
  <2>3. CASE CloseCancels \/ CloseWaits \/ CloseWakes
    BY <2>3 DEF CloseCancels, CloseWaits, CloseWakes, vars, Swept
  <2>4. CASE CloseEnds
    BY <2>4 DEF CloseEnds, conns, Swept
  <2>5. CASE UNCHANGED svars
    BY <1>2, <2>5 DEF svars, Swept
  <2>6. sweep' = sweep => Swept'
    BY <1>2, StaysClosing DEF Swept
  <2> QED
    BY <1>2, <2>1, <2>2, <2>3, <2>4, <2>5, <2>6, StepsSplit
<1>3. Swept /\ [SNext]_svars => Swept'
  BY <1>2
<1> QED
  BY <1>1, <1>3, PTL DEF SSpec

\* Only who has joined is displaced, and the hub keeps a pointer only to who
\* has: leave, expireLonely and the join that replaces never name anybody else.
LEMMA DisplacedHasJoined ==
  ASSUME NEW p \in Peer
  PROVE  SSpec => [](p \in Displaced => at[p] # "dialing")
<1>1. Abstract!Settled => (p \in Displaced => at[p] # "dialing")
  BY DEF Abstract!Settled
<1> QED
  BY <1>1, HubImplemented, ImplementsPairing, PairsAreSettled, PTL

LEMMA JoinedHasHandler ==
  ASSUME NEW p \in Peer, Intact, at[p] # "dialing"
  PROVE  handler[p] # "none"
BY IntactIs DEF Places

\* A displaced connection, or an expired device, is closed and returns, unless
\* its client stops reading over and over.  Between the mutex that displaced it
\* and its end stand another goroutine's call of close, its own writer's select,
\* the flush, its read loop and its leave.
THEOREM DisplacedConnectionsReturn ==
  SFairSpec /\ []WaitsAreJustified /\ []NobodyStuck
    => \A p \in Peer :
         p \in Displaced
           ~> handler[p] = "done" \/ stage = "panicked"
                \/ []<>(link[p] = "stalled")
<1>1. ASSUME NEW p \in Peer
      PROVE  SFairSpec /\ []WaitsAreJustified /\ []NobodyStuck
               => (p \in Displaced
                     ~> handler[p] = "done" \/ stage = "panicked"
                          \/ []<>(link[p] = "stalled"))
  <2> DEFINE V == p \in Displaced
             J == at[p] # "dialing"
             C == closeReason[p] # "none"
             H == handler[p] # "none"
             D == handler[p] = "done"
             X == stage = "panicked"
             T == link[p] = "stalled"
  <2>1. SSpec => [](V => J)
    BY DisplacedHasJoined
  <2>2. Intact /\ J /\ [SNext]_svars => J'
    BY JoinsOnce
  <2>3. Intact /\ J => H
    BY JoinedHasHandler
  <2>4. FairSpec /\ []NobodyStuck => (V ~> C)
    BY DisplacedIsClosed
  <2>5. SFairSpec /\ []WaitsAreJustified => (C /\ H ~> D \/ X \/ []<>T)
    BY AskedReturns
  <2>6. (X /\ [SNext]_svars => X') /\ (Alive \/ X)
    BY DEF SNext, Alive, svars
  <2>f. SFairSpec => SSpec
    BY DEF SFairSpec
  <2> HIDE DEF V, J, C, H, D, X, T
  <2>7. SFairSpec /\ []WaitsAreJustified /\ []NobodyStuck
          => (V ~> D \/ X \/ []<>T)
    BY <2>1, <2>2, <2>3, <2>4, <2>5, <2>6, <2>f,
       IntactInvariant, HubIsScheduled, PTL
    DEF SSpec
  <2> QED
    BY <2>7 DEF V, D, X, T
<1> QED
  BY <1>1

\* A device that waits alone with its timer set gets a phone, or its handler
\* returns: the no-receiver timeout is heard at the far end of the connection,
\* whatever comes between the timer and its mutex.
THEOREM LoneDevicesReturn ==
  SFairSpec /\ []WaitsAreJustified /\ []NobodyStuck
    => \A s \in SessionId, p \in Peer :
         lonely[s] = p
           ~> slot[s][Phone] # NoPeer
                \/ handler[p] = "done" \/ stage = "panicked"
                \/ []<>(link[p] = "stalled")
<1>1. ASSUME NEW s \in SessionId, NEW p \in Peer
      PROVE  SFairSpec /\ []WaitsAreJustified /\ []NobodyStuck
               => (lonely[s] = p
                     ~> slot[s][Phone] # NoPeer
                          \/ handler[p] = "done" \/ stage = "panicked"
                          \/ []<>(link[p] = "stalled"))
  <2> DEFINE L == lonely[s] = p
             R == Resolved(s, p)
             P == slot[s][Phone] # NoPeer
             J == at[p] # "dialing"
             C == closeReason[p] # "none"
             H == handler[p] # "none"
             D == handler[p] = "done"
             X == stage = "panicked"
             T == link[p] = "stalled"
  <2>1. Intact /\ L => J
    <3>1. Intact => RegistryOK
      BY DEF Intact, Sound
    <3>2. p # NoPeer
      BY HubAssumption DEF HubAssumption
    <3>3. Intact /\ L => slot[s][Device] = p
      BY <3>1, <3>2 DEF RegistryOK, TimerGuardsLoneDevice
    <3> QED
      BY <3>1, <3>2, <3>3 DEF RegistryOK, NoStalePeer, Role, Inside
  <2>2. Intact /\ J /\ [SNext]_svars => J'
    BY JoinsOnce
  <2>3. Intact /\ J => H
    BY JoinedHasHandler
  <2>4. Intact /\ Swept /\ J /\ R => P \/ (C /\ H) \/ Over(p) \/ Ending(p)
    <3> SUFFICES ASSUME Intact, Swept, J, R
                 PROVE  P \/ (C /\ H) \/ Over(p) \/ Ending(p)
      OBVIOUS
    <3>1. handler[p] \in HandlerPlace /\ Places
      BY IntactIs DEF STypeOK
    <3>2. CASE at[p] = "gone"
      BY <3>1, <3>2 DEF Places, HandlerPlace, Entered, Over
    <3>3. CASE sweep # "open"
      BY <3>1, <3>3 DEF Swept, Places, HandlerPlace, Ending, Over
    <3> QED
      BY <2>3, <3>2, <3>3 DEF Resolved
  <2>5. FairSpec /\ []NobodyStuck => (L ~> R)
    BY DeviceResolved
  <2>6. SFairSpec /\ []WaitsAreJustified => (C /\ H ~> D \/ X \/ []<>T)
    BY AskedReturns
  <2>7. SFairSpec /\ []WaitsAreJustified => (Over(p) ~> D \/ ~Alive)
    BY OverEnds
  <2>8. EndedConnectionReturns
          => (Ending(p) ~> handler[p] = "done" \/ stage = "panicked")
    BY DEF EndedConnectionReturns
  <2>9. SFairSpec /\ []WaitsAreJustified => (Ending(p) ~> D \/ X)
    BY <2>8, EndedConnectionsReturn
  <2>10. (X /\ [SNext]_svars => X') /\ (Alive \/ X)
    BY DEF SNext, Alive, svars
  <2>f. SFairSpec => SSpec
    BY DEF SFairSpec
  <2> HIDE DEF L, R, P, J, C, H, D, X, T
  <2>11. SFairSpec /\ []WaitsAreJustified /\ []NobodyStuck
           => (L ~> P \/ D \/ X \/ []<>T)
    BY <2>1, <2>2, <2>3, <2>4, <2>5, <2>6, <2>7, <2>9, <2>10, <2>f,
       IntactInvariant, SweptInvariant, HubIsScheduled, PTL
    DEF SSpec
  <2> QED
    BY <2>11 DEF L, P, D, X, T
<1> QED
  BY <1>1
=============================================================================
