-------------------------- MODULE SignalingProofs --------------------------
(***************************************************************************)
(* Theorems about Signaling, for every set of connections.  The connection  *)
(* layer implements Hub, so what HubProofs shows of the registry holds      *)
(* among real handlers, writers and shutdowns; together with where the      *)
(* goroutines of a connection may stand, it gives what a handler and Close  *)
(* leave behind.                                                           *)
(***************************************************************************)
EXTENDS Signaling, HubProofs

-----------------------------------------------------------------------------
(* Every step of a connection is a step of the hub, or none *)

\* The steps that do not enter the hub.
OutsideHub(p) ==
  \/ Accept(p) \/ Enter(p) \/ ReadJoin(p) \/ AwaitFails(p) \/ StartLoops(p)
  \/ ReadBye(p) \/ ReadFails(p) \/ WriterEnded(p) \/ CloseSocket(p)
  \/ RejectSocket(p) \/ Return(p) \/ WriterStops(p) \/ WriteReturns(p)
  \/ WriteFails(p) \/ FlushFails(p) \/ PingStarts(p) \/ Pong(p)
  \/ PingFails(p) \/ WriterCloses(p) \/ FlushEnds(p) \/ WriterHangsUp(p)
  \/ ClientStalls(p) \/ ClientResumes(p) \/ ClientGoes(p) \/ HookFires(p)

LEMMA OutsideStep ==
  ASSUME NEW p \in Peer, OutsideHub(p)
  PROVE  UNCHANGED vars
BY DEF OutsideHub, Accept, Enter, ReadJoin, AwaitFails, StartLoops, ReadBye,
       ReadFails, WriterEnded, CloseSocket, RejectSocket, Return, WriterStops,
       WriteReturns, WriteFails, FlushFails, PingStarts, Pong, PingFails,
       WriterCloses, FlushEnds, WriterHangsUp, ClientStalls, ClientResumes,
       ClientGoes, HookFires

LEMMA StepsSplit ==
  SNext => \/ \E p \in Peer :
                \/ OutsideHub(p)
                \/ Join(p) \/ ReadSignal(p) \/ RelaySignal(p) \/ LeaveHub(p)
                \/ WriterTakes(p)
                \/ LonelyTimer(p) /\ UNCHANGED conns
           \/ CloseCancels \/ CloseWaits \/ CloseWakes \/ CloseEnds
BY DEF SNext, HandlerSteps, WriterSteps, ClientSteps, OutsideHub

LEMMA StepIsHubStep == [SNext]_svars => [Next]_vars
<1>1. ASSUME NEW p \in Peer, OutsideHub(p) PROVE [Next]_vars
  BY <1>1, OutsideStep
<1>2. ASSUME NEW p \in Peer, Join(p) PROVE [Next]_vars
  BY <1>2 DEF Join, Next, Handler
<1>3. ASSUME NEW p \in Peer,
             ReadSignal(p) \/ RelaySignal(p) \/ LeaveHub(p) \/ WriterTakes(p)
      PROVE  [Next]_vars
  BY <1>3 DEF ReadSignal, RelaySignal, LeaveHub, WriterTakes, Next, Handler
<1>4. ASSUME NEW p \in Peer, LonelyTimer(p) PROVE [Next]_vars
  BY <1>4 DEF Next
<1>5. CASE CloseCancels \/ CloseWaits \/ CloseWakes \/ CloseEnds
  BY <1>5 DEF CloseCancels, CloseWaits, CloseWakes, CloseEnds, Next
<1>6. CASE UNCHANGED svars
  BY <1>6 DEF svars, vars
<1> QED
  BY <1>1, <1>2, <1>3, <1>4, <1>5, <1>6, StepsSplit

\* The connection layer uses the registry as Hub describes it: conn.go makes
\* no call in an order, or at a moment, that hub.go was not modelled for.
THEOREM HubImplemented == SSpec => Spec
<1>1. SInit => Init
  BY DEF SInit
<1> QED
  BY <1>1, StepIsHubStep, PTL DEF SSpec, Spec

-----------------------------------------------------------------------------
(* Where the goroutines of a connection may stand *)

\* How far the handler has come fixes where it can be in the hub, what the
\* writer does and whether the socket is closed.
Places ==
  \A p \in Peer :
    /\ handler[p] \in {"none", "accepted", "awaiting"} => at[p] = "dialing"
    /\ handler[p] = "joining"
         => at[p] \in {"dialing", "announcing", "replacing", "serving"}
    /\ handler[p] \in {"rejecting", "returning"} => at[p] \in {"dialing", "gone"}
    /\ handler[p] = "reading" => at[p] \in {"serving", "relaying"}
    /\ handler[p] \in {"stopping", "hanging up"} => at[p] = "serving"
    /\ handler[p] = "leaving" => at[p] \in {"serving", "leaving", "gone"}
    /\ handler[p] = "done" => at[p] \in {"dialing", "gone"}
    /\ handler[p] \in {"none", "accepted", "awaiting", "joining", "rejecting",
                       "returning"} => writer[p] = "none"
    /\ handler[p] \in {"hanging up", "leaving"} => writer[p] = "done"
    /\ handler[p] = "done" => writer[p] \in {"none", "done"}
    /\ handler[p] \in {"leaving", "returning", "done"} => link[p] = "down"
    /\ label[p] # NoLabel => role[p] \in Role

\* The counter of the WaitGroup is the number of handlers that entered.
Running == {p \in Peer : handler[p] \in Entered}
WgExact == IsFiniteSet(Running) /\ wg = Cardinality(Running)

Connections == STypeOK /\ Places /\ WgExact

LEMMA ConnectionsInit == SInit => Connections
<1> SUFFICES ASSUME SInit PROVE Connections
  OBVIOUS
<1>1. Running = {}
  BY DEF SInit, Running, Entered
<1> QED
  BY <1>1, FS_EmptySet
  DEF SInit, Init, Connections, STypeOK, Places, WgExact, HandlerPlace,
      WriterPlace, Link, Stage

\* Between Add and Done a handler is counted once, and nobody else is.
LEMMA Counting ==
  ASSUME STypeOK, WgExact, NEW p \in Peer, NEW to \in HandlerPlace,
         handler' = [handler EXCEPT ![p] = to]
  PROVE  /\ IsFiniteSet(Running')
         /\ handler[p] \in Entered /\ to \in Entered
              => Cardinality(Running') = wg
         /\ handler[p] \notin Entered /\ to \notin Entered
              => Cardinality(Running') = wg
         /\ handler[p] \notin Entered /\ to \in Entered
              => Cardinality(Running') = wg + 1
         /\ handler[p] \in Entered /\ to \notin Entered
              => Cardinality(Running') = wg - 1
<1>1. CASE (handler[p] \in Entered) = (to \in Entered)
  <2>1. Running' = Running
    BY <1>1 DEF Running, STypeOK
  <2> QED
    BY <1>1, <2>1 DEF WgExact
<1>2. CASE handler[p] \notin Entered /\ to \in Entered
  <2>1. Running' = Running \cup {p} /\ p \notin Running
    BY <1>2 DEF Running, STypeOK
  <2> QED
    BY <1>2, <2>1, FS_AddElement DEF WgExact
<1>3. CASE handler[p] \in Entered /\ to \notin Entered
  <2>1. Running' = Running \ {p} /\ p \in Running
    BY <1>3 DEF Running, STypeOK
  <2> QED
    BY <1>3, <2>1, FS_RemoveElement DEF WgExact
<1> QED
  BY <1>1, <1>2, <1>3

\* The types and the counter.
LEMMA TypesStep == STypeOK /\ WgExact /\ [SNext]_svars => STypeOK' /\ WgExact'
<1> SUFFICES ASSUME STypeOK, WgExact, [SNext]_svars
             PROVE  STypeOK' /\ WgExact'
  OBVIOUS
<1>1. wg \in Nat
  BY DEF STypeOK
<1>2. UNCHANGED <<handler, wg>> => WgExact'
  BY DEF WgExact, Running
<1>3. ASSUME NEW p \in Peer, OutsideHub(p)
      PROVE  STypeOK' /\ WgExact'
  <2>1. CASE Enter(p)
    <3>1. "awaiting" \in HandlerPlace /\ "awaiting" \in Entered
          /\ "accepted" \notin Entered
      BY DEF HandlerPlace, Entered
    <3>2. handler' = [handler EXCEPT ![p] = "awaiting"] /\ wg' = wg + 1
          /\ handler[p] = "accepted"
      BY <2>1 DEF Enter, Go
    <3>3. WgExact'
      BY <3>1, <3>2, Counting DEF WgExact
    <3> QED
      BY <1>1, <2>1, <3>1, <3>2, <3>3 DEF Enter, STypeOK
  <2>2. CASE Return(p)
    <3>1. "done" \in HandlerPlace /\ "done" \notin Entered
          /\ "returning" \in Entered /\ "leaving" \in Entered
      BY DEF HandlerPlace, Entered
    <3>2. handler' = [handler EXCEPT ![p] = "done"] /\ wg' = wg - 1
          /\ handler[p] \in Entered
      BY <2>2, <3>1 DEF Return, Go
    <3>3. WgExact'
      BY <3>1, <3>2, Counting DEF WgExact
    <3>4. wg' \in Nat
      BY <3>3, FS_CardinalityType DEF WgExact
    <3> QED
      BY <2>2, <3>1, <3>2, <3>3, <3>4
      DEF Return, Cancel, STypeOK, Stage
  <2>3. CASE ~Enter(p) /\ ~Return(p)
    <3>1. wg' = wg
      BY <1>3, <2>3
      DEF OutsideHub, Accept, ReadJoin, AwaitFails, StartLoops, ReadBye,
          ReadFails, WriterEnded, CloseSocket, RejectSocket, WriterStops,
          WriteReturns, WriteFails, FlushFails, PingStarts, Pong, PingFails,
          WriterCloses, FlushEnds, WriterHangsUp, ClientStalls,
          ClientResumes, ClientGoes, HookFires
    <3>2. \/ handler' = handler
          \/ Go(p, "none", "accepted")
          \/ \E from, to \in Entered : Go(p, from, to)
      <4>1. \/ handler' = handler
            \/ Go(p, "none", "accepted")
            \/ Go(p, "awaiting", "joining") \/ Go(p, "awaiting", "rejecting")
            \/ Go(p, "joining", "reading") \/ Go(p, "reading", "stopping")
            \/ Go(p, "stopping", "hanging up")
            \/ Go(p, "hanging up", "leaving")
            \/ Go(p, "rejecting", "returning")
        BY <1>3, <2>3
        DEF OutsideHub, Accept, ReadJoin, AwaitFails, StartLoops, ReadBye,
          ReadFails, WriterEnded, CloseSocket, RejectSocket, WriterStops,
          WriteReturns, WriteFails, FlushFails, PingStarts, Pong, PingFails,
          WriterCloses, FlushEnds, WriterHangsUp, ClientStalls,
          ClientResumes, ClientGoes, HookFires
      <4> QED
        BY <4>1 DEF Entered
    <3>3. WgExact'
      <4>1. CASE Go(p, "none", "accepted")
        <5>1. "accepted" \in HandlerPlace \ Entered /\ "none" \notin Entered
          BY DEF HandlerPlace, Entered
        <5> QED
          BY <3>1, <4>1, <5>1, Counting DEF Go, WgExact
      <4>2. ASSUME NEW from \in Entered, NEW to \in Entered, Go(p, from, to)
            PROVE  WgExact'
        <5>1. to \in HandlerPlace
          BY DEF HandlerPlace
        <5> QED
          BY <3>1, <4>2, <5>1, Counting DEF Go, WgExact
      <4> QED
        BY <1>2, <3>1, <3>2, <4>1, <4>2
    <3>4. STypeOK'
      <4>1. /\ handler' \in [Peer -> HandlerPlace]
            /\ wg' \in Nat
        BY <1>1, <3>1, <3>2 DEF Go, STypeOK, HandlerPlace
      <4>2. /\ writer' \in [Peer -> WriterPlace]
            /\ cancelled' \in [Peer -> BOOLEAN]
            /\ link' \in [Peer -> Link]
            /\ stage' = stage
        BY <1>3, <2>3
        DEF STypeOK, WriterPlace, Link, Go, Write, Cancel, HangUp, EndWriter,
            OutsideHub, Accept, ReadJoin, AwaitFails, StartLoops, ReadBye,
            ReadFails, WriterEnded, CloseSocket, RejectSocket, WriterStops,
            WriteReturns, WriteFails, FlushFails, PingStarts, Pong, PingFails,
            WriterCloses, FlushEnds, WriterHangsUp, ClientStalls,
            ClientResumes, ClientGoes, HookFires
      <4> QED
        BY <4>1, <4>2 DEF STypeOK
    <3> QED
      BY <3>3, <3>4
  <2> QED
    BY <2>1, <2>2, <2>3
<1>4. ASSUME NEW p \in Peer, Join(p)
      PROVE  STypeOK' /\ WgExact'
  <2>1. CASE UNCHANGED conns
    BY <1>2, <2>1 DEF conns, STypeOK
  <2>2. CASE Go(p, "joining", "rejecting")
             /\ UNCHANGED <<writer, cancelled, link, wg, stage>>
    <3>1. "rejecting" \in HandlerPlace /\ "rejecting" \in Entered
          /\ "joining" \in Entered
      BY DEF HandlerPlace, Entered
    <3>2. WgExact'
      BY <2>2, <3>1, Counting DEF Go, WgExact
    <3> QED
      BY <2>2, <3>1, <3>2 DEF Go, STypeOK
  <2> QED
    BY <1>4, <2>1, <2>2 DEF Join
<1>5. ASSUME NEW p \in Peer, WriterTakes(p)
      PROVE  STypeOK' /\ WgExact'
  BY <1>2, <1>5 DEF WriterTakes, Write, STypeOK, WriterPlace
<1>6. ASSUME NEW p \in Peer,
             \/ ReadSignal(p) \/ RelaySignal(p) \/ LeaveHub(p)
             \/ LonelyTimer(p) /\ UNCHANGED conns
      PROVE  STypeOK' /\ WgExact'
  BY <1>2, <1>6 DEF ReadSignal, RelaySignal, LeaveHub, conns, STypeOK
<1>7. CASE CloseCancels \/ CloseWaits \/ CloseWakes \/ CloseEnds
  BY <1>2, <1>7
  DEF CloseCancels, CloseWaits, CloseWakes, CloseEnds, conns, STypeOK, Stage
<1>8. CASE UNCHANGED svars
  BY <1>2, <1>8 DEF svars, STypeOK
<1> QED
  BY <1>3, <1>4, <1>5, <1>6, <1>7, <1>8, StepsSplit

\* A step outside the hub leaves the hub's part alone.
LEMMA PlacesOutside ==
  ASSUME Connections, NEW p \in Peer, OutsideHub(p)
  PROVE  Places'
<1>0. /\ handler \in [Peer -> HandlerPlace] /\ writer \in [Peer -> WriterPlace]
      /\ link \in [Peer -> Link]
      /\ Places
  BY DEF Connections, STypeOK
<1>1. at' = at /\ label' = label /\ role' = role
  BY OutsideStep DEF vars
<1>2. CASE \/ Accept(p) \/ Enter(p) \/ ReadJoin(p) \/ AwaitFails(p)
           \/ StartLoops(p) \/ ReadBye(p)
  <2>1. CASE Accept(p)
    BY <1>0, <1>1, <2>1 DEF Places, Go, Accept
  <2>2. CASE Enter(p) \/ ReadJoin(p) \/ AwaitFails(p)
    <3>1. /\ handler[p] \in {"accepted", "awaiting"}
          /\ \E to \in {"awaiting", "joining", "rejecting"} :
               handler' = [handler EXCEPT ![p] = to]
          /\ UNCHANGED <<writer, link>>
      BY <2>2 DEF Go, Enter, ReadJoin, AwaitFails
    <3> QED
      BY <1>0, <1>1, <3>1 DEF Places
  <2>3. CASE StartLoops(p)
    BY <1>0, <1>1, <2>3 DEF Places, Go, Write, StartLoops
  <2>4. CASE ReadBye(p)
    BY <1>0, <1>1, <2>4 DEF Places, Go, ReadBye
  <2> QED
    BY <1>2, <2>1, <2>2, <2>3, <2>4
<1>3. CASE \/ ReadFails(p) \/ WriterEnded(p) \/ CloseSocket(p)
           \/ RejectSocket(p) \/ Return(p)
  <2>1. CASE ReadFails(p)
    BY <1>0, <1>1, <2>1 DEF Places, Go, HangUp, ReadFails, Link
  <2>2. CASE WriterEnded(p)
    BY <1>0, <1>1, <2>2 DEF Places, Go, WriterEnded
  <2>3. CASE CloseSocket(p)
    BY <1>0, <1>1, <2>3 DEF Places, Go, HangUp, CloseSocket, Link
  <2>4. CASE RejectSocket(p)
    BY <1>0, <1>1, <2>4 DEF Places, Go, HangUp, RejectSocket, Link
  <2>5. CASE Return(p)
    BY <1>0, <1>1, <2>5 DEF Places, Go, Return
  <2> QED
    BY <1>3, <2>1, <2>2, <2>3, <2>4, <2>5
<1>4. CASE \/ WriterStops(p) \/ WriteReturns(p) \/ PingStarts(p) \/ Pong(p)
           \/ PingFails(p) \/ WriterCloses(p) \/ FlushEnds(p)
           \/ WriteFails(p) \/ FlushFails(p) \/ WriterHangsUp(p)
  <2>1. PICK from \in WriterPlace \ {"none", "done"}, to \in WriterPlace \ {"none"} :
          Write(p, from, to)
    <3>1. \/ Write(p, "selecting", "done") \/ Write(p, "writing", "selecting")
          \/ Write(p, "last words", "flushing")
          \/ Write(p, "selecting", "pinging") \/ Write(p, "pinging", "selecting")
          \/ Write(p, "pinging", "done") \/ Write(p, "selecting", "flushing")
          \/ Write(p, "flushing", "hanging up") \/ Write(p, "writing", "done")
          \/ Write(p, "last words", "done") \/ Write(p, "hanging up", "done")
      BY <1>4
      DEF EndWriter, WriterStops, WriteReturns, PingStarts, Pong, PingFails,
          WriterCloses, FlushEnds, WriteFails, FlushFails, WriterHangsUp
    <3> QED
      BY <3>1 DEF WriterPlace
  <2>2. handler' = handler /\ (link' = link \/ HangUp(p))
    BY <1>4
    DEF WriterStops, WriteReturns, PingStarts, Pong, PingFails, WriterCloses,
        FlushEnds, WriteFails, FlushFails, WriterHangsUp
  <2>3. \A q \in Peer : link[q] = "down" => link'[q] = "down"
    BY <1>0, <2>2 DEF HangUp
  <2> QED
    BY <1>0, <1>1, <2>1, <2>2, <2>3 DEF Places, Write
<1>5. CASE \/ ClientStalls(p) \/ ClientResumes(p) \/ ClientGoes(p)
           \/ HookFires(p)
  <2>1. \A q \in Peer : link[q] = "down" => link'[q] = "down"
    BY <1>0, <1>5 DEF HangUp, ClientStalls, ClientResumes, ClientGoes, HookFires
  <2>2. handler' = handler /\ writer' = writer
    BY <1>5 DEF ClientStalls, ClientResumes, ClientGoes, HookFires
  <2> QED
    BY <1>0, <1>1, <2>1, <2>2 DEF Places
<1> QED
  BY <1>2, <1>3, <1>4, <1>5 DEF OutsideHub

LEMMA PlacesStep == TypeOK /\ Connections /\ [SNext]_svars => Places'
<1> SUFFICES ASSUME TypeOK, Connections, [SNext]_svars
             PROVE  Places'
  OBVIOUS
<1>0. /\ handler \in [Peer -> HandlerPlace] /\ writer \in [Peer -> WriterPlace]
      /\ link \in [Peer -> Link]
      /\ at \in [Peer -> Place]
      /\ label \in [Peer -> Label \cup {NoLabel}]
      /\ role \in [Peer -> Role \cup {"none"}]
      /\ Places
  BY DEF Connections, STypeOK, TypeOK
<1>1. ASSUME NEW p \in Peer, OutsideHub(p) PROVE Places'
  BY <1>1, PlacesOutside
<1>2. ASSUME NEW p \in Peer, Join(p) PROVE Places'
  <2>1. ASSUME NEW r \in Role, NEW l \in Label, JoinRegister(p, r, l),
               UNCHANGED conns
        PROVE  Places'
    BY <1>0, <1>2, <2>1 DEF Places, Join, JoinRegister, conns
  <2>2. ASSUME JoinAnnounce(p), UNCHANGED conns PROVE Places'
    BY <1>0, <1>2, <2>2 DEF Places, Join, JoinAnnounce, Announce, conns
  <2>3. ASSUME CloseReplaced(p), UNCHANGED conns PROVE Places'
    BY <1>0, <1>2, <2>3 DEF Places, Join, CloseReplaced, conns
  <2>4. ASSUME NEW r, NEW l, JoinRejected(p, r, l),
               Go(p, "joining", "rejecting"),
               UNCHANGED <<writer, cancelled, link, wg, stage>>
        PROVE  Places'
    BY <1>0, <2>4 DEF Places, Go, JoinRejected
  <2> QED
    BY <1>2, <2>1, <2>2, <2>3, <2>4 DEF Join
<1>3. ASSUME NEW p \in Peer, ReadSignal(p) \/ RelaySignal(p) PROVE Places'
  <2>1. CASE ReadSignal(p)
    <3>1. at' = at \/ at' = [at EXCEPT ![p] = "relaying"]
      BY <2>1 DEF ReadSignal, Forward
    <3>2. handler[p] = "reading" /\ UNCHANGED <<role, label, conns>>
      BY <2>1 DEF ReadSignal, Forward
    <3> QED
      BY <1>0, <3>1, <3>2 DEF Places, conns
  <2>2. CASE RelaySignal(p)
    BY <1>0, <2>2 DEF Places, RelaySignal, ForwardSend, conns
  <2> QED
    BY <1>3, <2>1, <2>2
<1>4. ASSUME NEW p \in Peer, LeaveHub(p) PROVE Places'
  BY <1>0, <1>4 DEF Places, LeaveHub, Leave, LeaveSend, conns
<1>5. ASSUME NEW p \in Peer, WriterTakes(p) PROVE Places'
  BY <1>0, <1>5 DEF Places, WriterTakes, Drain, Write, handlers
<1>6. ASSUME NEW p \in Peer, LonelyTimer(p), UNCHANGED conns PROVE Places'
  BY <1>0, <1>6
  DEF Places, LonelyTimer, LonelyFires, ExpireLonely, ExpireSend, ExpireClose,
      handlers, conns
<1>7. CASE CloseCancels \/ CloseWaits \/ CloseWakes \/ CloseEnds
  BY <1>0, <1>7
  DEF Places, CloseCancels, CloseWaits, CloseWakes, CloseEnds, CloseSweep,
      CloseGauge, handlers, conns, vars
<1>8. CASE UNCHANGED svars
  BY <1>0, <1>8 DEF Places, svars
<1> QED
  BY <1>1, <1>2, <1>3, <1>4, <1>5, <1>6, <1>7, <1>8, StepsSplit

LEMMA ConnectionsInvariant ==
  SSpec => [](TypeOK /\ RegistryOK /\ GaugeExact /\ Connections)
<1>1. TypeOK /\ Connections /\ [SNext]_svars => Connections'
  BY TypesStep, PlacesStep DEF Connections
<1>2. Handlers => TypeOK
  BY DEF Handlers
<1> QED
  BY <1>1, <1>2, ConnectionsInit, HubImplemented, RegistryInvariant,
     GaugeCorrect, PTL
  DEF SSpec

-----------------------------------------------------------------------------
(* The theorems *)

\* Types, and a WaitGroup that never goes below zero: no path through
\* handleConn calls Done without its Add.
THEOREM ConnectionTypes == SSpec => []STypeOK
<1>1. Connections => STypeOK
  BY DEF Connections
<1> QED
  BY <1>1, ConnectionsInvariant, PTL

\* While the writer is at work the handler is in its read loop or waits for
\* it, so two goroutines never write to one socket.
THEOREM OneWriter == SSpec => []SoleWriter
<1>1. Connections => SoleWriter
  BY DEF Connections, STypeOK, Places, SoleWriter, HandlerPlace, Entered
<1> QED
  BY <1>1, ConnectionsInvariant, PTL

\* A peer whose departure is being announced has no open socket and no writer.
THEOREM SocketFirst == SSpec => []SlotOutlivesSocket
<1>1. Connections => SlotOutlivesSocket
  BY DEF Connections, STypeOK, Places, SlotOutlivesSocket, HandlerPlace,
         Entered
<1> QED
  BY <1>1, ConnectionsInvariant, PTL

\* A peer whose handler is not inside the hub is in no slot.
LEMMA NotRegistered ==
  ASSUME TypeOK, NoStalePeer, Places, NEW p \in Peer, at[p] \in {"dialing", "gone"}
  PROVE  /\ ~Holds(p)
         /\ \A s \in SessionId, r \in Role : slot[s][r] # p
<1>1. \A s \in SessionId, r \in Role : slot[s][r] # p
  BY HubAssumption DEF NoStalePeer, Inside, HubAssumption
<1>2. label[p] # NoLabel => Sid(p) \in SessionId /\ role[p] \in Role
  BY HubAssumption DEF TypeOK, Places, Sid, HubAssumption
<1> QED
  BY <1>1, <1>2 DEF Holds

\* A handler that returned left no socket, no writer and no registration.
THEOREM NothingLeft == SSpec => []NothingLeftBehind
<1>1. TypeOK /\ RegistryOK /\ Connections => NothingLeftBehind
  BY NotRegistered DEF RegistryOK, Connections, Places, NothingLeftBehind
<1> QED
  BY <1>1, ConnectionsInvariant, PTL

\* After Close, once the late handlers are done, the registry is empty and the
\* gauge is zero.
THEOREM ShutdownClean == SSpec => []ShutdownLeavesNothing
<1>1. ASSUME TypeOK, RegistryOK, GaugeExact, Connections, sweep = "closed",
             \A p \in Peer : handler[p] \in {"none", "accepted", "done"}
      PROVE  live = {} /\ gauge = 0
  <2>1. \A p \in Peer : at[p] \in {"dialing", "gone"}
    BY <1>1 DEF Connections, Places
  <2>2. \A s \in SessionId, r \in Role : slot[s][r] = NoPeer
    <3>1. NoStalePeer /\ Places
      BY <1>1 DEF RegistryOK, Connections
    <3>2. \A s \in SessionId, r \in Role : slot[s][r] \in Peer \cup {NoPeer}
      BY <1>1 DEF TypeOK, PeerOrNil
    <3> QED
      BY <1>1, <2>1, <3>1, <3>2, NotRegistered
  <2>3. live = {}
    BY <1>1, <2>2 DEF RegistryOK, NoEmptySession, TypeOK
  <2> QED
    BY <1>1, <2>3, FS_EmptySet DEF GaugeExact
<1>2. TypeOK /\ RegistryOK /\ GaugeExact /\ Connections
        => ShutdownLeavesNothing
  BY <1>1 DEF ShutdownLeavesNothing
<1> QED
  BY <1>2, ConnectionsInvariant, PTL

\* Close's Wait returns only when every handler it counted has returned.
THEOREM WaitCorrect == SSpec => WaitIsComplete
<1>1. ASSUME Connections, [SNext]_svars, stage # "waited", stage' = "waited"
      PROVE  \A p \in Peer : handler[p] \notin Entered
  <2>1. wg = 0
    <3>1. CASE CloseWaits \/ CloseWakes
      BY <1>1, <3>1 DEF CloseWaits, CloseWakes
    <3>2. ASSUME NEW p \in Peer, OutsideHub(p) PROVE FALSE
      BY <1>1, <3>2
      DEF OutsideHub, Accept, Enter, ReadJoin, AwaitFails, StartLoops, ReadBye,
          ReadFails, WriterEnded, CloseSocket, RejectSocket, Return,
          WriterStops, WriteReturns, WriteFails, FlushFails, PingStarts, Pong,
          PingFails, WriterCloses, FlushEnds, WriterHangsUp, ClientStalls,
          ClientResumes, ClientGoes, HookFires
    <3>3. ASSUME NEW p \in Peer,
                 \/ Join(p) \/ ReadSignal(p) \/ RelaySignal(p) \/ LeaveHub(p)
                 \/ WriterTakes(p)
                 \/ LonelyTimer(p) /\ UNCHANGED conns
          PROVE  FALSE
      BY <1>1, <3>3
      DEF Join, ReadSignal, RelaySignal, LeaveHub, WriterTakes, conns
    <3>4. CASE CloseCancels \/ CloseEnds \/ UNCHANGED svars
      BY <1>1, <3>4 DEF CloseCancels, CloseEnds, conns, svars
    <3> QED
      BY <1>1, <3>1, <3>2, <3>3, <3>4, StepsSplit
  <2>2. Running = {}
    BY <1>1, <2>1, FS_EmptySet DEF Connections, WgExact
  <2> QED
    BY <2>2 DEF Running
<1>2. Connections /\ [SNext]_svars
        => [stage # "waited" /\ stage' = "waited" =>
              \A p \in Peer : handler[p] \notin Entered]_svars
  BY <1>1
<1> QED
  BY <1>2, ConnectionsInvariant, PTL DEF SSpec, WaitIsComplete

-----------------------------------------------------------------------------
(* Close as the server knows it *)

Gone == {p \in Peer : handler[p] = "done"}

\* Who comes and who goes: only Enter and Return change the two sets.
LEMMA MovesInside ==
  ASSUME STypeOK, NEW p \in Peer, NEW from, NEW to, Go(p, from, to)
  PROVE  /\ from \in Entered /\ to \in Entered
              => UNCHANGED <<Running, Gone>>
         /\ from \notin Entered \cup {"done"} /\ to \notin Entered \cup {"done"}
              => UNCHANGED <<Running, Gone>>
         /\ from \in {"none", "accepted"} /\ to \in Entered
              => /\ p \notin Running \cup Gone
                 /\ Running' = Running \cup {p} /\ Gone' = Gone
         /\ from \in Entered /\ to = "done"
              => /\ p \in Running
                 /\ Running' = Running \ {p} /\ Gone' = Gone \cup {p}
<1>1. /\ handler \in [Peer -> HandlerPlace] /\ handler[p] = from
      /\ handler' = [handler EXCEPT ![p] = to]
  BY DEF STypeOK, Go
<1>2. /\ \A q \in Peer : handler'[q] = IF q = p THEN to ELSE handler[q]
      /\ "done" \notin Entered
  BY <1>1 DEF Entered
<1> QED
  BY <1>1, <1>2 DEF Running, Gone, Entered

\* Steps of a connection other than Enter and Return are not seen.
LEMMA OthersUnseen ==
  ASSUME STypeOK, NEW p \in Peer, OutsideHub(p), ~Enter(p), ~Return(p)
  PROVE  UNCHANGED <<Running, Gone, stage>>
<1>1. UNCHANGED stage
  BY DEF OutsideHub, Accept, ReadJoin, AwaitFails, StartLoops, ReadBye, ReadFails,
         WriterEnded, CloseSocket, RejectSocket, WriterStops, WriteReturns,
         WriteFails, FlushFails, PingStarts, Pong, PingFails, WriterCloses,
         FlushEnds, WriterHangsUp, ClientStalls, ClientResumes, ClientGoes,
         HookFires
<1>2. CASE Accept(p)
  <2>1. /\ Go(p, "none", "accepted")
        /\ {"none", "accepted"} \cap (Entered \cup {"done"}) = {}
    BY <1>2 DEF Accept, Entered
  <2>2. UNCHANGED <<Running, Gone>>
    BY <2>1, MovesInside
  <2> QED
    BY <1>1, <2>2
<1>3. CASE \/ ReadJoin(p) \/ AwaitFails(p) \/ StartLoops(p) \/ ReadBye(p)
           \/ ReadFails(p) \/ WriterEnded(p) \/ CloseSocket(p) \/ RejectSocket(p)
  <2>1. PICK from \in Entered, to \in Entered : Go(p, from, to)
    BY <1>3 DEF ReadJoin, AwaitFails, StartLoops, ReadBye, ReadFails, WriterEnded,
                CloseSocket, RejectSocket, Entered
  <2> QED
    BY <1>1, <2>1, MovesInside
<1>4. CASE UNCHANGED handler
  BY <1>1, <1>4 DEF Running, Gone
<1> QED
  BY <1>2, <1>3, <1>4
  DEF OutsideHub, WriterStops, WriteReturns, WriteFails, FlushFails, PingStarts,
      Pong, PingFails, WriterCloses, FlushEnds, WriterHangsUp, ClientStalls,
      ClientResumes, ClientGoes, HookFires

\* The counter is zero when nobody is inside, and one when the last one is.
LEMMA CounterCounts ==
  ASSUME STypeOK, WgExact
  PROVE  /\ wg = 0 <=> Running = {}
         /\ \A p \in Running : wg = 1 => Running = {p}
<1>1. IsFiniteSet(Running) /\ wg = Cardinality(Running)
  BY DEF WgExact
<1>2. wg = 0 <=> Running = {}
  BY <1>1, FS_EmptySet
<1>3. ASSUME NEW p \in Running, wg = 1 PROVE Running = {p}
  <2>1. IsFiniteSet(Running \ {p}) /\ Cardinality(Running \ {p}) = Cardinality(Running) - 1
    BY <1>1, FS_RemoveElement
  <2>2. Cardinality(Running \ {p}) = 0
    BY <1>1, <1>3, <2>1
  <2>3. Running \ {p} = {}
    BY <2>1, <2>2, FS_EmptySet
  <2> QED
    BY <2>3
<1> QED
  BY <1>2, <1>3

LEMMA ClosingStep ==
  Connections /\ [SNext]_svars
    => [Phase # "panicked" /\ Wait!Next]_<<Running, Gone, Phase>>
<1> SUFFICES ASSUME Connections, [SNext]_svars
             PROVE  [Phase # "panicked" /\ Wait!Next]_<<Running, Gone, Phase>>
  OBVIOUS
<1>0. STypeOK /\ WgExact
  BY DEF Connections
<1>a. stage \in Stage
  BY <1>0 DEF STypeOK
<1>b. SNext => Phase # "panicked"
  BY <1>a DEF SNext, Alive, Phase, Stage
<1>c. UNCHANGED <<Running, Gone, stage>> => UNCHANGED <<Running, Gone, Phase>>
  BY DEF Phase
<1>1. ASSUME SNext, NEW p \in Peer, Enter(p)
      PROVE  Wait!Come(p)
  <2>1. Go(p, "accepted", "awaiting") /\ UNCHANGED stage
    BY <1>1 DEF Enter
  <2>2. /\ p \notin Running \cup Gone
        /\ Running' = Running \cup {p} /\ Gone' = Gone
    <3>1. "awaiting" \in Entered
      BY DEF Entered
    <3> QED
      BY <1>0, <2>1, <3>1, MovesInside
  <2> QED
    BY <2>1, <2>2 DEF Wait!Come, Running, Gone, Phase
<1>2. ASSUME SNext, NEW p \in Peer, Return(p)
      PROVE  Wait!End(p)
  <2>1. PICK from \in {"returning", "leaving"} : Go(p, from, "done")
    BY <1>2 DEF Return, Go
  <2>2. /\ p \in Running
        /\ Running' = Running \ {p} /\ Gone' = Gone \cup {p}
    BY <1>0, <2>1, MovesInside DEF Entered
  <2>3. stage' = IF stage = "waiting" /\ wg = 1 THEN "released" ELSE stage
    BY <1>2 DEF Return
  <2>4. stage = "waiting" /\ wg = 1 => Running = {p}
    BY <1>0, <2>2, CounterCounts
  <2>5. UNCHANGED Phase \/ (Phase = "closing" /\ Running = {p} /\ Phase' = "released")
    BY <2>3, <2>4 DEF Phase
  <2> QED
    BY <2>2, <2>5 DEF Wait!End, Running, Gone
<1>3. ASSUME NEW p \in Peer, OutsideHub(p), ~Enter(p), ~Return(p)
      PROVE  UNCHANGED <<Running, Gone, Phase>>
  BY <1>0, <1>3, <1>c, OthersUnseen
<1>4. ASSUME NEW p \in Peer,
             \/ Join(p) \/ ReadSignal(p) \/ RelaySignal(p) \/ LeaveHub(p)
             \/ WriterTakes(p) \/ (LonelyTimer(p) /\ UNCHANGED conns)
      PROVE  UNCHANGED <<Running, Gone, Phase>>
  <2>1. UNCHANGED stage /\ (UNCHANGED handler \/ Go(p, "joining", "rejecting"))
    BY <1>4 DEF Join, ReadSignal, RelaySignal, LeaveHub, WriterTakes, conns
  <2>2. Go(p, "joining", "rejecting") => UNCHANGED <<Running, Gone>>
    BY <1>0, MovesInside DEF Entered
  <2>3. UNCHANGED handler => UNCHANGED <<Running, Gone>>
    BY DEF Running, Gone
  <2> QED
    BY <1>c, <2>1, <2>2, <2>3
<1>5. CASE SNext /\ CloseCancels
  <2>1. /\ Phase = "open" /\ Phase' = "closing" /\ UNCHANGED <<Running, Gone>>
    BY <1>5 DEF CloseCancels, Phase, Running, Gone
  <2> QED
    BY <1>b, <1>5, <2>1 DEF Wait!Next, Wait!Close, Running, Gone
<1>6. CASE SNext /\ (CloseWaits \/ CloseWakes)
  <2>1. UNCHANGED <<Running, Gone>>
    BY <1>6 DEF CloseWaits, CloseWakes, Running, Gone
  <2>2. \/ UNCHANGED Phase
        \/ Phase \in {"closing", "released"} /\ Running = {} /\ Phase' = "closed"
        \/ Phase = "released" /\ Running # {} /\ Phase' = "panicked"
    BY <1>0, <1>6, CounterCounts DEF CloseWaits, CloseWakes, Phase
  <2> QED
    BY <1>b, <1>6, <2>1, <2>2 DEF Wait!Next, Wait!Return, Wait!Panic, Running, Gone
<1>7. CASE CloseEnds \/ UNCHANGED svars
  BY <1>7 DEF CloseEnds, conns, svars, Phase, Running, Gone
<1> QED
  BY <1>b, <1>1, <1>2, <1>3, <1>4, <1>5, <1>6, <1>7, StepsSplit DEF Wait!Next

\* Close, as the server may think of it: it returns when nobody is inside, a
\* connection is counted once and until the end of its handler, and only one
\* that comes after the last of them has released Close can make it panic.
THEOREM ImplementsClosing == SSpec => ClosingSafety
<1>1. SInit => Wait!Init
  BY DEF SInit, Wait!Init, Phase, Entered
<1> QED
  BY <1>1, ConnectionsInvariant, ClosingStep, PTL
  DEF SSpec, ClosingSafety, Wait!Safety, Wait!closing, Running, Gone
=============================================================================
