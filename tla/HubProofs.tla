----------------------------- MODULE HubProofs -----------------------------
(***************************************************************************)
(* Theorems about Hub, for every set of peers and sessions and every        *)
(* capacity of the channels.                                                *)
(*                                                                         *)
(* Two layers.  Handlers ties where a handler stands to the variables it    *)
(* has set, and carries the types.  Registry is what the critical sections  *)
(* of the hub keep true of the map, and is inductive relative to Handlers.  *)
(***************************************************************************)
EXTENDS Hub, FiniteSetTheorems, SequenceTheorems, TLAPS

\* A peer that has not joined has no session and no timer; one inside the hub
\* has a session and a role; a handler that is about to send or close after
\* it unlocked knows to whom; a timer belongs to a device that joined.
HandlersOK ==
  \A p \in Peer :
    /\ at[p] = "dialing" => label[p] = NoLabel /\ timer[p] = "off"
    /\ at[p] \notin {"dialing", "gone"} => label[p] \in Label /\ role[p] \in Role
    /\ at[p] \in {"replacing", "relaying", "leaving"} => target[p] \in Peer
    /\ at[p] = "relaying" => signals[p] \in 1 .. MaxSignals
    /\ timer[p] # "off" => label[p] \in Label /\ role[p] = Device

Handlers == TypeOK /\ HandlersOK /\ IsFiniteSet(live)

-----------------------------------------------------------------------------
(* Channels *)

\* The frames the hub sends are frames.
LEMMA FrameTypes ==
  /\ Joined \in Frame
  /\ Bye \in Frame
  /\ \A r \in Role, q \in Peer : Ready(r, q) \in Frame
  /\ \A l \in Label : RemoteJoined(l) \in Frame
  /\ \A p \in Peer, n \in 1 .. MaxSignals : Signal(p, n) \in Frame
BY DEF Joined, Bye, Ready, RemoteJoined, Signal, Frame, Role, Phone

\* peer.send never exceeds the capacity of a channel, whatever it holds.
LEMMA PushType ==
  ASSUME NEW queue \in Seq(Frame), Len(queue) <= SendBuffer, NEW f \in Frame
  PROVE  Push(queue, f) \in Seq(Frame) /\ Len(Push(queue, f)) <= SendBuffer
BY HubAssumption, AppendProperties DEF Push, HubAssumption

\* A close request is one of the reasons, and is never taken back.
LEMMA FirstReasonType ==
  ASSUME TypeOK, NEW q \in Peer, NEW why \in CloseReason \ {"none"}
  PROVE  /\ FirstReason(q, why) \in CloseReason \ {"none"}
         /\ closeReason[q] # "none" => FirstReason(q, why) = closeReason[q]
BY DEF TypeOK, FirstReason

LEMMA CloseIfFullType ==
  ASSUME TypeOK, NEW q \in Peer
  PROVE  /\ CloseIfFull(q) \in CloseReason
         /\ closeReason[q] # "none" => CloseIfFull(q) = closeReason[q]
BY DEF TypeOK, CloseIfFull, FirstReason, CloseReason

LEMMA SendType ==
  ASSUME TypeOK, NEW q \in Peer, NEW f \in Frame, Send(q, f)
  PROVE  /\ out' \in [Peer -> Seq(Frame)]
         /\ \A p \in Peer : Len(out'[p]) <= SendBuffer
         /\ closeReason' \in [Peer -> CloseReason]
         /\ \A p \in Peer : closeReason[p] # "none" => closeReason'[p] # "none"
<1>1. out \in [Peer -> Seq(Frame)] /\ closeReason \in [Peer -> CloseReason]
  BY DEF TypeOK
<1>2. /\ Push(out[q], f) \in Seq(Frame)
      /\ Len(Push(out[q], f)) <= SendBuffer
  BY PushType DEF TypeOK
<1>3. /\ CloseIfFull(q) \in CloseReason
      /\ closeReason[q] # "none" => CloseIfFull(q) # "none"
  BY CloseIfFullType
<1>4. /\ out' = [out EXCEPT ![q] = Push(out[q], f)]
      /\ closeReason' = [closeReason EXCEPT ![q] = CloseIfFull(q)]
  BY DEF Send
<1> QED
  BY <1>1, <1>2, <1>3, <1>4 DEF TypeOK

LEMMA StoppedType ==
  ASSUME TypeOK, NEW S
  PROVE  /\ Stopped(S) \in [Peer -> TimerState]
         /\ \A p \in Peer : /\ Stopped(S)[p] \in {timer[p], "off"}
                            /\ timer[p] # "armed" => Stopped(S)[p] = timer[p]
BY DEF TypeOK, Stopped, TimerState

-----------------------------------------------------------------------------
(* Types, and where the handlers stand *)

LEMMA HandlersInit == Init => Handlers
BY HubAssumption, FS_EmptySet, EmptySeq
   DEF Init, Handlers, HandlersOK, TypeOK, HubAssumption, PeerOrNil, Role,
       CloseReason, Place, TimerState

\* join up to the point where it announces the joiner.
LEMMA JoinSendsType ==
  ASSUME TypeOK, NEW p \in Peer, NEW s \in SessionId, NEW r \in Role,
         JoinSends(p, s, r)
  PROVE  /\ out' \in [Peer -> Seq(Frame)]
         /\ \A x \in Peer : Len(out'[x]) <= SendBuffer
         /\ closeReason' \in [Peer -> CloseReason]
         /\ \A x \in Peer : closeReason[x] # "none" => closeReason'[x] # "none"
<1> DEFINE q == slot[s][Other(r)]
           pairs == q # NoPeer /\ ~StillSent(s, r)
           first == Push(out[p], Joined)
<1>1. Other(r) \in Role
  BY DEF Role, Other
<1>2. pairs => q \in Peer
  BY <1>1 DEF TypeOK, PeerOrNil
<1>3. \A x \in Peer : out[x] \in Seq(Frame) /\ Len(out[x]) <= SendBuffer
  BY DEF TypeOK
<1>4. first \in Seq(Frame) /\ Len(first) <= SendBuffer
  BY <1>3, PushType, FrameTypes
<1>5. pairs => /\ Push(first, Ready(r, q)) \in Seq(Frame)
               /\ Len(Push(first, Ready(r, q))) <= SendBuffer
  BY <1>2, <1>4, PushType, FrameTypes
<1>6. pairs => /\ Push(out[q], Ready(Other(r), p)) \in Seq(Frame)
               /\ Len(Push(out[q], Ready(Other(r), p))) <= SendBuffer
  BY <1>1, <1>2, <1>3, PushType, FrameTypes
<1>7. "send buffer full" \in CloseReason \ {"none"}
  BY DEF CloseReason
<1>8. /\ FirstReason(p, "send buffer full") \in CloseReason
      /\ FirstReason(p, "send buffer full") # "none"
  BY <1>7, FirstReasonType
<1>9. \A x \in Peer : /\ CloseIfFull(x) \in CloseReason
                      /\ closeReason[x] # "none" => CloseIfFull(x) # "none"
  BY CloseIfFullType
<1>10. closeReason \in [Peer -> CloseReason]
  BY DEF TypeOK
<1>11. out' = [x \in Peer |->
            IF x = p THEN IF pairs THEN Push(first, Ready(r, q)) ELSE first
            ELSE IF pairs /\ x = q THEN Push(out[q], Ready(Other(r), p))
            ELSE out[x]]
  BY DEF JoinSends
<1>12. closeReason' = [x \in Peer |->
            IF x = p /\ pairs /\ Len(first) >= SendBuffer
            THEN FirstReason(p, "send buffer full")
            ELSE IF x = q /\ pairs THEN CloseIfFull(q)
            ELSE closeReason[x]]
  BY DEF JoinSends
<1> HIDE DEF q, pairs, first
<1>13. \A x \in Peer : out'[x] \in Seq(Frame) /\ Len(out'[x]) <= SendBuffer
  BY <1>3, <1>4, <1>5, <1>6, <1>11
<1>14. \A x \in Peer : /\ closeReason'[x] \in CloseReason
                       /\ closeReason[x] # "none" => closeReason'[x] # "none"
  BY <1>2, <1>8, <1>9, <1>10, <1>12
<1> QED
  BY <1>11, <1>12, <1>13, <1>14

\* The map after a slot was emptied.
LEMMA VacateType ==
  ASSUME TypeOK, IsFiniteSet(live), NEW s \in SessionId, NEW r \in Role,
         Vacate(s, r)
  PROVE  /\ live' \subseteq SessionId
         /\ IsFiniteSet(live')
         /\ slot' \in [SessionId -> [Role -> PeerOrNil]]
         /\ readySent' \in [SessionId -> BOOLEAN]
         /\ lonely' \in [SessionId -> PeerOrNil]
         /\ gauge' \in Int
<1>1. live' \in {live, live \ {s}} /\ gauge' \in {gauge, gauge - 1}
  BY DEF Vacate, DropIfEmpty
<1>2. IsFiniteSet(live \ {s})
  BY FS_RemoveElement
<1>3. /\ slot' = [slot EXCEPT ![s][r] = NoPeer]
      /\ lonely' = [lonely EXCEPT ![s] = NoPeer]
      /\ readySent' = [readySent EXCEPT ![s] = FALSE]
  BY DEF Vacate
<1>4. live' \subseteq SessionId /\ gauge' \in Int
  BY <1>1 DEF TypeOK
<1>5. IsFiniteSet(live')
  BY <1>1, <1>2
<1> QED
  BY <1>3, <1>4, <1>5 DEF TypeOK, PeerOrNil

LEMMA HandlersStep == Handlers /\ [Next]_vars => Handlers'
<1> SUFFICES ASSUME Handlers, [Next]_vars
             PROVE  Handlers'
  OBVIOUS
<1> USE DEF Handlers
<1>1. ASSUME NEW p \in Peer, NEW r \in RoleInput, NEW l \in LabelInput,
             JoinRejected(p, r, l)
      PROVE  Handlers'
  BY <1>1 DEF JoinRejected, TypeOK, HandlersOK, registry, Place
<1>2. ASSUME NEW p \in Peer, NEW r \in Role, NEW l \in Label,
             JoinRegister(p, r, l)
      PROVE  Handlers'
  <2> DEFINE s == Lower[l]
  <2>1. s \in SessionId
    BY HubAssumption DEF HubAssumption
  <2>2. JoinSends(p, s, r)
    BY <1>2 DEF JoinRegister
  <2>3. /\ out' \in [Peer -> Seq(Frame)]
        /\ \A x \in Peer : Len(out'[x]) <= SendBuffer
        /\ closeReason' \in [Peer -> CloseReason]
    BY <2>1, <2>2, JoinSendsType
  <2>4. IsFiniteSet(live') /\ live' \subseteq SessionId
    BY <1>2, <2>1, FS_AddElement DEF JoinRegister, TypeOK
  <2>5. /\ timer' \in [Peer -> TimerState]
        /\ \A x \in Peer : timer'[x] # "off" =>
             timer[x] # "off" \/ (x = p /\ r = Device)
    BY <1>2, StoppedType DEF JoinRegister, TypeOK, TimerState
  <2>6. Other(r) \in Role
    BY DEF Other, Role
  <2>7. /\ slot' \in [SessionId -> [Role -> PeerOrNil]]
        /\ lonely' \in [SessionId -> PeerOrNil]
        /\ target' \in [Peer -> PeerOrNil]
        /\ readySent' \in [SessionId -> BOOLEAN]
        /\ gauge' \in Int
        /\ mu' \in PeerOrNil
    BY <1>2, <2>1, <2>6 DEF JoinRegister, TypeOK, PeerOrNil, StillSent
  <2>8. /\ role' \in [Peer -> Role \cup {"none"}]
        /\ label' \in [Peer -> Label \cup {NoLabel}]
        /\ at' \in [Peer -> Place]
        /\ UNCHANGED <<signals, sweep, remaining>>
    BY <1>2 DEF JoinRegister, TypeOK, Place
  <2>9. TypeOK'
    BY <2>3, <2>4, <2>5, <2>7, <2>8 DEF TypeOK
  <2>10. HandlersOK'
    <3>1. ASSUME NEW x \in Peer, x # p
          PROVE  /\ at'[x] = at[x] /\ label'[x] = label[x]
                 /\ role'[x] = role[x] /\ target'[x] = target[x]
                 /\ signals'[x] = signals[x]
                 /\ timer'[x] # "off" => timer[x] # "off"
      BY <1>2, <2>5, <3>1 DEF JoinRegister, TypeOK
    <3>2. /\ at'[p] = "announcing" /\ label'[p] = l /\ role'[p] = r
          /\ timer[p] = "off"
      BY <1>2 DEF JoinRegister, TypeOK, HandlersOK
    <3>3. timer'[p] # "off" => r = Device
      BY <2>5, <3>2
    <3> QED
      BY <3>1, <3>2, <3>3 DEF HandlersOK
  <2> QED
    BY <2>4, <2>9, <2>10
<1>3. ASSUME NEW p \in Peer, JoinAnnounce(p)
      PROVE  Handlers'
  <2> DEFINE told == Registered \ {p}
             f == RemoteJoined(label[p])
  <2>1. f \in Frame
    BY <1>3, FrameTypes DEF JoinAnnounce, Announce, HandlersOK
  <2>2. \A q \in Peer : /\ Push(out[q], f) \in Seq(Frame)
                       /\ Len(Push(out[q], f)) <= SendBuffer
    BY <2>1, PushType DEF TypeOK
  <2>3. \A q \in Peer : CloseIfFull(q) \in CloseReason
    BY CloseIfFullType
  <2>4. /\ out' = [q \in Peer |-> IF q \in told THEN Push(out[q], f)
                                  ELSE out[q]]
        /\ closeReason' = [q \in Peer |-> IF q \in told THEN CloseIfFull(q)
                                          ELSE closeReason[q]]
    BY <1>3 DEF JoinAnnounce, Announce
  <2> HIDE DEF told, f
  <2>5. /\ out' \in [Peer -> Seq(Frame)]
        /\ \A x \in Peer : Len(out'[x]) <= SendBuffer
        /\ closeReason' \in [Peer -> CloseReason]
    BY <2>2, <2>3, <2>4 DEF TypeOK
  <2> QED
    BY <1>3, <2>5
    DEF JoinAnnounce, Announce, TypeOK, HandlersOK, registry, Place, PeerOrNil
<1>4. ASSUME NEW p \in Peer, CloseReplaced(p)
      PROVE  Handlers'
  <2>1. target[p] \in Peer /\ "replaced" \in CloseReason \ {"none"}
    BY <1>4 DEF CloseReplaced, HandlersOK, CloseReason
  <2>2. FirstReason(target[p], "replaced") \in CloseReason
    BY <2>1, FirstReasonType
  <2> QED
    BY <1>4, <2>2
    DEF CloseReplaced, TypeOK, HandlersOK, registry, Place, PeerOrNil
<1>5. ASSUME NEW p \in Peer, Forward(p)
      PROVE  Handlers'
  <2>1. signals[p] + 1 \in 1 .. MaxSignals
    BY <1>5, HubAssumption DEF Forward, TypeOK, HubAssumption
  <2>2. Other(role[p]) \in Role
    BY <1>5 DEF Forward, HandlersOK, Other, Role
  <2>3. Sid(p) \in SessionId
    BY <1>5, HubAssumption DEF Forward, HandlersOK, Sid, HubAssumption
  <2>4. Counterpart(p) \in PeerOrNil
    BY <2>2, <2>3 DEF Counterpart, TypeOK
  <2>5. CASE /\ target' = [target EXCEPT ![p] = Counterpart(p)]
             /\ at' = [at EXCEPT ![p] = "relaying"]
             /\ Counterpart(p) # NoPeer
    BY <1>5, <2>1, <2>4, <2>5
    DEF Forward, TypeOK, HandlersOK, registry, Place, PeerOrNil
  <2>6. CASE UNCHANGED <<target, at>>
    BY <1>5, <2>1, <2>6
    DEF Forward, TypeOK, HandlersOK, registry, Place, PeerOrNil
  <2> QED
    BY <1>5, <2>5, <2>6 DEF Forward
<1>6. ASSUME NEW p \in Peer, ForwardSend(p)
      PROVE  Handlers'
  <2>1. /\ target[p] \in Peer
        /\ Signal(p, signals[p]) \in Frame
    BY <1>6, FrameTypes DEF ForwardSend, HandlersOK
  <2>2. Send(target[p], Signal(p, signals[p]))
    BY <1>6 DEF ForwardSend
  <2>3. /\ out' \in [Peer -> Seq(Frame)]
        /\ \A x \in Peer : Len(out'[x]) <= SendBuffer
        /\ closeReason' \in [Peer -> CloseReason]
    BY <2>1, <2>2, SendType
  <2> QED
    BY <1>6, <2>3
    DEF ForwardSend, TypeOK, HandlersOK, registry, Place, PeerOrNil
<1>7. ASSUME NEW p \in Peer, Leave(p)
      PROVE  Handlers'
  <2>1. out' \in [Peer -> Seq(Frame)] /\ \A x \in Peer : Len(out'[x]) <= SendBuffer
    BY <1>7, EmptySeq, HubAssumption DEF Leave, TypeOK, HubAssumption
  <2>2. /\ at[p] = "serving" /\ role[p] \in Role /\ Other(role[p]) \in Role
        /\ Sid(p) \in SessionId
    BY <1>7, HubAssumption
    DEF Leave, HandlersOK, Other, Role, Sid, HubAssumption
  <2>3. Counterpart(p) \in PeerOrNil
    BY <2>2 DEF Counterpart, TypeOK
  <2>4. CASE Holds(p)
    <3>1. Vacate(Sid(p), role[p])
      BY <1>7, <2>4 DEF Leave
    <3>2. /\ timer' \in [Peer -> TimerState]
          /\ \A x \in Peer : timer'[x] \in {timer[x], "off"}
      BY <1>7, <2>4, StoppedType DEF Leave
    <3>3. /\ at' = [at EXCEPT ![p] = IF Counterpart(p) = NoPeer
                                     THEN "gone" ELSE "leaving"]
          /\ target' = [target EXCEPT ![p] = Counterpart(p)]
          /\ UNCHANGED <<mu, role, label, closeReason, signals, sweep, remaining>>
      BY <1>7, <2>4 DEF Leave
    <3>4. TypeOK' /\ IsFiniteSet(live')
      BY <2>1, <2>2, <2>3, <3>1, <3>2, <3>3, VacateType DEF TypeOK, Place
    <3>5. HandlersOK'
      BY <2>2, <2>3, <3>2, <3>3 DEF TypeOK, HandlersOK, Place, PeerOrNil
    <3> QED
      BY <3>4, <3>5
  <2>5. CASE ~Holds(p)
    <3>1. /\ at' = [at EXCEPT ![p] = "gone"]
          /\ UNCHANGED <<live, slot, readySent, lonely, gauge, timer, target,
                         mu, role, label, closeReason, signals, sweep, remaining>>
      BY <1>7, <2>5 DEF Leave, registry
    <3> QED
      BY <2>1, <3>1 DEF TypeOK, HandlersOK, Place
  <2> QED
    BY <2>4, <2>5
<1>8. ASSUME NEW p \in Peer, LeaveSend(p)
      PROVE  Handlers'
  <2>1. target[p] \in Peer
    BY <1>8 DEF LeaveSend, HandlersOK
  <2>2. Send(target[p], Bye)
    BY <1>8 DEF LeaveSend
  <2>3. /\ out' \in [Peer -> Seq(Frame)]
        /\ \A x \in Peer : Len(out'[x]) <= SendBuffer
        /\ closeReason' \in [Peer -> CloseReason]
    BY <2>1, <2>2, SendType, FrameTypes
  <2> QED
    BY <1>8, <2>3
    DEF LeaveSend, TypeOK, HandlersOK, registry, Place, PeerOrNil
<1>9. ASSUME NEW p \in Peer, LonelyFires(p)
      PROVE  Handlers'
  BY <1>9 DEF LonelyFires, TypeOK, HandlersOK, registry, handlers, TimerState
<1>10. ASSUME NEW p \in Peer, ExpireLonely(p)
       PROVE  Handlers'
  <2>1. Sid(p) \in SessionId /\ Device \in Role
    BY <1>10, HubAssumption
    DEF ExpireLonely, HandlersOK, Sid, Role, HubAssumption
  <2>2. CASE StillLonely(p)
    <3>1. Vacate(Sid(p), Device)
      BY <1>10, <2>2 DEF ExpireLonely
    <3>2. /\ timer' = [timer EXCEPT ![p] = "sending"]
          /\ timer[p] = "firing"
          /\ UNCHANGED <<mu, role, label, out, closeReason, at, target,
                         signals, sweep, remaining>>
      BY <1>10, <2>2 DEF ExpireLonely, handlers
    <3>3. TypeOK' /\ IsFiniteSet(live')
      BY <2>1, <3>1, <3>2, VacateType DEF TypeOK, TimerState
    <3>4. HandlersOK'
      BY <3>2 DEF TypeOK, HandlersOK
    <3> QED
      BY <3>3, <3>4
  <2>3. CASE ~StillLonely(p)
    BY <1>10, <2>3
    DEF ExpireLonely, TypeOK, HandlersOK, registry, handlers, TimerState
  <2> QED
    BY <2>2, <2>3
<1>11. ASSUME NEW p \in Peer, ExpireSend(p)
       PROVE  Handlers'
  <2>1. Send(p, Bye)
    BY <1>11 DEF ExpireSend
  <2>2. /\ out' \in [Peer -> Seq(Frame)]
        /\ \A x \in Peer : Len(out'[x]) <= SendBuffer
        /\ closeReason' \in [Peer -> CloseReason]
    BY <2>1, SendType, FrameTypes
  <2> QED
    BY <1>11, <2>2
    DEF ExpireSend, TypeOK, HandlersOK, registry, handlers, TimerState
<1>12. ASSUME NEW p \in Peer, ExpireClose(p)
       PROVE  Handlers'
  <2>1. FirstReason(p, "no receiver") \in CloseReason
    BY FirstReasonType DEF CloseReason
  <2> QED
    BY <1>12, <2>1
    DEF ExpireClose, TypeOK, HandlersOK, registry, handlers, TimerState
<1>13. ASSUME NEW p \in Peer, Drain(p)
       PROVE  Handlers'
  <2>1. /\ out[p] \in Seq(Frame) /\ out[p] # <<>> /\ Len(out[p]) <= SendBuffer
        /\ SendBuffer \in Nat
    BY <1>13, HubAssumption DEF Drain, TypeOK, HubAssumption
  <2>2. Tail(out[p]) \in Seq(Frame) /\ Len(Tail(out[p])) <= SendBuffer
    BY <2>1, HeadTailProperties, LenProperties
  <2> QED
    BY <1>13, <2>2 DEF Drain, TypeOK, HandlersOK, registry, handlers
<1>14. CASE CloseSweep
  <2>1. Cardinality(live) \in Nat
    BY FS_CardinalityType
  <2>2. /\ timer' \in [Peer -> TimerState]
        /\ \A x \in Peer : timer'[x] \in {timer[x], "off"}
    BY <1>14, StoppedType DEF CloseSweep
  <2>3. IsFiniteSet(live')
    BY <1>14, FS_EmptySet DEF CloseSweep
  <2> QED
    BY <1>14, <2>1, <2>2, <2>3
    DEF CloseSweep, TypeOK, HandlersOK, handlers, PeerOrNil
<1>15. CASE CloseGauge
  BY <1>15 DEF CloseGauge, TypeOK, HandlersOK, registry, handlers
<1>16. CASE UNCHANGED vars
  BY <1>16 DEF vars, TypeOK, HandlersOK
<1> QED
  BY <1>1, <1>2, <1>3, <1>4, <1>5, <1>6, <1>7, <1>8, <1>9, <1>10, <1>11,
     <1>12, <1>13, <1>14, <1>15, <1>16
  DEF Next, Handler, LonelyTimer

\* Every variable keeps its type and no channel exceeds its capacity, for any
\* number of peers and sessions.
THEOREM TypeCorrect == Spec => []TypeOK
<1>1. Spec => []Handlers
  BY HandlersInit, HandlersStep, PTL DEF Spec
<1>2. Handlers => TypeOK
  BY DEF Handlers
<1> QED
  BY <1>1, <1>2, PTL

-----------------------------------------------------------------------------
(* The registry *)

\* A timer is only ever set when the timeout is enabled.
LonelyNeedsTimeout == \A s \in SessionId : lonely[s] # NoPeer => NoReceiver

RegistryOK ==
  /\ NoStalePeer
  /\ ReadySentIffPaired
  /\ NoEmptySession
  /\ TimerGuardsLoneDevice
  /\ LonelyNeedsTimeout

LEMMA RegistryInit == Init => RegistryOK
BY HubAssumption
   DEF Init, RegistryOK, NoStalePeer, ReadySentIffPaired, NoEmptySession,
       TimerGuardsLoneDevice, LonelyNeedsTimeout, HubAssumption, Role

\* A registered peer's slot is the one of its own session and role.
LEMMA SlotOf ==
  ASSUME Handlers, RegistryOK, NEW s \in SessionId, NEW r \in Role,
         slot[s][r] # NoPeer
  PROVE  /\ slot[s][r] \in Peer
         /\ label[slot[s][r]] # NoLabel
         /\ role[slot[s][r]] = r
         /\ Sid(slot[s][r]) = s
         /\ at[slot[s][r]] \in Inside
         /\ timer[slot[s][r]] \notin {"sending", "closing"}
BY DEF Handlers, TypeOK, PeerOrNil, RegistryOK, NoStalePeer

\* Steps outside the critical sections, and critical sections that find
\* nothing to do: the map is untouched, no registered peer goes away, no timer
\* is started.
LEMMA QuietStep ==
  ASSUME Handlers, RegistryOK,
         UNCHANGED <<live, slot, readySent, lonely, role, label>>,
         \A x \in Peer : at[x] \in Inside /\ Holds(x) => at'[x] \in Inside,
         \A x \in Peer : Holds(x) /\ timer[x] \notin {"sending", "closing"}
                          => timer'[x] \notin {"sending", "closing"},
         \A s \in SessionId : lonely[s] # NoPeer
                          => timer'[lonely[s]] \in {"armed", "firing"},
         \A x \in Peer : timer'[x] = "armed" => timer[x] = "armed"
  PROVE  RegistryOK'
<1>1. ASSUME NEW s \in SessionId, NEW r \in Role, slot[s][r] # NoPeer
      PROVE  Holds(slot[s][r])
  BY <1>1, SlotOf DEF Holds
<1>2. NoStalePeer'
  <2> SUFFICES ASSUME NEW s \in SessionId, NEW r \in Role, slot[s][r] # NoPeer
               PROVE  /\ role[slot[s][r]] = r
                      /\ label[slot[s][r]] # NoLabel
                      /\ Sid(slot[s][r]) = s
                      /\ at'[slot[s][r]] \in Inside
                      /\ timer'[slot[s][r]] \notin {"sending", "closing"}
    BY DEF NoStalePeer, Sid, Inside
  <2> QED
    BY <1>1, SlotOf
<1>3. ReadySentIffPaired' /\ NoEmptySession' /\ LonelyNeedsTimeout'
  BY DEF RegistryOK, ReadySentIffPaired, NoEmptySession, LonelyNeedsTimeout
<1>4. TimerGuardsLoneDevice'
  BY DEF RegistryOK, TimerGuardsLoneDevice, Holds, Sid
<1> QED
  BY <1>2, <1>3, <1>4 DEF RegistryOK

\* leave and expireLonely: p's own slot is emptied, p's handler or timer
\* moves on, and the only timer this may stop is the session's.
LEMMA VacateStep ==
  ASSUME Handlers, RegistryOK, NEW p \in Peer, Holds(p),
         role[p] \in Role, Sid(p) \in SessionId, Vacate(Sid(p), role[p]),
         UNCHANGED <<role, label>>,
         \A x \in Peer : x # p => at'[x] = at[x],
         \A x \in Peer : x # p => \/ timer'[x] = timer[x]
                                  \/ timer'[x] = "off" /\ lonely[Sid(p)] = x,
         \A x \in Peer : timer'[x] = "armed"
                          => timer[x] = "armed" /\ lonely[Sid(p)] # x
  PROVE  RegistryOK'
<1> DEFINE s0 == Sid(p)
           r0 == role[p]
<1> USE DEF Handlers
<1>1. /\ slot' = [slot EXCEPT ![s0][r0] = NoPeer]
      /\ lonely' = [lonely EXCEPT ![s0] = NoPeer]
      /\ readySent' = [readySent EXCEPT ![s0] = FALSE]
      /\ slot[s0][Other(r0)] = NoPeer => live' = live \ {s0}
      /\ slot[s0][Other(r0)] # NoPeer => live' = live
  BY DEF Vacate, DropIfEmpty
<1>2. slot[s0][r0] = p /\ p # NoPeer
  BY HubAssumption DEF Holds, HubAssumption
<1>3. ASSUME NEW s \in SessionId, NEW r \in Role
      PROVE  slot'[s][r] = IF s = s0 /\ r = r0 THEN NoPeer ELSE slot[s][r]
  BY <1>1 DEF TypeOK
<1>4. ASSUME NEW s \in SessionId, NEW r \in Role, slot'[s][r] # NoPeer
      PROVE  /\ slot'[s][r] = slot[s][r]
             /\ slot[s][r] \in Peer \ {p}
  BY <1>2, <1>3, <1>4, SlotOf
<1>5. ASSUME NEW x \in Peer
      PROVE  Sid(x)' = Sid(x)
  BY DEF Sid
<1>6. NoStalePeer'
  <2> SUFFICES ASSUME NEW s \in SessionId, NEW r \in Role, slot'[s][r] # NoPeer
               PROVE  /\ role'[slot'[s][r]] = r
                      /\ label'[slot'[s][r]] # NoLabel
                      /\ Lower[label'[slot'[s][r]]] = s
                      /\ at'[slot'[s][r]] \in Inside
                      /\ timer'[slot'[s][r]] \notin {"sending", "closing"}
    BY DEF NoStalePeer, Sid, Inside
  <2> DEFINE q == slot[s][r]
  <2>1. slot'[s][r] = q /\ q \in Peer /\ q # p /\ q # NoPeer
    BY <1>4
  <2>2. /\ role[q] = r /\ label[q] # NoLabel /\ Sid(q) = s
        /\ at[q] \in Inside /\ timer[q] \notin {"sending", "closing"}
    BY <2>1, SlotOf
  <2>3. at'[q] = at[q] /\ timer'[q] \in {timer[q], "off"}
    BY <2>1
  <2>4. Lower[label'[q]] = s
    BY <2>2 DEF Sid
  <2> HIDE DEF q
  <2> QED
    BY <2>1, <2>2, <2>3, <2>4
<1>7. ReadySentIffPaired'
  <2> SUFFICES ASSUME NEW s \in SessionId
               PROVE  readySent'[s] <=> \A r \in Role : slot'[s][r] # NoPeer
    BY DEF ReadySentIffPaired
  <2>1. CASE s = s0
    BY <1>1, <1>3, <2>1 DEF TypeOK
  <2>2. CASE s # s0
    BY <1>1, <1>3, <2>2 DEF TypeOK, RegistryOK, ReadySentIffPaired
  <2> QED
    BY <2>1, <2>2
<1>8. NoEmptySession'
  <2> SUFFICES ASSUME NEW s \in SessionId
               PROVE  s \in live' <=> \E r \in Role : slot'[s][r] # NoPeer
    BY DEF NoEmptySession
  <2>1. CASE s = s0
    <3>1. Other(r0) \in Role /\ Role = {r0, Other(r0)} /\ Other(r0) # r0
      BY DEF Role, Other, Device, Phone
    <3>2. s0 \in live
      BY <1>2 DEF RegistryOK, NoEmptySession
    <3> QED
      BY <1>1, <1>3, <2>1, <3>1, <3>2
  <2>2. CASE s # s0
    BY <1>1, <1>3, <2>2 DEF RegistryOK, NoEmptySession
  <2> QED
    BY <2>1, <2>2
<1>9. TimerGuardsLoneDevice'
  <2>1. ASSUME NEW s \in SessionId, lonely'[s] # NoPeer
        PROVE  /\ slot'[s][Device] = lonely'[s]
               /\ slot'[s][Phone] = NoPeer
               /\ timer'[lonely'[s]] \in {"armed", "firing"}
    <3>1. s # s0 /\ lonely'[s] = lonely[s]
      BY <1>1, <2>1 DEF TypeOK
    <3>2. /\ slot[s][Device] = lonely[s]
          /\ slot[s][Phone] = NoPeer
          /\ timer[lonely[s]] \in {"armed", "firing"}
      BY <2>1, <3>1 DEF RegistryOK, TimerGuardsLoneDevice
    <3>3. lonely[s] \in Peer /\ Sid(lonely[s]) = s
      BY <2>1, <3>1, <3>2, SlotOf DEF Role
    <3>4. lonely[s] # p /\ lonely[s] # lonely[s0]
      <4>1. lonely[s0] # NoPeer => Sid(lonely[s0]) = s0
        BY SlotOf DEF RegistryOK, TimerGuardsLoneDevice, Role
      <4> QED
        BY <2>1, <3>1, <3>3, <4>1
    <3>5. timer'[lonely[s]] = timer[lonely[s]]
      BY <3>3, <3>4
    <3> QED
      BY <1>3, <3>1, <3>2, <3>5 DEF Role
  <2>2. ASSUME NEW d \in Peer, timer'[d] = "armed"
        PROVE  lonely'[Sid(d)] = d \/ ~Holds(d)'
    <3>1. timer[d] = "armed" /\ lonely[s0] # d
      BY <2>2
    <3>2. label[d] \in Label /\ role[d] \in Role /\ Sid(d) \in SessionId
      BY <3>1, HubAssumption DEF HandlersOK, Sid, Role, HubAssumption
    <3>3. CASE lonely[Sid(d)] = d
      BY <1>1, <3>1, <3>2, <3>3 DEF TypeOK
    <3>4. CASE ~Holds(d)
      <4>1. d # NoPeer
        BY HubAssumption DEF HubAssumption
      <4>2. slot'[Sid(d)][role[d]] \in {NoPeer, slot[Sid(d)][role[d]]}
        BY <1>3, <3>2
      <4> QED
        BY <1>5, <3>4, <4>1, <4>2 DEF Holds
    <3> QED
      BY <3>1, <3>3, <3>4 DEF RegistryOK, TimerGuardsLoneDevice
  <2> QED
    BY <1>5, <2>1, <2>2 DEF TimerGuardsLoneDevice
<1>10. LonelyNeedsTimeout'
  BY <1>1 DEF TypeOK, RegistryOK, LonelyNeedsTimeout
<1> QED
  BY <1>6, <1>7, <1>8, <1>9, <1>10 DEF RegistryOK

\* join: the joiner takes the slot, a pairing sets readySent and stops the
\* timer, a device alone sets it.
LEMMA JoinStep ==
  ASSUME Handlers, RegistryOK, NEW p \in Peer, NEW r \in Role, NEW l \in Label,
         JoinRegister(p, r, l)
  PROVE  RegistryOK'
<1> DEFINE s0 == Lower[l]
           complete == slot[s0][Other(r)] # NoPeer
           waits == ~complete /\ r = Device /\ NoReceiver
<1> USE DEF Handlers
<1>1. /\ s0 \in SessionId
      /\ Other(r) \in Role /\ Role = {r, Other(r)} /\ Other(r) # r
      /\ p # NoPeer
  BY HubAssumption DEF HubAssumption, Other, Role, Device, Phone
<1>2. /\ slot' = [slot EXCEPT ![s0][r] = p]
      /\ live' = live \cup {s0}
      /\ readySent' = [readySent EXCEPT ![s0] = complete \/ StillSent(s0, r)]
      /\ lonely' = [lonely EXCEPT ![s0] = IF complete THEN NoPeer
                                         ELSE IF waits THEN p ELSE lonely[s0]]
      /\ timer' = IF complete THEN Stopped({s0})
                  ELSE IF waits THEN [timer EXCEPT ![p] = "armed"]
                  ELSE timer
  BY DEF JoinRegister
<1>3. /\ at[p] = "dialing" /\ timer[p] = "off" /\ l # NoLabel
      /\ at'[p] = "announcing" /\ role'[p] = r /\ label'[p] = l
      /\ \A x \in Peer : x # p => /\ at'[x] = at[x] /\ role'[x] = role[x]
                                  /\ label'[x] = label[x]
  BY DEF JoinRegister, TypeOK, HandlersOK
<1>4. ASSUME NEW s \in SessionId, NEW t \in Role
      PROVE  /\ slot'[s][t] = IF s = s0 /\ t = r THEN p ELSE slot[s][t]
             /\ slot[s][t] # p
  <2>1. slot[s][t] # p
    BY <1>1, <1>3, SlotOf DEF Inside
  <2> QED
    BY <1>1, <1>2, <2>1 DEF TypeOK
<1>5. /\ timer'[p] \in {"off", "armed"}
      /\ timer'[p] = "armed" => waits
      /\ \A x \in Peer : x # p => \/ timer'[x] = timer[x]
                                  \/ /\ timer'[x] = "off" /\ timer[x] = "armed"
                                     /\ complete /\ lonely[s0] = x
      /\ \A x \in Peer : complete /\ timer'[x] = "armed" => lonely[s0] # x
  BY <1>2, <1>3 DEF TypeOK, Stopped
<1>6. NoStalePeer'
  <2> SUFFICES ASSUME NEW s \in SessionId, NEW t \in Role, slot'[s][t] # NoPeer
               PROVE  /\ role'[slot'[s][t]] = t
                      /\ label'[slot'[s][t]] # NoLabel
                      /\ Lower[label'[slot'[s][t]]] = s
                      /\ at'[slot'[s][t]] \in Inside
                      /\ timer'[slot'[s][t]] \notin {"sending", "closing"}
    BY DEF NoStalePeer, Sid, Inside
  <2>1. CASE s = s0 /\ t = r
    BY <1>3, <1>4, <1>5, <2>1 DEF Inside
  <2>2. CASE ~(s = s0 /\ t = r)
    <3> DEFINE q == slot[s][t]
    <3>1. slot'[s][t] = q /\ q # NoPeer /\ q # p
      BY <1>4, <2>2
    <3>2. /\ q \in Peer /\ role[q] = t /\ label[q] # NoLabel
          /\ Lower[label[q]] = s /\ at[q] \in Inside
          /\ timer[q] \notin {"sending", "closing"}
      BY <3>1, SlotOf DEF Sid
    <3>3. timer'[q] \in {timer[q], "off"}
      BY <1>5, <3>1, <3>2
    <3> HIDE DEF q
    <3> QED
      BY <1>3, <3>1, <3>2, <3>3
  <2> QED
    BY <2>1, <2>2
<1>7. ReadySentIffPaired'
  <2> SUFFICES ASSUME NEW s \in SessionId
               PROVE  readySent'[s] <=> \A t \in Role : slot'[s][t] # NoPeer
    BY DEF ReadySentIffPaired
  <2>1. CASE s = s0
    <3>1. readySent'[s] = (complete \/ StillSent(s0, r))
      BY <1>2, <2>1 DEF TypeOK
    <3>2. StillSent(s0, r) => complete
      BY <1>1 DEF StillSent, RegistryOK, ReadySentIffPaired
    <3>3. (\A t \in Role : slot'[s][t] # NoPeer) <=> complete
      BY <1>1, <1>4, <2>1
    <3> QED
      BY <3>1, <3>2, <3>3
  <2>2. CASE s # s0
    BY <1>2, <1>4, <2>2 DEF TypeOK, RegistryOK, ReadySentIffPaired
  <2> QED
    BY <2>1, <2>2
<1>8. NoEmptySession'
  BY <1>1, <1>2, <1>4 DEF RegistryOK, NoEmptySession
<1>9. TimerGuardsLoneDevice'
  <2>1. ASSUME NEW s \in SessionId, lonely'[s] # NoPeer
        PROVE  /\ slot'[s][Device] = lonely'[s]
               /\ slot'[s][Phone] = NoPeer
               /\ timer'[lonely'[s]] \in {"armed", "firing"}
    <3>1. CASE s = s0 /\ waits
      <4>1. lonely'[s] = p /\ timer'[p] = "armed"
        BY <1>2, <3>1 DEF TypeOK
      <4>2. Other(r) = Phone /\ r = Device
        BY <3>1 DEF Other
      <4> QED
        BY <1>1, <1>4, <3>1, <4>1, <4>2
    <3>2. CASE ~(s = s0 /\ waits)
      <4>1. lonely'[s] = lonely[s] /\ ~(s = s0 /\ complete)
        BY <1>2, <2>1, <3>2 DEF TypeOK
      <4> DEFINE d == lonely[s]
      <4>2. /\ d # NoPeer /\ slot[s][Device] = d /\ slot[s][Phone] = NoPeer
            /\ timer[d] \in {"armed", "firing"} /\ NoReceiver
        BY <2>1, <4>1 DEF RegistryOK, TimerGuardsLoneDevice, LonelyNeedsTimeout
      <4>3. d \in Peer /\ Sid(d) = s /\ d # p
        BY <1>4, <4>2, SlotOf DEF Role
      <4>4. s # s0
        \* a phone would have completed the session, a device would wait
        <5>1. SUFFICES ASSUME s = s0 PROVE FALSE
          OBVIOUS
        <5>2. r = Device \/ r = Phone
          BY DEF Role
        <5>3. CASE r = Device
          BY <3>2, <4>1, <4>2, <5>1, <5>3
        <5>4. CASE r = Phone
          BY <4>1, <4>2, <5>1, <5>4 DEF Other, Device, Phone
        <5> QED
          BY <5>2, <5>3, <5>4
      <4>5. lonely[s0] # d
        <5>1. lonely[s0] # NoPeer => Sid(lonely[s0]) = s0
          BY <1>1, SlotOf DEF RegistryOK, TimerGuardsLoneDevice, Role
        <5> QED
          BY <4>2, <4>3, <4>4, <5>1
      <4>6. timer'[d] = timer[d]
        BY <1>5, <4>3, <4>5
      <4> HIDE DEF d
      <4>7. slot'[s][Device] = slot[s][Device] /\ slot'[s][Phone] = slot[s][Phone]
        BY <1>4, <4>4 DEF Role
      <4>8. lonely'[s] = d
        BY <4>1 DEF d
      <4> QED
        BY <4>2, <4>6, <4>7, <4>8
    <3> QED
      BY <3>1, <3>2
  <2>2. ASSUME NEW d \in Peer, timer'[d] = "armed"
        PROVE  lonely'[Sid(d)'] = d \/ ~Holds(d)'
    <3>1. CASE d = p
      <4>1. waits /\ Sid(d)' = s0
        BY <1>3, <1>5, <2>2, <3>1 DEF Sid
      <4> QED
        BY <1>1, <1>2, <3>1, <4>1 DEF TypeOK
    <3>2. CASE d # p
      <4>1. timer[d] = "armed" /\ Sid(d)' = Sid(d) /\ role'[d] = role[d]
        BY <1>3, <1>5, <2>2, <3>2 DEF Sid
      <4>2. /\ label[d] \in Label /\ role[d] = Device /\ Device \in Role
            /\ Sid(d) \in SessionId
        BY <4>1, HubAssumption DEF HandlersOK, Sid, Role, HubAssumption
      <4>3. CASE lonely[Sid(d)] = d /\ ~(Sid(d) = s0 /\ (complete \/ waits))
        BY <1>2, <4>1, <4>2, <4>3 DEF TypeOK
      <4>4. CASE lonely[Sid(d)] = d /\ Sid(d) = s0 /\ complete
        BY <1>5, <2>2, <4>4
      <4>5. CASE lonely[Sid(d)] = d /\ Sid(d) = s0 /\ waits
        <5>1. slot'[s0][Device] = p
          BY <1>1, <1>4, <4>5
        <5> QED
          BY <3>2, <4>1, <4>2, <4>5, <5>1 DEF Holds
      <4>6. CASE ~Holds(d)
        <5>1. slot'[Sid(d)][role[d]] \in {p, slot[Sid(d)][role[d]]}
          BY <1>4, <4>2
        <5>2. label'[d] = label[d]
          BY <1>3, <3>2
        <5> QED
          BY <3>2, <4>1, <4>6, <5>1, <5>2 DEF Holds
      <4> QED
        BY <4>1, <4>3, <4>4, <4>5, <4>6 DEF RegistryOK, TimerGuardsLoneDevice
    <3> QED
      BY <3>1, <3>2
  <2> QED
    BY <2>1, <2>2 DEF TimerGuardsLoneDevice, Sid
<1>10. LonelyNeedsTimeout'
  BY <1>1, <1>2 DEF TypeOK, RegistryOK, LonelyNeedsTimeout
<1> QED
  BY <1>6, <1>7, <1>8, <1>9, <1>10 DEF RegistryOK

\* Close's critical section: nothing is left, and no timer without a device.
LEMMA SweepStep ==
  ASSUME Handlers, RegistryOK, CloseSweep
  PROVE  RegistryOK'
<1> USE DEF Handlers
<1>1. /\ live' = {}
      /\ slot' = [s \in SessionId |-> [r \in Role |-> NoPeer]]
      /\ readySent' = [s \in SessionId |-> FALSE]
      /\ lonely' = [s \in SessionId |-> NoPeer]
      /\ UNCHANGED <<role, label>>
  BY DEF CloseSweep
<1>2. \A s \in SessionId, r \in Role : slot'[s][r] = NoPeer
  BY <1>1
<1>3. NoStalePeer'
  BY <1>2 DEF NoStalePeer
<1>4. /\ ReadySentIffPaired' /\ NoEmptySession' /\ LonelyNeedsTimeout'
  BY <1>1, <1>2
  DEF ReadySentIffPaired, NoEmptySession, LonelyNeedsTimeout, Role
<1>5. TimerGuardsLoneDevice'
  <2>1. \A s \in SessionId : lonely'[s] = NoPeer
    BY <1>1
  <2>2. ASSUME NEW d \in Peer, timer'[d] = "armed"
        PROVE  ~Holds(d)'
    <3>1. timer[d] = "armed"
      BY <2>2, StoppedType DEF CloseSweep
    <3>2. label'[d] \in Label /\ role'[d] \in Role /\ Lower[label'[d]] \in SessionId
      BY <1>1, <3>1, HubAssumption DEF HandlersOK, Role, HubAssumption
    <3>3. d # NoPeer
      BY HubAssumption DEF HubAssumption
    <3> QED
      BY <1>2, <3>2, <3>3 DEF Holds, Sid
  <2> QED
    BY <2>1, <2>2 DEF TimerGuardsLoneDevice
<1> QED
  BY <1>3, <1>4, <1>5 DEF RegistryOK

LEMMA RegistryStep == Handlers /\ RegistryOK /\ [Next]_vars => RegistryOK'
<1> SUFFICES ASSUME Handlers, RegistryOK, [Next]_vars
             PROVE  RegistryOK'
  OBVIOUS
\* what the timers that guard a session are, and whose
<1>0. \A s \in SessionId : lonely[s] # NoPeer =>
        /\ lonely[s] \in Peer
        /\ timer[lonely[s]] \in {"armed", "firing"}
        /\ slot[s][Device] = lonely[s] /\ slot[s][Phone] = NoPeer
        /\ Sid(lonely[s]) = s
  BY SlotOf DEF RegistryOK, TimerGuardsLoneDevice, Role
<1>1. ASSUME NEW p \in Peer, NEW r \in RoleInput, NEW l \in LabelInput,
             JoinRejected(p, r, l)
      PROVE  RegistryOK'
  <2>1. ~Holds(p)
    BY <1>1 DEF JoinRejected, Handlers, HandlersOK, Holds
  <2> QED
    BY <1>0, <1>1, <2>1, QuietStep
    DEF JoinRejected, registry, Handlers, TypeOK
<1>2. ASSUME NEW p \in Peer, NEW r \in Role, NEW l \in Label,
             JoinRegister(p, r, l)
      PROVE  RegistryOK'
  BY <1>2, JoinStep
<1>3. ASSUME NEW p \in Peer, JoinAnnounce(p)
      PROVE  RegistryOK'
  BY <1>0, <1>3, QuietStep
  DEF JoinAnnounce, Announce, registry, Handlers, TypeOK, Inside
<1>4. ASSUME NEW p \in Peer, CloseReplaced(p)
      PROVE  RegistryOK'
  BY <1>0, <1>4, QuietStep
  DEF CloseReplaced, registry, Handlers, TypeOK, Inside
<1>5. ASSUME NEW p \in Peer, Forward(p)
      PROVE  RegistryOK'
  <2>1. /\ UNCHANGED <<live, slot, readySent, lonely, role, label, timer>>
        /\ at[p] = "serving"
        /\ at' \in {at, [at EXCEPT ![p] = "relaying"]}
    BY <1>5 DEF Forward, registry
  <2> QED
    BY <1>0, <2>1, QuietStep DEF Handlers, TypeOK, Inside
<1>6. ASSUME NEW p \in Peer, ForwardSend(p)
      PROVE  RegistryOK'
  BY <1>0, <1>6, QuietStep
  DEF ForwardSend, registry, Handlers, TypeOK, Inside
<1>7. ASSUME NEW p \in Peer, Leave(p)
      PROVE  RegistryOK'
  <2>1. CASE Holds(p)
    <3>1. role[p] \in Role /\ Sid(p) \in SessionId
      BY <1>7, HubAssumption
      DEF Leave, Handlers, HandlersOK, Sid, HubAssumption
    <3>2. /\ Vacate(Sid(p), role[p]) /\ UNCHANGED <<role, label>>
          /\ timer' = Stopped({Sid(p)})
          /\ \A x \in Peer : x # p => at'[x] = at[x]
      BY <1>7, <2>1 DEF Leave, Handlers, TypeOK
    <3>3. /\ \A x \in Peer : x # p => \/ timer'[x] = timer[x]
                                      \/ /\ timer'[x] = "off"
                                         /\ lonely[Sid(p)] = x
          /\ \A x \in Peer : timer'[x] = "armed"
                => timer[x] = "armed" /\ lonely[Sid(p)] # x
      BY <3>2 DEF Stopped
    <3> QED
      BY <2>1, <3>1, <3>2, <3>3, VacateStep
  <2>2. CASE ~Holds(p)
    <3>1. /\ UNCHANGED <<live, slot, readySent, lonely, role, label, timer>>
          /\ at' = [at EXCEPT ![p] = "gone"]
      BY <1>7, <2>2 DEF Leave, registry
    <3> QED
      BY <1>0, <2>2, <3>1, QuietStep DEF Handlers, TypeOK
  <2> QED
    BY <2>1, <2>2
<1>8. ASSUME NEW p \in Peer, LeaveSend(p)
      PROVE  RegistryOK'
  BY <1>0, <1>8, QuietStep
  DEF LeaveSend, registry, Handlers, TypeOK, Inside
<1>9. ASSUME NEW p \in Peer, LonelyFires(p)
      PROVE  RegistryOK'
  BY <1>0, <1>9, QuietStep
  DEF LonelyFires, registry, handlers, Handlers, TypeOK
<1>10. ASSUME NEW p \in Peer, ExpireLonely(p)
       PROVE  RegistryOK'
  <2>1. /\ label[p] \in Label /\ role[p] = Device /\ Sid(p) \in SessionId
        /\ NoLabel \notin Label /\ Device \in Role
    BY <1>10, HubAssumption
    DEF ExpireLonely, Handlers, HandlersOK, Sid, HubAssumption, Role
  <2>2. CASE StillLonely(p)
    <3>1. Holds(p)
      BY <2>1, <2>2 DEF StillLonely, Holds
    <3>2. /\ Vacate(Sid(p), role[p]) /\ UNCHANGED <<role, label, at>>
          /\ timer' = [timer EXCEPT ![p] = "sending"]
      BY <1>10, <2>1, <2>2 DEF ExpireLonely, handlers
    <3>3. /\ \A x \in Peer : x # p => timer'[x] = timer[x]
          /\ timer'[p] # "armed"
      BY <3>2 DEF Handlers, TypeOK
    <3>4. \A x \in Peer : x # p => lonely[Sid(p)] # x
      BY <1>0, <2>1, <2>2, HubAssumption DEF StillLonely, HubAssumption
    <3> QED
      BY <2>1, <3>1, <3>2, <3>3, <3>4, VacateStep
  <2>3. CASE ~StillLonely(p)
    <3>1. /\ UNCHANGED <<live, slot, readySent, lonely, role, label, at>>
          /\ timer' = [timer EXCEPT ![p] = "done"]
      BY <1>10, <2>3 DEF ExpireLonely, registry, handlers
    <3>2. \A s \in SessionId : lonely[s] # p
      BY <1>0, <2>1, <2>3, HubAssumption DEF StillLonely, HubAssumption
    <3> QED
      BY <1>0, <3>1, <3>2, QuietStep DEF Handlers, TypeOK
  <2> QED
    BY <2>2, <2>3
<1>11. ASSUME NEW p \in Peer, ExpireSend(p)
       PROVE  RegistryOK'
  BY <1>0, <1>11, QuietStep
  DEF ExpireSend, registry, handlers, Handlers, TypeOK
<1>12. ASSUME NEW p \in Peer, ExpireClose(p)
       PROVE  RegistryOK'
  BY <1>0, <1>12, QuietStep
  DEF ExpireClose, registry, handlers, Handlers, TypeOK
<1>13. ASSUME NEW p \in Peer, Drain(p)
       PROVE  RegistryOK'
  BY <1>0, <1>13, QuietStep DEF Drain, registry, handlers
<1>14. CASE CloseSweep
  BY <1>14, SweepStep
<1>15. CASE CloseGauge
  BY <1>0, <1>15, QuietStep DEF CloseGauge, registry, handlers
<1>16. CASE UNCHANGED vars
  BY <1>0, <1>16, QuietStep DEF vars
<1> QED
  BY <1>1, <1>2, <1>3, <1>4, <1>5, <1>6, <1>7, <1>8, <1>9, <1>10, <1>11,
     <1>12, <1>13, <1>14, <1>15, <1>16
  DEF Next, Handler, LonelyTimer

LEMMA RegistryInvariant == Spec => [](Handlers /\ RegistryOK)
BY HandlersInit, HandlersStep, RegistryInit, RegistryStep, PTL DEF Spec

\* No slot ever points to a peer that left, was evicted, or joined elsewhere,
\* whatever the order of joins, replacements, departures and timeouts.
THEOREM NeverStale == Spec => []NoStalePeer
<1>1. Handlers /\ RegistryOK => NoStalePeer
  BY DEF RegistryOK
<1> QED
  BY <1>1, RegistryInvariant, PTL

\* readySent, the flag join decides by whether to send ready, is true exactly
\* while both slots are filled.
THEOREM ReadySentCorrect == Spec => []ReadySentIffPaired
<1>1. Handlers /\ RegistryOK => ReadySentIffPaired
  BY DEF RegistryOK
<1> QED
  BY <1>1, RegistryInvariant, PTL

\* The map holds no session without a peer and loses none with one.
THEOREM SessionsDropped == Spec => []NoEmptySession
<1>1. Handlers /\ RegistryOK => NoEmptySession
  BY DEF RegistryOK
<1> QED
  BY <1>1, RegistryInvariant, PTL

\* A session's timer is the one of the device alone in it, and a timer nobody
\* can stop any more belongs to a device that lost its slot.
THEOREM TimersGuarded == Spec => []TimerGuardsLoneDevice
<1>1. Handlers /\ RegistryOK => TimerGuardsLoneDevice
  BY DEF RegistryOK
<1> QED
  BY <1>1, RegistryInvariant, PTL

-----------------------------------------------------------------------------
(* The session gauge *)

LEMMA VacateGauge ==
  ASSUME Handlers, RegistryOK, GaugeExact, NEW s \in SessionId, NEW r \in Role,
         slot[s][r] # NoPeer, Vacate(s, r), UNCHANGED <<sweep, remaining>>
  PROVE  GaugeExact'
<1>1. s \in live
  BY DEF RegistryOK, NoEmptySession
<1>2. /\ Cardinality(live) \in Nat
      /\ Cardinality(live \ {s}) = Cardinality(live) - 1
  BY <1>1, FS_CardinalityType, FS_RemoveElement DEF Handlers
<1>3. \/ live' = live /\ gauge' = gauge
      \/ live' = live \ {s} /\ gauge' = gauge - 1
  BY DEF Vacate, DropIfEmpty
<1> DEFINE swept == IF sweep = "swept" THEN remaining ELSE 0
<1>4. gauge \in Int /\ swept \in Int /\ gauge = Cardinality(live) + swept
  BY DEF GaugeExact, Handlers, TypeOK
<1>5. gauge' = Cardinality(live') + swept
  <2> HIDE DEF swept
  <2>1. CASE live' = live /\ gauge' = gauge
    BY <1>4, <2>1
  <2>2. CASE live' = live \ {s} /\ gauge' = gauge - 1
    <3>1. Cardinality(live') = Cardinality(live) - 1
      BY <1>2, <2>2
    <3> QED
      BY <1>2, <1>4, <2>2, <3>1
  <2> QED
    BY <1>3, <2>1, <2>2
<1> QED
  BY <1>5 DEF GaugeExact

LEMMA GaugeStep == Handlers /\ RegistryOK /\ GaugeExact /\ [Next]_vars => GaugeExact'
<1> SUFFICES ASSUME Handlers, RegistryOK, GaugeExact, [Next]_vars
             PROVE  GaugeExact'
  OBVIOUS
<1>1. ASSUME NEW p \in Peer, NEW r \in Role, NEW l \in Label,
             JoinRegister(p, r, l)
      PROVE  GaugeExact'
  <2>1. /\ Cardinality(live) \in Nat
        /\ Cardinality(live \cup {Lower[l]}) =
             IF Lower[l] \in live THEN Cardinality(live) ELSE Cardinality(live) + 1
    BY FS_CardinalityType, FS_AddElement DEF Handlers
  <2>2. /\ live' = live \cup {Lower[l]}
        /\ gauge' = IF Lower[l] \in live THEN gauge ELSE gauge + 1
        /\ UNCHANGED <<sweep, remaining>>
    BY <1>1 DEF JoinRegister
  <2> QED
    BY <2>1, <2>2 DEF GaugeExact, Handlers, TypeOK
<1>2. ASSUME NEW p \in Peer, Leave(p)
      PROVE  GaugeExact'
  <2>1. CASE Holds(p)
    <3>1. /\ role[p] \in Role /\ Sid(p) \in SessionId
          /\ slot[Sid(p)][role[p]] # NoPeer
      BY <1>2, <2>1, HubAssumption
      DEF Leave, Handlers, HandlersOK, Holds, Sid, HubAssumption
    <3>2. Vacate(Sid(p), role[p]) /\ UNCHANGED <<sweep, remaining>>
      BY <1>2, <2>1 DEF Leave
    <3> QED
      BY <3>1, <3>2, VacateGauge
  <2>2. CASE ~Holds(p)
    BY <1>2, <2>2 DEF Leave, registry, GaugeExact
  <2> QED
    BY <2>1, <2>2
<1>3. ASSUME NEW p \in Peer, ExpireLonely(p)
      PROVE  GaugeExact'
  <2>1. CASE StillLonely(p)
    <3>1. /\ Device \in Role /\ Sid(p) \in SessionId
          /\ slot[Sid(p)][Device] # NoPeer
      BY <1>3, <2>1, HubAssumption
      DEF ExpireLonely, StillLonely, Handlers, HandlersOK, Sid, Role,
          HubAssumption
    <3>2. Vacate(Sid(p), Device) /\ UNCHANGED <<sweep, remaining>>
      BY <1>3, <2>1 DEF ExpireLonely
    <3> QED
      BY <3>1, <3>2, VacateGauge
  <2>2. CASE ~StillLonely(p)
    BY <1>3, <2>2 DEF ExpireLonely, registry, GaugeExact
  <2> QED
    BY <2>1, <2>2
<1>4. CASE CloseSweep
  BY <1>4, FS_EmptySet, FS_CardinalityType
  DEF CloseSweep, GaugeExact, Handlers, TypeOK
<1>5. CASE CloseGauge
  <2>1. Cardinality(live) \in Nat
    BY FS_CardinalityType DEF Handlers
  <2> QED
    BY <1>5, <2>1 DEF CloseGauge, registry, GaugeExact, Handlers, TypeOK
<1>6. ASSUME UNCHANGED <<live, gauge, sweep, remaining>>
      PROVE  GaugeExact'
  BY <1>6 DEF GaugeExact
<1>7. ASSUME NEW p \in Peer, NEW r \in RoleInput, NEW l \in LabelInput,
             JoinRejected(p, r, l)
      PROVE  GaugeExact'
  BY <1>6, <1>7 DEF JoinRejected, registry
<1>8. ASSUME NEW p \in Peer,
             \/ JoinAnnounce(p) \/ CloseReplaced(p) \/ Forward(p)
             \/ ForwardSend(p) \/ LeaveSend(p) \/ LonelyFires(p)
             \/ ExpireSend(p) \/ ExpireClose(p) \/ Drain(p)
      PROVE  GaugeExact'
  <2>1. UNCHANGED <<live, gauge, sweep, remaining>>
    BY <1>8
    DEF JoinAnnounce, Announce, CloseReplaced, Forward, ForwardSend, LeaveSend,
        LonelyFires, ExpireSend, ExpireClose, Drain, registry
  <2> QED
    BY <1>6, <2>1
<1>9. CASE UNCHANGED vars
  BY <1>6, <1>9 DEF vars
<1> QED
  BY <1>1, <1>2, <1>3, <1>4, <1>5, <1>7, <1>8, <1>9
  DEF Next, Handler, LonelyTimer

\* sessionsActive never drifts from the number of sessions: not by a session
\* made or dropped twice, not by a departure that comes after Close's sweep.
THEOREM GaugeCorrect == Spec => []GaugeExact
<1>1. Init => GaugeExact
  BY FS_EmptySet DEF Init, GaugeExact
<1> QED
  BY <1>1, GaugeStep, RegistryInvariant, PTL DEF Spec

\* Nothing piles up in the map, and the gauge says so (hub.go:172-178, 244-247).
THEOREM SessionsAreExact == Spec => []SessionsExact
<1>1. NoEmptySession /\ GaugeExact => SessionsExact
  BY DEF SessionsExact
<1> QED
  BY <1>1, SessionsDropped, GaugeCorrect, PTL

-----------------------------------------------------------------------------
(* Losing a slot *)

LEMMA EvictionStep ==
  ASSUME Handlers, RegistryOK, [Next]_vars, NEW s \in SessionId, NEW r \in Role,
         slot[s][r] # NoPeer, slot'[s][r] # slot[s][r]
  PROVE  LET p == slot[s][r]
             q == slot'[s][r]
         IN  \/ at[p] = "serving" /\ at'[p] \in {"leaving", "gone"}
             \/ /\ timer[p] = "firing" /\ timer'[p] = "sending"
                /\ slot[s][Other(r)] = NoPeer
             \/ q # NoPeer /\ at[q] = "dialing" /\ role'[q] = r
             \/ sweep' # sweep
<1> DEFINE p == slot[s][r]
           q == slot'[s][r]
           Goal == \/ at[p] = "serving" /\ at'[p] \in {"leaving", "gone"}
                   \/ /\ timer[p] = "firing" /\ timer'[p] = "sending"
                      /\ slot[s][Other(r)] = NoPeer
                   \/ q # NoPeer /\ at[q] = "dialing" /\ role'[q] = r
                   \/ sweep' # sweep
<1> SUFFICES Goal
  OBVIOUS
<1>1. /\ p \in Peer /\ label[p] # NoLabel /\ role[p] = r /\ Sid(p) = s
      /\ slot \in [SessionId -> [Role -> PeerOrNil]]
  BY SlotOf DEF Handlers, TypeOK
<1>2. ASSUME NEW x \in Peer, NEW t \in Role, NEW l \in Label,
             JoinRegister(x, t, l)
      PROVE  Goal
  <2>1. /\ slot' = [slot EXCEPT ![Lower[l]][t] = x]
        /\ Lower[l] \in SessionId /\ x # NoPeer /\ at[x] = "dialing"
        /\ role'[x] = t
    BY <1>2, HubAssumption DEF JoinRegister, HubAssumption, Handlers, TypeOK
  <2>2. q = x /\ t = r
    BY <1>1, <2>1
  <2> QED
    BY <2>1, <2>2
<1>3. ASSUME NEW x \in Peer, Leave(x)
      PROVE  Goal
  <2>1. CASE Holds(x)
    <3>1. /\ slot' = [slot EXCEPT ![Sid(x)][role[x]] = NoPeer]
          /\ slot[Sid(x)][role[x]] = x
          /\ at[x] = "serving" /\ at'[x] \in {"leaving", "gone"}
      BY <1>3, <2>1 DEF Leave, Vacate, Holds, Handlers, TypeOK
    <3>2. /\ role[x] \in Role /\ Sid(x) \in SessionId
      BY <1>3, HubAssumption
      DEF Leave, Handlers, HandlersOK, Sid, HubAssumption
    <3>3. s = Sid(x) /\ r = role[x]
      BY <1>1, <3>1, <3>2
    <3> QED
      BY <3>1, <3>3
  <2>2. CASE ~Holds(x)
    BY <1>3, <2>2 DEF Leave, registry
  <2> QED
    BY <2>1, <2>2
<1>4. ASSUME NEW x \in Peer, ExpireLonely(x)
      PROVE  Goal
  <2>1. CASE StillLonely(x)
    <3>1. /\ slot' = [slot EXCEPT ![Sid(x)][Device] = NoPeer]
          /\ slot[Sid(x)][Device] = x /\ slot[Sid(x)][Phone] = NoPeer
          /\ timer[x] = "firing" /\ timer'[x] = "sending"
      BY <1>4, <2>1
      DEF ExpireLonely, Vacate, StillLonely, Handlers, TypeOK
    <3>2. Device \in Role /\ Sid(x) \in SessionId
      BY <1>4, HubAssumption
      DEF ExpireLonely, Handlers, HandlersOK, Sid, HubAssumption, Role
    <3>3. s = Sid(x) /\ r = Device /\ Other(r) = Phone
      BY <1>1, <3>1, <3>2 DEF Other
    <3> QED
      BY <3>1, <3>3
  <2>2. CASE ~StillLonely(x)
    BY <1>4, <2>2 DEF ExpireLonely, registry
  <2> QED
    BY <2>1, <2>2
<1>5. CASE CloseSweep
  BY <1>5 DEF CloseSweep
<1>6. CASE CloseGauge
  BY <1>6 DEF CloseGauge, registry
<1>7. ASSUME NEW x \in Peer, NEW t \in RoleInput, NEW l \in LabelInput,
             JoinRejected(x, t, l)
      PROVE  Goal
  BY <1>7 DEF JoinRejected, registry
<1>8. ASSUME NEW x \in Peer,
             \/ JoinAnnounce(x) \/ CloseReplaced(x) \/ Forward(x)
             \/ ForwardSend(x) \/ LeaveSend(x) \/ LonelyFires(x)
             \/ ExpireSend(x) \/ ExpireClose(x) \/ Drain(x)
      PROVE  Goal
  <2>1. UNCHANGED slot
    BY <1>8
    DEF JoinAnnounce, Announce, CloseReplaced, Forward, ForwardSend, LeaveSend,
        LonelyFires, ExpireSend, ExpireClose, Drain, registry
  <2> QED
    BY <2>1
<1>9. CASE UNCHANGED vars
  BY <1>9 DEF vars
<1> HIDE DEF Goal
<1> QED
  BY <1>2, <1>3, <1>4, <1>5, <1>6, <1>7, <1>8, <1>9
  DEF Next, Handler, LonelyTimer

\* A peer loses its slot by its own leave, by its own timer while it is alone,
\* by a join of its own role, or by Close: never by another peer's clean-up.
THEOREM EvictionCorrect == Spec => EvictionHasCause
<1>1. Handlers /\ RegistryOK /\ [Next]_vars =>
        [\A s \in SessionId, r \in Role :
           LET p == slot[s][r]
               q == slot'[s][r]
           IN  p # NoPeer /\ q # p =>
                 \/ at[p] = "serving" /\ at'[p] \in {"leaving", "gone"}
                 \/ /\ timer[p] = "firing" /\ timer'[p] = "sending"
                    /\ slot[s][Other(r)] = NoPeer
                 \/ q # NoPeer /\ at[q] = "dialing" /\ role'[q] = r
                 \/ sweep' # sweep]_vars
  BY EvictionStep
<1> QED
  BY <1>1, RegistryInvariant, PTL DEF Spec, EvictionHasCause

\* What every step leaves true of a peer that is to be closed.
LEMMA OrphanKept ==
  ASSUME OrphanIsBeingClosed, sweep' = "open" => sweep = "open",
         \A x \in Peer : closeReason[x] # "none" => closeReason'[x] # "none",
         \A x \in Peer : at'[x] \in Inside /\ ~Holds(x)' /\ sweep' = "open" =>
           \/ at[x] \in Inside /\ ~Holds(x)
           \/ timer'[x] \in {"sending", "closing"}
           \/ \E q \in Peer : /\ at'[q] \in {"announcing", "replacing"}
                               /\ target'[q] = x,
         \A x \in Peer : timer[x] \in {"sending", "closing"} =>
           timer'[x] \in {"sending", "closing"} \/ closeReason'[x] # "none",
         \A q \in Peer : at[q] \in {"announcing", "replacing"} =>
           \/ at'[q] \in {"announcing", "replacing"} /\ target'[q] = target[q]
           \/ target[q] = NoPeer
           \/ closeReason'[target[q]] # "none"
  PROVE  OrphanIsBeingClosed'
<1> SUFFICES ASSUME NEW x \in Peer,
                    at'[x] \in Inside, ~Holds(x)', sweep' = "open"
             PROVE  \/ closeReason'[x] # "none"
                    \/ timer'[x] \in {"sending", "closing"}
                    \/ \E q \in Peer : /\ at'[q] \in {"announcing", "replacing"}
                                        /\ target'[q] = x
  BY DEF OrphanIsBeingClosed, Inside
<1>1. CASE at[x] \in Inside /\ ~Holds(x)
  <2>1. \/ closeReason[x] # "none"
        \/ timer[x] \in {"sending", "closing"}
        \/ \E q \in Peer : at[q] \in {"announcing", "replacing"} /\ target[q] = x
    BY <1>1 DEF OrphanIsBeingClosed
  <2>2. x # NoPeer
    BY HubAssumption DEF HubAssumption
  <2> QED
    BY <2>1, <2>2
<1> QED
  BY <1>1

\* Send and FirstReason never take a close request back.
LEMMA CloseStays ==
  ASSUME Handlers, [Next]_vars, NEW x \in Peer, closeReason[x] # "none"
  PROVE  closeReason'[x] # "none"
<1> USE DEF Handlers
<1>1. ASSUME NEW p \in Peer, NEW r \in Role, NEW l \in Label,
             JoinRegister(p, r, l)
      PROVE  closeReason'[x] # "none"
  <2>1. JoinSends(p, Lower[l], r) /\ Lower[l] \in SessionId
    BY <1>1, HubAssumption DEF JoinRegister, HubAssumption
  <2> QED
    BY <2>1, JoinSendsType
<1>2. ASSUME NEW p \in Peer, JoinAnnounce(p)
      PROVE  closeReason'[x] # "none"
  BY <1>2, CloseIfFullType DEF JoinAnnounce, Announce
<1>3. ASSUME NEW q \in Peer, NEW why \in CloseReason \ {"none"},
             closeReason' = [closeReason EXCEPT ![q] = FirstReason(q, why)]
      PROVE  closeReason'[x] # "none"
  BY <1>3, FirstReasonType DEF TypeOK
<1>4. {"replaced", "no receiver"} \subseteq CloseReason \ {"none"}
  BY DEF CloseReason
<1>5. ASSUME NEW p \in Peer, CloseReplaced(p) \/ ExpireClose(p)
      PROVE  closeReason'[x] # "none"
  <2>1. CASE CloseReplaced(p)
    BY <1>3, <1>4, <2>1 DEF CloseReplaced, HandlersOK
  <2>2. CASE ExpireClose(p)
    BY <1>3, <1>4, <2>2 DEF ExpireClose
  <2> QED
    BY <1>5, <2>1, <2>2
<1>6. ASSUME NEW p \in Peer, ForwardSend(p) \/ LeaveSend(p) \/ ExpireSend(p)
      PROVE  closeReason'[x] # "none"
  <2>1. CASE ForwardSend(p)
    <3>1. target[p] \in Peer /\ Signal(p, signals[p]) \in Frame
      BY <2>1, FrameTypes DEF ForwardSend, HandlersOK
    <3> QED
      BY <2>1, <3>1, SendType DEF ForwardSend
  <2>2. CASE LeaveSend(p)
    BY <2>2, FrameTypes, SendType DEF LeaveSend, HandlersOK
  <2>3. CASE ExpireSend(p)
    BY <2>3, FrameTypes, SendType DEF ExpireSend
  <2> QED
    BY <1>6, <2>1, <2>2, <2>3
<1>7. ASSUME UNCHANGED closeReason
      PROVE  closeReason'[x] # "none"
  BY <1>7
<1>8. ASSUME NEW p \in Peer, NEW r \in RoleInput, NEW l \in LabelInput,
             JoinRejected(p, r, l)
      PROVE  closeReason'[x] # "none"
  BY <1>7, <1>8 DEF JoinRejected
<1>9. ASSUME NEW p \in Peer, \/ Forward(p) \/ Leave(p) \/ LonelyFires(p)
                             \/ ExpireLonely(p) \/ Drain(p)
      PROVE  closeReason'[x] # "none"
  BY <1>7, <1>9 DEF Forward, Leave, LonelyFires, ExpireLonely, Drain
<1>10. CASE CloseSweep \/ CloseGauge \/ UNCHANGED vars
  BY <1>7, <1>10 DEF CloseSweep, CloseGauge, vars
<1> QED
  BY <1>1, <1>2, <1>5, <1>6, <1>8, <1>9, <1>10
  DEF Next, Handler, LonelyTimer

LEMMA OrphanStep ==
  Handlers /\ RegistryOK /\ OrphanIsBeingClosed /\ [Next]_vars
    => OrphanIsBeingClosed'
<1> SUFFICES ASSUME Handlers, RegistryOK, OrphanIsBeingClosed, [Next]_vars
             PROVE  OrphanIsBeingClosed'
  OBVIOUS
<1> USE DEF Handlers
<1>0. \A x \in Peer : closeReason[x] # "none" => closeReason'[x] # "none"
  BY CloseStays
<1>1. ASSUME NEW p \in Peer, NEW r \in RoleInput, NEW l \in LabelInput,
             JoinRejected(p, r, l)
      PROVE  OrphanIsBeingClosed'
  BY <1>0, <1>1, OrphanKept
  DEF JoinRejected, registry, TypeOK, Holds, Sid, Inside
<1>2. ASSUME NEW p \in Peer, NEW r \in Role, NEW l \in Label,
             JoinRegister(p, r, l)
      PROVE  OrphanIsBeingClosed'
  <2> DEFINE s == Lower[l]
  <2>1. /\ slot' = [slot EXCEPT ![s][r] = p] /\ s \in SessionId
        /\ p # NoPeer /\ l # NoLabel /\ at[p] = "dialing"
        /\ at' = [at EXCEPT ![p] = "announcing"]
        /\ target' = [target EXCEPT ![p] = slot[s][r]]
        /\ role' = [role EXCEPT ![p] = r] /\ label' = [label EXCEPT ![p] = l]
        /\ UNCHANGED sweep
    BY <1>2, HubAssumption DEF JoinRegister, HubAssumption
  <2>2. \A x \in Peer : timer[x] \in {"sending", "closing"}
                         => timer'[x] = timer[x]
    <3>1. timer[p] = "off"
      BY <2>1 DEF HandlersOK
    <3> QED
      BY <1>2, <3>1, StoppedType DEF JoinRegister, TypeOK
  <2>3. ASSUME NEW x \in Peer, at'[x] \in Inside, ~Holds(x)'
        PROVE  \/ at[x] \in Inside /\ ~Holds(x)
               \/ \E q \in Peer : /\ at'[q] \in {"announcing", "replacing"}
                                   /\ target'[q] = x
    <3>1. x # p
      BY <2>1, <2>3 DEF TypeOK, Holds, Sid
    <3>2. at[x] \in Inside /\ role'[x] = role[x] /\ label'[x] = label[x]
      BY <2>1, <2>3, <3>1 DEF TypeOK
    <3>3. CASE Holds(x)
      <4>1. /\ role[x] \in Role /\ Sid(x) \in SessionId
            /\ slot[Sid(x)][role[x]] = x /\ slot'[Sid(x)][role[x]] # x
        BY <2>3, <3>2, <3>3, HubAssumption
        DEF HandlersOK, Holds, Sid, HubAssumption, Inside
      <4>2. Sid(x) = s /\ role[x] = r
        BY <2>1, <4>1 DEF TypeOK
      <4>3. target'[p] = x /\ at'[p] = "announcing"
        BY <2>1, <4>1, <4>2 DEF TypeOK
      <4> QED
        BY <4>3
    <3> QED
      BY <3>2, <3>3
  <2>4. \A q \in Peer : at[q] \in {"announcing", "replacing"} =>
           at'[q] \in {"announcing", "replacing"} /\ target'[q] = target[q]
    BY <2>1 DEF TypeOK
  <2> HIDE DEF s
  <2> QED
    BY <1>0, <2>1, <2>2, <2>3, <2>4, OrphanKept
<1>3. ASSUME NEW p \in Peer, JoinAnnounce(p)
      PROVE  OrphanIsBeingClosed'
  BY <1>0, <1>3, OrphanKept
  DEF JoinAnnounce, Announce, registry, TypeOK, Holds, Sid, Inside
<1>4. ASSUME NEW p \in Peer, CloseReplaced(p)
      PROVE  OrphanIsBeingClosed'
  <2>1. target[p] \in Peer /\ closeReason'[target[p]] # "none"
    BY <1>4, FirstReasonType
    DEF CloseReplaced, HandlersOK, TypeOK, CloseReason
  <2> QED
    BY <1>0, <1>4, <2>1, OrphanKept
    DEF CloseReplaced, registry, TypeOK, Holds, Sid, Inside
<1>5. ASSUME NEW p \in Peer, Forward(p)
      PROVE  OrphanIsBeingClosed'
  <2>1. /\ UNCHANGED <<slot, role, label, timer, sweep>>
        /\ at[p] = "serving"
        /\ \/ UNCHANGED <<at, target>>
           \/ /\ at' = [at EXCEPT ![p] = "relaying"]
              /\ target' = [target EXCEPT ![p] = Counterpart(p)]
    BY <1>5 DEF Forward, registry
  <2> QED
    BY <1>0, <2>1, OrphanKept DEF TypeOK, Holds, Sid, Inside
<1>6. ASSUME NEW p \in Peer, ForwardSend(p)
      PROVE  OrphanIsBeingClosed'
  BY <1>0, <1>6, OrphanKept
  DEF ForwardSend, registry, TypeOK, Holds, Sid, Inside
<1>7. ASSUME NEW p \in Peer, Leave(p)
      PROVE  OrphanIsBeingClosed'
  <2>1. /\ at[p] = "serving" /\ at'[p] \in {"leaving", "gone"}
        /\ \A x \in Peer : x # p => at'[x] = at[x] /\ target'[x] = target[x]
        /\ UNCHANGED <<role, label, sweep>>
        /\ \A x \in Peer : timer[x] \in {"sending", "closing"}
                           => timer'[x] = timer[x]
    BY <1>7, StoppedType DEF Leave, TypeOK
  <2>2. ASSUME NEW x \in Peer, at'[x] \in Inside, ~Holds(x)'
        PROVE  at[x] \in Inside /\ ~Holds(x)
    <3>1. x # p /\ at[x] \in Inside
      BY <2>1, <2>2 DEF Inside
    <3>2. slot'[Sid(x)][role[x]] = slot[Sid(x)][role[x]] \/ slot[Sid(x)][role[x]] = p
      <4>1. CASE Holds(p)
        <5>1. slot' = [slot EXCEPT ![Sid(p)][role[p]] = NoPeer]
          BY <1>7, <4>1 DEF Leave, Vacate
        <5>2. /\ role[x] \in Role /\ Sid(x) \in SessionId
              /\ slot[Sid(p)][role[p]] = p
          BY <3>1, <4>1, HubAssumption
          DEF HandlersOK, Sid, HubAssumption, Inside, Holds
        <5> QED
          BY <5>1, <5>2 DEF TypeOK
      <4>2. CASE ~Holds(p)
        BY <1>7, <4>2 DEF Leave, registry
      <4> QED
        BY <4>1, <4>2
    <3> QED
      BY <2>1, <2>2, <3>1, <3>2 DEF Holds, Sid
  <2> QED
    BY <1>0, <2>1, <2>2, OrphanKept
<1>8. ASSUME NEW p \in Peer, LeaveSend(p)
      PROVE  OrphanIsBeingClosed'
  BY <1>0, <1>8, OrphanKept
  DEF LeaveSend, registry, TypeOK, Holds, Sid, Inside
<1>9. ASSUME NEW p \in Peer, LonelyFires(p)
      PROVE  OrphanIsBeingClosed'
  BY <1>0, <1>9, OrphanKept
  DEF LonelyFires, registry, handlers, TypeOK, Holds, Sid, Inside
<1>10. ASSUME NEW p \in Peer, ExpireLonely(p)
       PROVE  OrphanIsBeingClosed'
  <2>1. CASE StillLonely(p)
    <3>1. /\ slot' = [slot EXCEPT ![Sid(p)][Device] = NoPeer]
          /\ slot[Sid(p)][Device] = p
          /\ timer' = [timer EXCEPT ![p] = "sending"]
          /\ UNCHANGED <<role, label, at, target, sweep>>
      BY <1>10, <2>1 DEF ExpireLonely, Vacate, StillLonely, handlers
    <3>2. ASSUME NEW x \in Peer, at'[x] \in Inside, ~Holds(x)'
          PROVE  \/ at[x] \in Inside /\ ~Holds(x)
                 \/ timer'[x] \in {"sending", "closing"}
      <4>1. CASE x = p
        BY <3>1, <4>1 DEF TypeOK
      <4>2. CASE x # p
        <5>1. /\ role[x] \in Role /\ Sid(x) \in SessionId /\ at[x] \in Inside
          BY <3>1, <3>2, HubAssumption
          DEF HandlersOK, Sid, HubAssumption, Inside
        <5>2. \/ slot'[Sid(x)][role[x]] = slot[Sid(x)][role[x]]
              \/ slot[Sid(x)][role[x]] = p
          BY <3>1, <5>1 DEF TypeOK
        <5> QED
          BY <3>1, <3>2, <4>2, <5>1, <5>2 DEF Holds, Sid
      <4> QED
        BY <4>1, <4>2
    <3>3. \A x \in Peer : timer[x] \in {"sending", "closing"}
                         => timer'[x] \in {"sending", "closing"}
      BY <3>1 DEF TypeOK
    <3> QED
      BY <1>0, <3>1, <3>2, <3>3, OrphanKept
  <2>2. CASE ~StillLonely(p)
    <3>1. /\ UNCHANGED <<slot, role, label, at, target, sweep>>
          /\ timer[p] = "firing" /\ timer' = [timer EXCEPT ![p] = "done"]
      BY <1>10, <2>2 DEF ExpireLonely, registry, handlers
    <3> QED
      BY <1>0, <3>1, OrphanKept DEF TypeOK, Holds, Sid
  <2> QED
    BY <2>1, <2>2
<1>11. ASSUME NEW p \in Peer, ExpireSend(p)
       PROVE  OrphanIsBeingClosed'
  BY <1>0, <1>11, OrphanKept
  DEF ExpireSend, registry, handlers, TypeOK, Holds, Sid
<1>12. ASSUME NEW p \in Peer, ExpireClose(p)
       PROVE  OrphanIsBeingClosed'
  <2>1. closeReason'[p] # "none"
    BY <1>12, FirstReasonType DEF ExpireClose, TypeOK, CloseReason
  <2> QED
    BY <1>0, <1>12, <2>1, OrphanKept
    DEF ExpireClose, registry, handlers, TypeOK, Holds, Sid
<1>13. ASSUME NEW p \in Peer, Drain(p)
       PROVE  OrphanIsBeingClosed'
  BY <1>0, <1>13, OrphanKept DEF Drain, registry, handlers, Holds, Sid
<1>14. CASE CloseSweep \/ CloseGauge
  <2>1. sweep' # "open"
    BY <1>14 DEF CloseSweep, CloseGauge
  <2> QED
    BY <2>1 DEF OrphanIsBeingClosed
<1>15. CASE UNCHANGED vars
  BY <1>0, <1>15, OrphanKept DEF vars, Holds, Sid
<1> QED
  BY <1>1, <1>2, <1>3, <1>4, <1>5, <1>6, <1>7, <1>8, <1>9, <1>10, <1>11,
     <1>12, <1>13, <1>14, <1>15
  DEF Next, Handler, LonelyTimer

\* Until Close sweeps, nobody serves a peer that lost its slot for good: its
\* close is requested, or owed by a join or a timer that is still running.
THEOREM OrphanClosed == Spec => []OrphanIsBeingClosed
<1>1. Init => OrphanIsBeingClosed
  BY DEF Init, OrphanIsBeingClosed, Inside
<1> QED
  BY <1>1, OrphanStep, RegistryInvariant, PTL DEF Spec
=============================================================================
