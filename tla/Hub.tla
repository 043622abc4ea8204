-------------------------------- MODULE Hub --------------------------------
(***************************************************************************)
(* The pairing registry of the /ws signaling endpoint (signaling/hub.go).   *)
(* A session pairs a "device" with a "phone".  The registry is one map      *)
(* guarded by one mutex; a peer is reached through a bounded channel (out)  *)
(* and a close request, never through its socket.                           *)
(*                                                                         *)
(* Three goroutines touch the registry on behalf of a peer p: its handler   *)
(* (join, forward, leave), the lonely timer it armed (expireLonely), and    *)
(* its writer, which takes frames off out[p].  Critical sections that make  *)
(* no channel send are one step.  join sends while it holds the mutex, so   *)
(* it is two steps with mu held in between.  What a function does after     *)
(* unlocking, with pointers it read under the lock, is a step of its own.   *)
(*                                                                         *)
(* Left out: logging, counters other than the session gauge, imei, STUN     *)
(* and TURN fields of a ready frame.  Handlers and sockets (conn.go) are    *)
(* here only as the callers of these operations.                            *)
(***************************************************************************)
EXTENDS Integers, Sequences, FiniteSets

CONSTANTS
  Peer,        \* *peer objects; join makes a new one, equality is identity
  NoPeer,      \* the nil *peer
  Label,       \* non-empty session ids, as clients write them
  NoLabel,     \* the empty session id
  SessionId,   \* lookup keys
  Lower,       \* strings.ToLower, from Label to SessionId
  SendBuffer,  \* cfg.SendBuffer, capacity of a peer's out channel
  NoReceiver,  \* cfg.NoReceiverTimeout > 0
  Shutdown,    \* whether Close is ever called
  MaxSignals   \* bound: offer/answer/candidate frames one client sends

Device == "device"
Phone  == "phone"
Role   == {Device, Phone}
Other(r) == IF r = Device THEN Phone ELSE Device

ASSUME HubAssumption ==
  /\ NoPeer \notin Peer
  /\ NoLabel \notin Label
  /\ Lower \in [Label -> SessionId]
  /\ SendBuffer \in Nat \ {0}
  /\ NoReceiver \in BOOLEAN
  /\ Shutdown \in BOOLEAN
  /\ MaxSignals \in Nat

VARIABLES
  \* the map: keys, and the fields of *session (zero when not a key)
  live, slot, readySent, lonely,
  mu,                       \* holder of Hub.mu, between two steps of join
  gauge,                    \* sessionsActive
  \* per peer: immutable fields, its channel, its close request
  role, label, out, closeReason,
  \* per peer: where its handler is, the *peer it captured, frames it read
  at, target, signals,
  timer,                    \* per device: its lonely timer and callback
  sweep, remaining          \* Close: progress, and its local variable

registry == <<live, slot, readySent, lonely>>
handlers == <<at, target, signals>>
vars == <<live, slot, readySent, lonely, mu, gauge, role, label, out,
          closeReason, at, target, signals, timer, sweep, remaining>>

PeerOrNil == Peer \cup {NoPeer}

(***************************************************************************)
(* Frames.  The peer named in a ready frame ("with") and in a signal        *)
(* ("from") is not on the wire: it says which pairing the frame is about.   *)
(* An offer, answer or candidate is a signal; n numbers its sender's.       *)
(***************************************************************************)
Joined          == [type |-> "joined"]
Bye             == [type |-> "bye"]
\* what a peer of role r gets: only the phone makes the offer
Ready(r, q) == [type |-> "ready", with |-> q, initiator |-> r = Phone]
RemoteJoined(l) == [type |-> "remote_joined", session |-> l]
Signal(p, n)    == [type |-> "signal", from |-> p, n |-> n]

Frame ==
  [type : {"joined", "bye"}]
    \cup [type : {"ready"}, with : Peer, initiator : BOOLEAN]
    \cup [type : {"remote_joined"}, session : Label]
    \cup [type : {"signal"}, from : Peer, n : 1 .. MaxSignals]

CloseReason == {"none", "send buffer full", "replaced", "no receiver"}
Place == {"dialing", "announcing", "replacing", "serving", "relaying",
          "leaving", "gone"}
TimerState == {"off", "armed", "firing", "sending", "closing", "done"}

(***************************************************************************)
(* peer.send and peer.close: a full channel drops the frame and requests    *)
(* the close; closeOnce keeps the first reason.                             *)
(***************************************************************************)
\* mutant: a channel without a capacity
PushAlways(queue, f) == Append(queue, f)
Push(queue, f) == IF Len(queue) < SendBuffer THEN Append(queue, f) ELSE queue

FirstReason(q, why) == IF closeReason[q] = "none" THEN why ELSE closeReason[q]

\* mutant: a frame is dropped and nobody notices
DropSilently(q) == closeReason[q]
CloseIfFull(q) ==
  IF Len(out[q]) < SendBuffer
  THEN closeReason[q] ELSE FirstReason(q, "send buffer full")

\* mutant: a send without a default case
SendBlocks(q, f) ==
  /\ Len(out[q]) < SendBuffer
  /\ out' = [out EXCEPT ![q] = Append(@, f)]
  /\ UNCHANGED closeReason
Send(q, f) ==
  /\ out' = [out EXCEPT ![q] = Push(@, f)]
  /\ closeReason' = [closeReason EXCEPT ![q] = CloseIfFull(q)]

Sid(p) == Lower[label[p]]

\* mutant: any peer in the slot will do
HoldsSomebody(p) == label[p] # NoLabel /\ slot[Sid(p)][role[p]] # NoPeer
\* sess.slot(p.role) == p: the session still points at this exact peer
Holds(p) == label[p] # NoLabel /\ slot[Sid(p)][role[p]] = p

Counterpart(p) == slot[Sid(p)][Other(role[p])]

\* session.stopLonely; Stop has no effect on a callback already started
\* mutant: the handle is cleared, the timer runs on
NotStopped(S) == timer
Stopped(S) ==
  [p \in Peer |-> IF timer[p] = "armed" /\ \E s \in S : lonely[s] = p
                  THEN "off" ELSE timer[p]]

\* mutants: the session stays in the map; it goes and is still counted
KeepEmpty(s, r) == UNCHANGED <<live, gauge>>
DropUncounted(s, r) ==
  /\ live' = IF slot[s][Other(r)] = NoPeer THEN live \ {s} ELSE live
  /\ UNCHANGED gauge
DropIfEmpty(s, r) ==
  IF slot[s][Other(r)] = NoPeer
  THEN live' = live \ {s} /\ gauge' = gauge - 1
  ELSE UNCHANGED <<live, gauge>>

\* mutants: the wrong slot is emptied; readySent is not reset
VacateOther(s, r) ==
  /\ slot' = [slot EXCEPT ![s][Other(r)] = NoPeer]
  /\ lonely' = [lonely EXCEPT ![s] = NoPeer]
  /\ readySent' = [readySent EXCEPT ![s] = FALSE]
  /\ DropIfEmpty(s, r)
VacateStillReady(s, r) ==
  /\ slot' = [slot EXCEPT ![s][r] = NoPeer]
  /\ lonely' = [lonely EXCEPT ![s] = NoPeer]
  /\ UNCHANGED readySent
  /\ DropIfEmpty(s, r)
\* what leave and expireLonely do to the session; expireLonely always drops
\* it, and with it readySent
Vacate(s, r) ==
  /\ slot' = [slot EXCEPT ![s][r] = NoPeer]
  /\ lonely' = [lonely EXCEPT ![s] = NoPeer]
  /\ readySent' = [readySent EXCEPT ![s] = FALSE]
  /\ DropIfEmpty(s, r)

Init ==
  /\ live = {}
  /\ slot = [s \in SessionId |-> [r \in Role |-> NoPeer]]
  /\ readySent = [s \in SessionId |-> FALSE]
  /\ lonely = [s \in SessionId |-> NoPeer]
  /\ mu = NoPeer
  /\ gauge = 0
  /\ role = [p \in Peer |-> "none"]
  /\ label = [p \in Peer |-> NoLabel]
  /\ out = [p \in Peer |-> <<>>]
  /\ closeReason = [p \in Peer |-> "none"]
  /\ at = [p \in Peer |-> "dialing"]
  /\ target = [p \in Peer |-> NoPeer]
  /\ signals = [p \in Peer |-> 0]
  /\ timer = [p \in Peer |-> "off"]
  /\ sweep = "open"
  /\ remaining = 0

-----------------------------------------------------------------------------
(* join *)

\* An empty session id or an unknown role: an error, before the mutex.
JoinRejected(p, r, l) ==
  /\ at[p] = "dialing"
  /\ l = NoLabel \/ r \notin Role
  /\ at' = [at EXCEPT ![p] = "gone"]
  /\ UNCHANGED <<registry, mu, gauge, role, label, out, closeReason, target,
                 signals, timer, sweep, remaining>>

\* mutant: a replacement does not reset readySent
SentBefore(s, r) == readySent[s]
\* readySent after "if replaced != nil { readySent = false }"
StillSent(s, r) == readySent[s] /\ slot[s][r] = NoPeer

\* mutant: ready is sent before joined
JoinedLast(p, s, r) ==
  LET q     == slot[s][Other(r)]
      pairs == q # NoPeer /\ ~StillSent(s, r)
      first == IF pairs THEN Push(out[p], Ready(r, q)) ELSE out[p]
  IN  /\ out' = [x \in Peer |->
            IF x = p THEN Push(first, Joined)
            ELSE IF pairs /\ x = q THEN Push(out[q], Ready(Other(r), p))
            ELSE out[x]]
      /\ closeReason' = [x \in Peer |->
            IF x = p /\ Len(first) >= SendBuffer
            THEN FirstReason(p, "send buffer full")
            ELSE IF x = q /\ pairs THEN CloseIfFull(q)
            ELSE closeReason[x]]
\* The joiner's own channel is new and its writer has not started.
JoinSends(p, s, r) ==
  LET q     == slot[s][Other(r)]
      pairs == q # NoPeer /\ ~StillSent(s, r)
      first == Push(out[p], Joined)
  IN  /\ out' = [x \in Peer |->
            IF x = p THEN IF pairs THEN Push(first, Ready(r, q)) ELSE first
            ELSE IF pairs /\ x = q THEN Push(out[q], Ready(Other(r), p))
            ELSE out[x]]
      /\ closeReason' = [x \in Peer |->
            IF x = p /\ pairs /\ Len(first) >= SendBuffer
            THEN FirstReason(p, "send buffer full")
            ELSE IF x = q /\ pairs THEN CloseIfFull(q)
            ELSE closeReason[x]]

\* The first part of join's critical section: register p, send joined and,
\* when the session becomes complete, ready; set or stop the lonely timer.
JoinRegister(p, r, l) ==
  LET s == Lower[l]
      complete == slot[s][Other(r)] # NoPeer
      waits == ~complete /\ r = Device /\ NoReceiver
  IN  /\ at[p] = "dialing"
      /\ l # NoLabel /\ r \in Role
      /\ mu = NoPeer
      /\ mu' = p
      /\ role' = [role EXCEPT ![p] = r]
      /\ label' = [label EXCEPT ![p] = l]
      /\ live' = live \cup {s}
      /\ gauge' = IF s \in live THEN gauge ELSE gauge + 1
      /\ slot' = [slot EXCEPT ![s][r] = p]
      /\ readySent' = [readySent EXCEPT ![s] = complete \/ StillSent(s, r)]
      /\ JoinSends(p, s, r)
      /\ lonely' = [lonely EXCEPT ![s] = IF complete THEN NoPeer
                                         ELSE IF waits THEN p ELSE @]
      /\ timer' = IF complete THEN Stopped({s})
                  ELSE IF waits THEN [timer EXCEPT ![p] = "armed"]
                  ELSE timer
      /\ target' = [target EXCEPT ![p] = slot[s][r]]
      /\ at' = [at EXCEPT ![p] = "announcing"]
      /\ UNCHANGED <<signals, sweep, remaining>>

Registered == {p \in Peer : \E s \in live, r \in Role : slot[s][r] = p}

\* mutant: the sends of announceJoin have no default case
AnnounceBlocks(told, l) ==
  /\ \A q \in told : Len(out[q]) < SendBuffer
  /\ out' = [q \in Peer |-> IF q \in told THEN Append(out[q], RemoteJoined(l))
                            ELSE out[q]]
  /\ UNCHANGED closeReason
\* announceJoin: a send to each peer of told, also to one that is full.
Announce(told, l) ==
  /\ out' = [q \in Peer |-> IF q \in told THEN Push(out[q], RemoteJoined(l))
                            ELSE out[q]]
  /\ closeReason' = [q \in Peer |-> IF q \in told THEN CloseIfFull(q)
                                    ELSE closeReason[q]]

\* Every other registered peer is told, and the mutex is unlocked.
JoinAnnounce(p) ==
  /\ at[p] = "announcing"
  /\ mu' = NoPeer
  /\ Announce(Registered \ {p}, label[p])
  /\ at' = [at EXCEPT ![p] =
              IF target[p] = NoPeer THEN "serving" ELSE "replacing"]
  /\ UNCHANGED <<registry, gauge, role, label, target, signals, timer, sweep,
                 remaining>>

\* mutant: the displaced peer is forgotten
ForgetReplaced(p) ==
  /\ at[p] = "replacing"
  /\ at' = [at EXCEPT ![p] = "serving"]
  /\ target' = [target EXCEPT ![p] = NoPeer]
  /\ UNCHANGED <<registry, mu, gauge, role, label, out, closeReason, signals,
                 timer, sweep, remaining>>

\* After the unlock: close the peer this one displaced.
CloseReplaced(p) ==
  /\ at[p] = "replacing"
  /\ closeReason' = [closeReason EXCEPT
                       ![target[p]] = FirstReason(target[p], "replaced")]
  /\ at' = [at EXCEPT ![p] = "serving"]
  /\ target' = [target EXCEPT ![p] = NoPeer]
  /\ UNCHANGED <<registry, mu, gauge, role, label, out, signals, timer,
                 sweep, remaining>>

-----------------------------------------------------------------------------
(* forward *)

\* The critical section: read the counterpart.  Without one, or when p no
\* longer holds its slot, the frame is dropped.
Forward(p) ==
  /\ at[p] = "serving"
  /\ mu = NoPeer
  /\ signals[p] < MaxSignals
  /\ signals' = [signals EXCEPT ![p] = @ + 1]
  /\ IF Holds(p) /\ Counterpart(p) # NoPeer
     THEN /\ target' = [target EXCEPT ![p] = Counterpart(p)]
          /\ at' = [at EXCEPT ![p] = "relaying"]
     ELSE UNCHANGED <<target, at>>
  /\ UNCHANGED <<registry, mu, gauge, role, label, out, closeReason, timer,
                 sweep, remaining>>

\* After the unlock: other.send(raw).
ForwardSend(p) ==
  /\ at[p] = "relaying"
  /\ Send(target[p], Signal(p, signals[p]))
  /\ at' = [at EXCEPT ![p] = "serving"]
  /\ target' = [target EXCEPT ![p] = NoPeer]
  /\ UNCHANGED <<registry, mu, gauge, role, label, signals, timer, sweep,
                 remaining>>

-----------------------------------------------------------------------------
(* leave *)

\* The critical section.  A peer that was replaced or expired changes nothing.
\* The writer has ended: what it left in the channel reaches nobody.
Leave(p) ==
  /\ at[p] = "serving"
  /\ mu = NoPeer
  /\ out' = [out EXCEPT ![p] = <<>>]
  /\ IF Holds(p)
     THEN /\ Vacate(Sid(p), role[p])
          /\ timer' = Stopped({Sid(p)})
          /\ target' = [target EXCEPT ![p] = Counterpart(p)]
          /\ at' = [at EXCEPT ![p] = IF Counterpart(p) = NoPeer
                                     THEN "gone" ELSE "leaving"]
     ELSE /\ at' = [at EXCEPT ![p] = "gone"]
          /\ UNCHANGED <<registry, gauge, timer, target>>
  /\ UNCHANGED <<mu, role, label, closeReason, signals, sweep, remaining>>

\* After the unlock: other.send(bye).
LeaveSend(p) ==
  /\ at[p] = "leaving"
  /\ Send(target[p], Bye)
  /\ at' = [at EXCEPT ![p] = "gone"]
  /\ target' = [target EXCEPT ![p] = NoPeer]
  /\ UNCHANGED <<registry, mu, gauge, role, label, signals, timer, sweep,
                 remaining>>

-----------------------------------------------------------------------------
(* the lonely timer *)

\* The runtime starts the callback; it has not taken the mutex yet.
LonelyFires(p) ==
  /\ timer[p] = "armed"
  /\ timer' = [timer EXCEPT ![p] = "firing"]
  /\ UNCHANGED <<registry, mu, gauge, role, label, out, closeReason, handlers,
                 sweep, remaining>>

\* mutants: whichever device is there; the condition on the phone negated
AnyLoneDevice(p) == /\ slot[Sid(p)][Device] # NoPeer
                    /\ slot[Sid(p)][Phone] = NoPeer
PairedDevice(p)  == slot[Sid(p)][Device] = p /\ slot[Sid(p)][Phone] # NoPeer
StillLonely(p) == slot[Sid(p)][Device] = p /\ slot[Sid(p)][Phone] = NoPeer

\* expireLonely's critical section.
ExpireLonely(p) ==
  /\ timer[p] = "firing"
  /\ mu = NoPeer
  /\ IF StillLonely(p)
     THEN /\ Vacate(Sid(p), Device)
          /\ timer' = [timer EXCEPT ![p] = "sending"]
     ELSE /\ timer' = [timer EXCEPT ![p] = "done"]
          /\ UNCHANGED <<registry, gauge>>
  /\ UNCHANGED <<mu, role, label, out, closeReason, handlers, sweep, remaining>>

\* After the unlock: device.send(bye), then device.close.
ExpireSend(p) ==
  /\ timer[p] = "sending"
  /\ Send(p, Bye)
  /\ timer' = [timer EXCEPT ![p] = "closing"]
  /\ UNCHANGED <<registry, mu, gauge, role, label, handlers, sweep, remaining>>

ExpireClose(p) ==
  /\ timer[p] = "closing"
  /\ closeReason' = [closeReason EXCEPT ![p] = FirstReason(p, "no receiver")]
  /\ timer' = [timer EXCEPT ![p] = "done"]
  /\ UNCHANGED <<registry, mu, gauge, role, label, out, handlers, sweep,
                 remaining>>

-----------------------------------------------------------------------------
(* the writer's side of the channel, and Close *)

\* writeLoop or flushAndClose takes the next frame.  The writer starts after
\* join has returned and has ended before leave is called.
Drain(p) ==
  /\ at[p] \in {"serving", "relaying"}
  /\ out[p] # <<>>
  /\ out' = [out EXCEPT ![p] = Tail(@)]
  /\ UNCHANGED <<registry, mu, gauge, role, label, closeReason, handlers,
                 timer, sweep, remaining>>

\* Close's critical section, run once.  Handlers it did not wait for, because
\* they started after wg.Wait returned, may still be using the registry.
CloseSweep ==
  /\ Shutdown
  /\ sweep = "open"
  /\ mu = NoPeer
  /\ remaining' = Cardinality(live)
  /\ timer' = Stopped(live)
  /\ live' = {}
  /\ slot' = [s \in SessionId |-> [r \in Role |-> NoPeer]]
  /\ readySent' = [s \in SessionId |-> FALSE]
  /\ lonely' = [s \in SessionId |-> NoPeer]
  /\ sweep' = "swept"
  /\ UNCHANGED <<mu, gauge, role, label, out, closeReason, handlers>>

\* After the unlock: sessionsActive.Add(-remaining).
CloseGauge ==
  /\ sweep = "swept"
  /\ gauge' = gauge - remaining
  /\ sweep' = "closed"
  /\ UNCHANGED <<registry, mu, role, label, out, closeReason, handlers, timer,
                 remaining>>

-----------------------------------------------------------------------------
\* The role and session id a client may put in its join frame.
RoleInput  == Role \cup {"operator"}
LabelInput == Label \cup {NoLabel}

Handler(p) ==
  \/ \E r \in RoleInput, l \in LabelInput : JoinRejected(p, r, l)
  \/ \E r \in Role, l \in Label : JoinRegister(p, r, l)
  \/ JoinAnnounce(p)
  \/ CloseReplaced(p)
  \/ Forward(p)
  \/ ForwardSend(p)
  \/ Leave(p)
  \/ LeaveSend(p)

LonelyTimer(p) ==
  \/ LonelyFires(p)
  \/ ExpireLonely(p)
  \/ ExpireSend(p)
  \/ ExpireClose(p)

Next ==
  \/ \E p \in Peer : Handler(p) \/ LonelyTimer(p) \/ Drain(p)
  \/ CloseSweep
  \/ CloseGauge

Spec == Init /\ [][Next]_vars

(***************************************************************************)
(* Fairness: a goroutine inside a hub function keeps running, an armed      *)
(* timer fires, and its callback gets the mutex however often others take   *)
(* it (strong fairness: after a millisecond sync.Mutex is handed over).     *)
(* Nothing makes a client join, send, leave or read, or makes anybody call  *)
(* Close.                                                                   *)
(***************************************************************************)
GoroutinesRun(p) ==
  /\ WF_vars(JoinAnnounce(p)) /\ WF_vars(CloseReplaced(p))
  /\ WF_vars(ForwardSend(p)) /\ WF_vars(LeaveSend(p))
  /\ SF_vars(LonelyTimer(p))

Fairness == \A p \in Peer : GoroutinesRun(p)

FairSpec == Spec /\ Fairness

-----------------------------------------------------------------------------
(* Properties *)

\* Types of the variables; a peer's channel never exceeds its capacity.
TypeOK ==
  /\ live \subseteq SessionId
  /\ slot \in [SessionId -> [Role -> PeerOrNil]]
  /\ readySent \in [SessionId -> BOOLEAN]
  /\ lonely \in [SessionId -> PeerOrNil]
  /\ mu \in PeerOrNil
  /\ gauge \in Int
  /\ role \in [Peer -> Role \cup {"none"}]
  /\ label \in [Peer -> Label \cup {NoLabel}]
  /\ out \in [Peer -> Seq(Frame)]
  /\ \A p \in Peer : Len(out[p]) <= SendBuffer
  /\ closeReason \in [Peer -> CloseReason]
  /\ at \in [Peer -> Place]
  /\ target \in [Peer -> PeerOrNil]
  /\ signals \in [Peer -> 0 .. MaxSignals]
  /\ timer \in [Peer -> TimerState]
  /\ sweep \in {"open", "swept", "closed"}
  /\ remaining \in Nat

Inside == {"announcing", "replacing", "serving", "relaying"}

\* A slot names only a peer that joined that session in that role, whose
\* handler is still running and which the lonely timer has not evicted: leave
\* and expireLonely leave no pointer behind, in whatever order joins,
\* replacements, departures and timeouts happened.
NoStalePeer ==
  \A s \in SessionId, r \in Role :
    LET p == slot[s][r]
    IN  p # NoPeer => /\ role[p] = r
                      /\ label[p] # NoLabel
                      /\ Sid(p) = s
                      /\ at[p] \in Inside
                      /\ timer[p] \notin {"sending", "closing"}

\* readySent says exactly that both slots are filled.  A replacement clears
\* it and the pairing sets it again; a departure clears it; a session that is
\* made again after it was dropped starts without it.
ReadySentIffPaired ==
  \A s \in SessionId : readySent[s] <=> \A r \in Role : slot[s][r] # NoPeer

\* The map holds a session exactly while one of its slots is filled, so
\* sessions do not pile up (isEmpty in leave and expireLonely).
NoEmptySession ==
  \A s \in SessionId : s \in live <=> \E r \in Role : slot[s][r] # NoPeer

\* A session's timer handle is that of the device waiting alone in it, and a
\* timer that can still start its callback without a handle to stop it is
\* one of a device that lost its slot.
TimerGuardsLoneDevice ==
  /\ \A s \in SessionId :
       LET d == lonely[s]
       IN  d # NoPeer => /\ slot[s][Device] = d
                         /\ slot[s][Phone] = NoPeer
                         /\ timer[d] \in {"armed", "firing"}
  /\ \A d \in Peer :
       timer[d] = "armed" => lonely[Sid(d)] = d \/ ~Holds(d)

\* sessionsActive counts the sessions in the map; between Close's unlock and
\* its Add(-remaining) it still counts the swept ones, and a late departure
\* from a swept session does not count twice.
GaugeExact ==
  gauge = Cardinality(live) + (IF sweep = "swept" THEN remaining ELSE 0)

\* The map and the gauge know exactly the sessions somebody is in.
SessionsExact == NoEmptySession /\ GaugeExact

IsReady(f, q)  == f.type = "ready" /\ f.with = q
IsSignal(f, q) == f.type = "signal" /\ f.from = q

\* What a client may rely on when it reads its frames in order: joined comes
\* first and once; nothing of q's comes before the ready that pairs it with
\* q; q's signals come in the order q sent them.
FramesInOrder ==
  \A p \in Peer : \A i, j \in DOMAIN out[p] :
    i < j =>
      LET f == out[p][i]
          g == out[p][j]
      IN  /\ g.type # "joined"
          /\ f.type = "signal" =>
               /\ ~IsReady(g, f.from)
               /\ IsSignal(g, f.from) => f.n < g.n

\* A ready frame names a peer of the other role in the same session, and of
\* the two the phone is the initiator, so one side of a pairing offers.
OneInitiator ==
  \A p, q \in Peer : \A i \in DOMAIN out[p] :
    IsReady(out[p][i], q) =>
      /\ role[q] = Other(role[p])
      /\ Sid(q) = Sid(p)
      /\ out[p][i].initiator <=> role[p] = Phone

About(f) == f.type \in {"ready", "bye"}

\* When the last thing queued for p about its pairing is a ready with q, then
\* q is still in its slot, or the goroutine that took q out still owes p a
\* bye, or p is being closed.  (Close sweeps the registry without a word.)
DepartureIsAnnounced ==
  \A p, q \in Peer : \A i \in DOMAIN out[p] :
    /\ IsReady(out[p][i], q)
    /\ \A j \in DOMAIN out[p] : About(out[p][j]) => j <= i
    /\ Holds(p) /\ sweep = "open" /\ closeReason[p] = "none"
    => \/ Holds(q)
       \/ at[q] = "leaving" /\ target[q] = p

\* A handler that is still serving a peer which lost its slot will be ended:
\* the join that displaced it is about to close it, or its timer is, or a
\* close was requested.  (At shutdown its socket is closed instead.)
OrphanIsBeingClosed ==
  \A p \in Peer :
    at[p] \in Inside /\ ~Holds(p) /\ sweep = "open" =>
      \/ closeReason[p] # "none"
      \/ timer[p] \in {"sending", "closing"}
      \/ \E q \in Peer : at[q] \in {"announcing", "replacing"} /\ target[q] = p

\* A peer loses its slot only because it left, because it was a device
\* alone whose timer had fired, because a peer of the same role joined the
\* same session, or because Close swept the registry.
EvictionHasCause ==
  [][\A s \in SessionId, r \in Role :
       LET p == slot[s][r]
           q == slot'[s][r]
       IN  p # NoPeer /\ q # p =>
             \/ at[p] = "serving" /\ at'[p] \in {"leaving", "gone"}
             \/ /\ timer[p] = "firing" /\ timer'[p] = "sending"
                /\ slot[s][Other(r)] = NoPeer
             \/ q # NoPeer /\ at[q] = "dialing" /\ role'[q] = r
             \/ sweep' # sweep]_vars

\* ready is queued for both sides when a join forms a pair, also after a
\* replacement, and at no other time; a side it cannot be queued for is
\* closed.
ReadyWhenPaired ==
  [][\A s \in SessionId :
       LET d == slot'[s][Device]
           h == slot'[s][Phone]
           forms == slot'[s] # slot[s] /\ d # NoPeer /\ h # NoPeer
           queued(p) == Len(out'[p]) > Len(out[p])
           last(p) == out'[p][Len(out'[p])]
           told(p, f) == queued(p) /\ last(p) = f
       IN  IF forms
           THEN /\ told(d, Ready(Device, h)) \/ closeReason'[d] # "none"
                /\ told(h, Ready(Phone, d)) \/ closeReason'[h] # "none"
           ELSE \A p \in {d, h} \ {NoPeer} :
                  queued(p) => last(p).type # "ready"]_vars

\* The timer's goroutine has a step to take: the callback waits for the mutex.
TimerDue(p) ==
  \/ timer[p] \in {"armed", "sending", "closing"}
  \/ timer[p] = "firing" /\ mu = NoPeer

\* "Sending is a buffered channel write, so this cannot block": a goroutine
\* inside a hub function has its next step to take, when it is its turn and
\* only then, whatever the channels hold and whatever the other goroutines do:
\* no slow client, no departed peer and no Close holds up a join, a relayed
\* frame, a bye or a timeout.
NotStuck(p) ==
  /\ at[p] = "announcing" <=> ENABLED <<JoinAnnounce(p)>>_vars
  /\ at[p] = "replacing" <=> ENABLED <<CloseReplaced(p)>>_vars
  /\ at[p] = "relaying" <=> ENABLED <<ForwardSend(p)>>_vars
  /\ at[p] = "leaving" <=> ENABLED <<LeaveSend(p)>>_vars
  /\ TimerDue(p) <=> ENABLED <<LonelyTimer(p)>>_vars

NobodyStuck == \A p \in Peer : NotStuck(p)

\* A device whose timer was set does not wait for ever: a phone comes, or it
\* is closed, or it leaves (expireLonely against a join or a leave that takes
\* the mutex first).
LoneDeviceResolved ==
  \A s \in SessionId, p \in Peer :
    lonely[s] = p
      ~> \/ slot[s][Phone] # NoPeer
         \/ closeReason[p] # "none"
         \/ at[p] = "gone"
         \/ sweep # "open"

-----------------------------------------------------------------------------
(***************************************************************************)
(* Refinement.  A peer is displaced from the step that takes its slot until *)
(* its close is requested; a bye is owed from leave's critical section      *)
(* until it is sent.  The rest is read off the registry.                    *)
(***************************************************************************)
Displaced ==
  LET displacing == {q \in Peer : at[q] \in {"announcing", "replacing"}}
  IN  {p \in Peer : timer[p] \in {"sending", "closing"}}
        \cup ({target[q] : q \in displacing} \ {NoPeer})
Owed == {<<target[q], q>> : q \in {x \in Peer : at[x] = "leaving"}}

Abstract == INSTANCE Pairing WITH
  pair      <- slot,
  agreed    <- {s \in SessionId : readySent[s]},
  used      <- {p \in Peer : at[p] # "dialing"},
  displaced <- Displaced,
  closing   <- {p \in Peer : closeReason[p] # "none"},
  owed      <- Owed,
  open      <- sweep = "open"

\* Whatever the goroutines do, and wherever they are between two critical
\* sections, clients see a registry that pairs, replaces, expires and
\* announces as Pairing says: one place per peer, both told when a pair forms
\* and only then, only lone devices expired, no debt of a bye forgotten or
\* made up, no close request withdrawn.
PairingSafety == Abstract!Safety

\* A partner that was left is told, and a displaced peer is asked to close,
\* although both happen after the mutex was released.
PairingPromises == Abstract!Promises

-----------------------------------------------------------------------------
(* What a document says and the code does not do *)

\* "bye: the other side left, or the no-receiver timeout fired": a peer whose
\* last word about its pairing is bye is not paired.  leave sends bye after it
\* unlocked, so the bye of an old device may follow the ready of a new one.
ByeMeansAlone ==
  \A p \in Peer : \A i \in DOMAIN out[p] :
    /\ out[p][i] = Bye
    /\ \E j \in 1 .. i - 1 : IsReady(out[p][j], Counterpart(p))
    => ~Holds(p)

\* "NoReceiverTimeout is how long a device may wait alone": a device that is
\* alone in its session does not stay so.  A join that forms a pair stops the
\* timer, and a phone that leaves does not set it again.
AloneIsBounded ==
  \A s \in SessionId, d \in Peer :
    slot[s][Device] = d /\ slot[s][Phone] = NoPeer
      ~> \/ slot[s][Device] # d
         \/ slot[s][Phone] # NoPeer
         \/ sweep # "open"
=============================================================================
