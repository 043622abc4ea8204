---------------------------- MODULE HubLiveness ----------------------------
(***************************************************************************)
(* What the registry's goroutines bring to an end, for every set of peers   *)
(* and sessions.  A step that is due is enabled: that is NobodyStuck, which *)
(* speaks of ENABLED, is checked by TLC, and is a hypothesis here.  The     *)
(* rest is proved: that a step that is due stays due until it is taken,     *)
(* that the mutex is given back again and again, and where each chain of    *)
(* steps ends, whatever others do in between.                               *)
(***************************************************************************)
EXTENDS HubRefinement

-----------------------------------------------------------------------------
(* Whose steps move a handler, a timer and the mutex *)

\* The mutex is held, between two steps, by a join that announces.
MutexOK == \A p \in Peer : mu = p <=> at[p] = "announcing"

\* A handler moves by its own steps only.
LEMMA HandlerAlone ==
  ASSUME TypeOK, [Next]_vars, NEW p \in Peer
  PROVE  (at'[p] = at[p] /\ target'[p] = target[p]) \/ Handler(p)
<1>1. ASSUME NEW q \in Peer, q # p, Handler(q)
      PROVE  at'[p] = at[p] /\ target'[p] = target[p]
  BY <1>1 DEF TypeOK, Handler, JoinRejected, JoinRegister, JoinAnnounce, Announce,
              CloseReplaced, Forward, ForwardSend, Leave, LeaveSend
<1>2. ASSUME NEW q \in Peer, LonelyTimer(q) \/ Drain(q)
      PROVE  at'[p] = at[p] /\ target'[p] = target[p]
  BY <1>2 DEF LonelyTimer, LonelyFires, ExpireLonely, ExpireSend, ExpireClose,
              Drain, handlers
<1>3. CASE CloseSweep \/ CloseGauge \/ UNCHANGED vars
  BY <1>3 DEF CloseSweep, CloseGauge, vars, handlers
<1> QED
  BY <1>1, <1>2, <1>3 DEF Next

\* A timer moves by its own steps, is set by the join of its device, and is
\* stopped by others only while its callback has not started.
LEMMA TimerAlone ==
  ASSUME TypeOK, [Next]_vars, NEW p \in Peer
  PROVE  \/ timer'[p] = timer[p]
         \/ LonelyTimer(p)
         \/ timer[p] = "armed" /\ timer'[p] = "off"
         \/ at[p] = "dialing" /\ Handler(p)
<1>1. ASSUME NEW q \in Peer, NEW r \in Role, NEW l \in Label, JoinRegister(q, r, l)
      PROVE  \/ timer'[p] = timer[p]
             \/ timer[p] = "armed" /\ timer'[p] = "off"
             \/ at[p] = "dialing" /\ Handler(p)
  <2>1. CASE q = p
    BY <1>1, <2>1 DEF JoinRegister, Handler
  <2>2. CASE q # p
    <3>1. \/ timer' = Stopped({Lower[l]})
          \/ timer' = [timer EXCEPT ![q] = "armed"]
          \/ timer' = timer
      BY <1>1 DEF JoinRegister
    <3> QED
      BY <2>2, <3>1, StoppedType DEF TypeOK
  <2> QED
    BY <2>1, <2>2
<1>2. ASSUME NEW q \in Peer, Leave(q)
      PROVE  timer'[p] = timer[p] \/ (timer[p] = "armed" /\ timer'[p] = "off")
  <2>1. timer' = timer \/ timer' = Stopped({Sid(q)})
    BY <1>2 DEF Leave
  <2> QED
    BY <2>1, StoppedType
<1>3. ASSUME NEW q \in Peer, q # p, LonelyTimer(q)
      PROVE  timer'[p] = timer[p]
  BY <1>3 DEF LonelyTimer, LonelyFires, ExpireLonely, ExpireSend, ExpireClose,
              TypeOK
<1>4. CASE CloseSweep
  BY <1>4, StoppedType DEF CloseSweep
<1>5. ASSUME NEW q \in Peer, Drain(q)
      PROVE  timer' = timer
  BY <1>5 DEF Drain
<1>6. ASSUME NEW q \in Peer, NEW r, NEW l, JoinRejected(q, r, l)
      PROVE  timer' = timer
  BY <1>6 DEF JoinRejected
<1>7. ASSUME NEW q \in Peer, \/ JoinAnnounce(q) \/ CloseReplaced(q)
                             \/ Forward(q) \/ ForwardSend(q) \/ LeaveSend(q)
      PROVE  timer' = timer
  BY <1>7 DEF JoinAnnounce, Announce, CloseReplaced, Forward, ForwardSend, LeaveSend
<1>8. CASE CloseGauge \/ UNCHANGED vars
  BY <1>8 DEF CloseGauge, vars
<1> QED
  BY <1>1, <1>2, <1>3, <1>4, <1>5, <1>6, <1>7, <1>8 DEF Next, Handler

\* The mutex is taken by a join and given back by its announcement.
LEMMA MutexStep ==
  ASSUME TypeOK, MutexOK, [Next]_vars
  PROVE  MutexOK'
<1>1. \A x \in Peer : x # NoPeer
  BY HubAssumption DEF HubAssumption
<1>2. ASSUME NEW q \in Peer, NEW r \in Role, NEW l \in Label, JoinRegister(q, r, l)
      PROVE  MutexOK'
  BY <1>1, <1>2 DEF JoinRegister, MutexOK, TypeOK
<1>3. ASSUME NEW q \in Peer, JoinAnnounce(q)
      PROVE  MutexOK'
  BY <1>1, <1>3 DEF JoinAnnounce, Announce, MutexOK, TypeOK
<1>4. ASSUME UNCHANGED mu,
             \A x \in Peer : at'[x] = "announcing" <=> at[x] = "announcing"
      PROVE  MutexOK'
  BY <1>4 DEF MutexOK
<1>5. ASSUME NEW q \in Peer, NEW r, NEW l, JoinRejected(q, r, l)
      PROVE  MutexOK'
  BY <1>4, <1>5 DEF JoinRejected, TypeOK
<1>6. ASSUME NEW q \in Peer, \/ CloseReplaced(q) \/ Forward(q)
                             \/ ForwardSend(q) \/ Leave(q) \/ LeaveSend(q)
      PROVE  MutexOK'
  BY <1>4, <1>6
  DEF CloseReplaced, Forward, ForwardSend, Leave, LeaveSend, TypeOK
<1>7. ASSUME NEW q \in Peer, LonelyTimer(q) \/ Drain(q)
      PROVE  MutexOK'
  BY <1>4, <1>7 DEF LonelyTimer, LonelyFires, ExpireLonely, ExpireSend,
                    ExpireClose, Drain, handlers
<1>8. CASE CloseSweep \/ CloseGauge \/ UNCHANGED vars
  BY <1>4, <1>8 DEF CloseSweep, CloseGauge, vars, handlers
<1> QED
  BY <1>2, <1>3, <1>5, <1>6, <1>7, <1>8 DEF Next, Handler

\* The state in which the steps below are taken.
Sound == Handlers /\ RegistryOK /\ MutexOK

LEMMA SoundInvariant == Spec => []Sound
<1>1. Init => MutexOK
  BY HubAssumption DEF Init, MutexOK, HubAssumption
<1>2. Handlers /\ MutexOK /\ [Next]_vars => MutexOK'
  BY MutexStep DEF Handlers
<1> QED
  BY <1>1, <1>2, RegistryInvariant, PTL DEF Spec, Sound

\* What the hypotheses say of one peer's goroutines.
LEMMA FairTo == ASSUME NEW p \in Peer PROVE FairSpec => Spec /\ GoroutinesRun(p)
<1>1. Fairness => GoroutinesRun(p)
  BY DEF Fairness
<1> QED
  BY <1>1, PTL DEF FairSpec

LEMMA NeverStuck == ASSUME NEW p \in Peer PROVE NobodyStuck => NotStuck(p)
BY DEF NobodyStuck

-----------------------------------------------------------------------------
(* The mutex is given back *)

LEMMA MutexKept ==
  ASSUME Sound, NEW p \in Peer, mu = p, [Next]_vars
  PROVE  mu' = p \/ mu' = NoPeer
<1>1. at[p] = "announcing" /\ \A x \in Peer : x # NoPeer
  BY HubAssumption DEF Sound, MutexOK, HubAssumption
<1>2. ASSUME NEW q \in Peer, Handler(q)
      PROVE  mu' = p \/ mu' = NoPeer
  BY <1>1, <1>2 DEF Handler, JoinRejected, JoinRegister, JoinAnnounce, Announce,
                    CloseReplaced, Forward, ForwardSend, Leave, LeaveSend
<1>3. ASSUME NEW q \in Peer, LonelyTimer(q) \/ Drain(q)
      PROVE  mu' = p
  BY <1>3 DEF LonelyTimer, LonelyFires, ExpireLonely, ExpireSend, ExpireClose,
              Drain
<1>4. CASE CloseSweep \/ CloseGauge \/ UNCHANGED vars
  BY <1>4 DEF CloseSweep, CloseGauge, vars
<1> QED
  BY <1>2, <1>3, <1>4 DEF Next

\* A join that announces ends: announceJoin under the mutex (hub.go:202-203).
LEMMA MutexReturned ==
  ASSUME NEW p \in Peer
  PROVE  FairSpec /\ []NobodyStuck => (mu = p ~> mu = NoPeer)
<1>1. Sound /\ mu = p /\ [Next]_vars => (mu = p)' \/ (mu = NoPeer)'
  BY MutexKept
<1>2. <<JoinAnnounce(p)>>_vars => (mu = NoPeer)'
  BY DEF JoinAnnounce, Announce
<1>3. Sound /\ mu = p => at[p] = "announcing"
  BY DEF Sound, MutexOK
<1>f. FairSpec => Spec /\ GoroutinesRun(p)
  BY FairTo
<1>s. NobodyStuck => NotStuck(p)
  BY NeverStuck
<1> QED
  BY <1>1, <1>2, <1>3, <1>f, <1>s, SoundInvariant, PTL
  DEF Spec, GoroutinesRun, NotStuck

\* So whoever waits for the mutex finds it free again and again.
LEMMA MutexFreed == FairSpec /\ []NobodyStuck => []<>(mu = NoPeer)
<1>1. ASSUME NEW p \in Peer
      PROVE  FairSpec /\ []NobodyStuck => [](mu = p => <>(mu = NoPeer))
  <2>1. FairSpec /\ []NobodyStuck => (mu = p ~> mu = NoPeer)
    BY MutexReturned
  <2> QED
    BY <2>1, PTL
<1>2. FairSpec /\ []NobodyStuck => \A p \in Peer : [](mu = p => <>(mu = NoPeer))
  BY <1>1
<1>3. (\A p \in Peer : [](mu = p => <>(mu = NoPeer)))
        => [](\A p \in Peer : (mu = p => <>(mu = NoPeer)))
  OBVIOUS
<1>4. (\A p \in Peer : (mu = p => <>(mu = NoPeer)))
        => (Sound => <>(mu = NoPeer) \/ mu = NoPeer)
  BY DEF Sound, Handlers, TypeOK, PeerOrNil
<1> QED
  BY <1>2, <1>3, <1>4, SoundInvariant, PTL DEF FairSpec

-----------------------------------------------------------------------------
(* Debts are paid *)

\* leave's bye, which it sends after it unlocked (hub.go:248-252).
LEMMA ByeIsSent ==
  ASSUME NEW q \in Peer
  PROVE  FairSpec /\ []NobodyStuck => (at[q] = "leaving" ~> at[q] = "gone")
<1>1. Sound /\ at[q] = "leaving" /\ [Next]_vars
        => (at[q] = "leaving")' \/ (at[q] = "gone")'
  <2> SUFFICES ASSUME Sound, at[q] = "leaving", [Next]_vars
               PROVE  at'[q] = "leaving" \/ at'[q] = "gone"
    OBVIOUS
  <2>1. TypeOK
    BY DEF Sound, Handlers
  <2>2. CASE Handler(q)
    BY <2>1, <2>2 DEF Handler, JoinRejected, JoinRegister, JoinAnnounce, Announce,
                      CloseReplaced, Forward, ForwardSend, Leave, LeaveSend, TypeOK
  <2> QED
    BY <2>1, <2>2, HandlerAlone
<1>2. Sound /\ <<LeaveSend(q)>>_vars => (at[q] = "gone")'
  BY DEF Sound, Handlers, TypeOK, LeaveSend
<1>f. FairSpec => Spec /\ GoroutinesRun(q)
  BY FairTo
<1>s. NobodyStuck => NotStuck(q)
  BY NeverStuck
<1> QED
  BY <1>1, <1>2, <1>f, <1>s, SoundInvariant, PTL
  DEF Spec, GoroutinesRun, NotStuck

\* q is between the registration that displaced p and the close of p.
WillReplace(q, p) == Displacing(q) /\ target[q] = p

\* The close that a join makes after it unlocked (hub.go:205-208).
LEMMA ReplacedIsClosed ==
  ASSUME NEW p \in Peer, NEW q \in Peer
  PROVE  FairSpec /\ []NobodyStuck => (WillReplace(q, p) ~> closeReason[p] # "none")
<1> DEFINE A == at[q] = "announcing" /\ target[q] = p
           R == at[q] = "replacing" /\ target[q] = p
           C == closeReason[p] # "none"
<1>0. Sound => TypeOK
  BY DEF Sound, Handlers
<1>1. Sound /\ A /\ [Next]_vars => A' \/ R'
  <2> SUFFICES ASSUME Sound, A, [Next]_vars PROVE A' \/ R'
    OBVIOUS
  <2>1. CASE Handler(q)
    <3>1. p # NoPeer
      BY HubAssumption DEF HubAssumption
    <3> QED
      BY <1>0, <2>1, <3>1
      DEF Handler, JoinRejected, JoinRegister, JoinAnnounce, Announce, CloseReplaced,
          Forward, ForwardSend, Leave, LeaveSend, TypeOK
  <2> QED
    BY <1>0, <2>1, HandlerAlone
<1>2. Sound /\ A /\ <<JoinAnnounce(q)>>_vars => R'
  <2>1. p # NoPeer
    BY HubAssumption DEF HubAssumption
  <2> QED
    BY <1>0, <2>1 DEF JoinAnnounce, Announce, TypeOK
<1>3. Sound /\ R /\ CloseReplaced(q) => C'
  <2> SUFFICES ASSUME Sound, R, CloseReplaced(q) PROVE closeReason'[p] # "none"
    OBVIOUS
  <2>1. FirstReason(p, "replaced") # "none"
    BY DEF FirstReason
  <2> QED
    BY <1>0, <2>1 DEF CloseReplaced, TypeOK
<1>4. Sound /\ R /\ [Next]_vars => R' \/ C'
  <2> SUFFICES ASSUME Sound, R, [Next]_vars PROVE R' \/ C'
    OBVIOUS
  <2>1. CASE Handler(q)
    <3>1. CloseReplaced(q)
      BY <2>1 DEF Handler, JoinRejected, JoinRegister, JoinAnnounce, Announce, Forward,
                  ForwardSend, Leave, LeaveSend
    <3> QED
      BY <1>3, <3>1
  <2> QED
    BY <1>0, <2>1, HandlerAlone
<1>5. (A => at[q] = "announcing") /\ (R => at[q] = "replacing")
  OBVIOUS
<1>6. WillReplace(q, p) <=> A \/ R
  BY DEF WillReplace, Displacing
<1>7. <<CloseReplaced(q)>>_vars => CloseReplaced(q)
  OBVIOUS
<1>f. FairSpec => Spec /\ GoroutinesRun(q)
  BY FairTo
<1>s. NobodyStuck => NotStuck(q)
  BY NeverStuck
<1> HIDE DEF A, R, C
<1>8. FairSpec /\ []NobodyStuck => (WillReplace(q, p) ~> C)
  BY <1>1, <1>2, <1>3, <1>4, <1>5, <1>6, <1>7, <1>f, <1>s,
     SoundInvariant, PTL
  DEF Spec, GoroutinesRun, NotStuck
<1> QED
  BY <1>8 DEF C

\* The close of a device whose timer has evicted it (hub.go:289-294).
LEMMA EvictedIsClosed ==
  ASSUME NEW p \in Peer
  PROVE  FairSpec /\ []NobodyStuck
           => (timer[p] \in {"sending", "closing"} ~> closeReason[p] # "none")
<1> DEFINE S == timer[p] = "sending"
           K == timer[p] = "closing"
           C == closeReason[p] # "none"
<1>0. Sound => TypeOK
  BY DEF Sound, Handlers
<1>1. Sound /\ S /\ LonelyTimer(p) => K'
  BY <1>0 DEF LonelyTimer, LonelyFires, ExpireLonely, ExpireSend, ExpireClose,
              TypeOK
<1>2. Sound /\ K /\ LonelyTimer(p) => C'
  <2> SUFFICES ASSUME Sound, K, LonelyTimer(p) PROVE closeReason'[p] # "none"
    OBVIOUS
  <2>1. ExpireClose(p)
    BY DEF LonelyTimer, LonelyFires, ExpireLonely, ExpireSend
  <2>2. FirstReason(p, "no receiver") # "none"
    BY DEF FirstReason
  <2> QED
    BY <1>0, <2>1, <2>2 DEF ExpireClose, TypeOK
<1>3. Sound /\ (S \/ K) /\ [Next]_vars => timer'[p] = timer[p] \/ LonelyTimer(p)
  <2>1. Sound /\ at[p] = "dialing" => timer[p] = "off"
    BY DEF Sound, Handlers, HandlersOK
  <2> QED
    BY <1>0, <2>1, TimerAlone
<1>4. Sound /\ S /\ [Next]_vars => S' \/ K'
  BY <1>1, <1>3
<1>5. Sound /\ K /\ [Next]_vars => K' \/ C'
  BY <1>2, <1>3
<1>6. S \/ K => TimerDue(p)
  BY DEF TimerDue
<1>7. <<LonelyTimer(p)>>_vars => LonelyTimer(p)
  OBVIOUS
<1>8. timer[p] \in {"sending", "closing"} <=> S \/ K
  OBVIOUS
<1>f. FairSpec => Spec /\ GoroutinesRun(p)
  BY FairTo
<1>s. NobodyStuck => NotStuck(p)
  BY NeverStuck
<1> HIDE DEF S, K, C
<1>9. FairSpec /\ []NobodyStuck => (timer[p] \in {"sending", "closing"} ~> C)
  BY <1>1, <1>2, <1>4, <1>5, <1>6, <1>7, <1>8, <1>f, <1>s,
     SoundInvariant, PTL
  DEF Spec, GoroutinesRun, NotStuck
<1> QED
  BY <1>9 DEF C

\* Whoever displaced p, p is asked to close: the eventually is the same for
\* every q that may be the one.
LEMMA DisplacedIsClosed ==
  ASSUME NEW p \in Peer
  PROVE  FairSpec /\ []NobodyStuck => (p \in Displaced ~> closeReason[p] # "none")
<1> DEFINE C == closeReason[p] # "none"
<1>1. ASSUME NEW q \in Peer
      PROVE  FairSpec /\ []NobodyStuck => [](WillReplace(q, p) => <>C)
  <2>1. FairSpec /\ []NobodyStuck => (WillReplace(q, p) ~> C)
    BY ReplacedIsClosed
  <2> QED
    BY <2>1, PTL
<1>2. FairSpec /\ []NobodyStuck => \A q \in Peer : [](WillReplace(q, p) => <>C)
  BY <1>1
<1>3. (\A q \in Peer : [](WillReplace(q, p) => <>C))
        => [](\A q \in Peer : (WillReplace(q, p) => <>C))
  OBVIOUS
<1>4. (\A q \in Peer : (WillReplace(q, p) => <>C))
        => ((\E q \in Peer : WillReplace(q, p)) => <>C)
  OBVIOUS
<1>5. p \in Displaced => \/ timer[p] \in {"sending", "closing"}
                         \/ \E q \in Peer : WillReplace(q, p)
  BY DisplacedIs DEF WillReplace
<1>6. FairSpec /\ []NobodyStuck => (timer[p] \in {"sending", "closing"} ~> C)
  BY EvictedIsClosed
<1> HIDE DEF C
<1>7. FairSpec /\ []NobodyStuck => (p \in Displaced ~> C)
  BY <1>2, <1>3, <1>4, <1>5, <1>6, PTL
<1> QED
  BY <1>7 DEF C

\* What the registry still has to do after an unlock, it does: a partner that
\* was left is told, a peer that was displaced is asked to close, among any
\* number of other joins, departures and timeouts.
THEOREM DebtsArePaid == FairSpec /\ []NobodyStuck => PairingPromises
<1> DEFINE Closing == {p \in Peer : closeReason[p] # "none"}
<1>1. ASSUME NEW p \in Peer, NEW q \in Peer
      PROVE  FairSpec /\ []NobodyStuck => (<<p, q>> \in Owed ~> <<p, q>> \notin Owed)
  <2>1. <<p, q>> \in Owed => at[q] = "leaving"
    BY DEF Owed
  <2>2. at[q] = "gone" => <<p, q>> \notin Owed
    BY DEF Owed
  <2>3. FairSpec /\ []NobodyStuck => (at[q] = "leaving" ~> at[q] = "gone")
    BY ByeIsSent
  <2> QED
    BY <2>1, <2>2, <2>3, PTL
<1>2. ASSUME NEW p \in Peer
      PROVE  FairSpec /\ []NobodyStuck => (p \in Displaced ~> p \in Closing)
  <2>1. closeReason[p] # "none" => p \in Closing
    OBVIOUS
  <2>2. FairSpec /\ []NobodyStuck => (p \in Displaced ~> closeReason[p] # "none")
    BY DisplacedIsClosed
  <2> HIDE DEF Closing
  <2> QED
    BY <2>1, <2>2, PTL
<1>3. FairSpec /\ []NobodyStuck
        => \A p, q \in Peer : (<<p, q>> \in Owed ~> <<p, q>> \notin Owed)
  BY <1>1
<1>4. FairSpec /\ []NobodyStuck
        => \A p \in Peer : (p \in Displaced ~> p \in Closing)
  <2> HIDE DEF Closing
  <2> QED
    BY <1>2
<1> QED
  BY <1>3, <1>4 DEF PairingPromises, Abstract!Promises

-----------------------------------------------------------------------------
(* A timed device *)

\* What LoneDeviceResolved promises a device whose timer was set.
Resolved(s, d) ==
  \/ slot[s][Phone] # NoPeer
  \/ closeReason[d] # "none"
  \/ at[d] = "gone"
  \/ sweep # "open"

\* The device keeps its timer handle until a phone comes, it leaves or is
\* displaced, or Close sweeps the registry.
LEMMA WaitingStep ==
  ASSUME Sound, Sound', [Next]_vars,
         NEW s \in SessionId, NEW d \in Peer, lonely[s] = d
  PROVE  lonely'[s] = d \/ Resolved(s, d)' \/ d \in Displaced'
<1>1. TypeOK /\ Handlers /\ RegistryOK /\ TypeOK'
  BY DEF Sound, Handlers
<1>2. \A x \in Peer : x # NoPeer
  BY HubAssumption DEF HubAssumption
<1>3. slot[s][Device] = d /\ slot[s][Phone] = NoPeer
  BY <1>1, <1>2 DEF RegistryOK, TimerGuardsLoneDevice
<1>4. /\ Device \in Role /\ Phone \in Role /\ Device # Phone
      /\ Other(Device) = Phone /\ Other(Phone) = Device
  BY DEF Role, Device, Phone, Other
<1>5. (\E q \in Peer : Displacing(q)' /\ target'[q] = d) => d \in Displaced'
  BY <1>2 DEF Displaced, Displacing
<1>6. timer'[d] \in {"sending", "closing"} => d \in Displaced'
  BY DEF Displaced
<1>7. ASSUME NEW q \in Peer, NEW r \in Role, NEW l \in Label, JoinRegister(q, r, l)
      PROVE  lonely'[s] = d \/ Resolved(s, d)' \/ d \in Displaced'
  <2>1. CASE Lower[l] # s
    BY <1>1, <1>7, <2>1, HubAssumption DEF JoinRegister, TypeOK, HubAssumption
  <2>2. CASE Lower[l] = s /\ r = Phone
    <3>1. slot' = [slot EXCEPT ![s][Phone] = q]
      BY <1>7, <2>2 DEF JoinRegister
    <3> QED
      BY <1>1, <1>2, <1>4, <3>1 DEF Resolved, TypeOK
  <2>3. CASE Lower[l] = s /\ r = Device
    <3>1. target' = [target EXCEPT ![q] = d] /\ at' = [at EXCEPT ![q] = "announcing"]
      BY <1>3, <1>7, <2>3 DEF JoinRegister
    <3> QED
      BY <1>1, <1>5, <3>1 DEF Displacing, TypeOK
  <2> QED
    BY <2>1, <2>2, <2>3 DEF Role
<1>8. ASSUME NEW q \in Peer, Leave(q)
      PROVE  lonely'[s] = d \/ Resolved(s, d)' \/ d \in Displaced'
  <2>1. CASE Holds(q) /\ Sid(q) = s
    <3>1. role[q] \in Role /\ slot[s][role[q]] = q
      BY <1>1, <1>8, <2>1 DEF Leave, Handlers, HandlersOK, Holds
    <3>2. role[q] = Device /\ q = d
      BY <1>2, <1>3, <3>1 DEF Role
    <3>3. at'[d] = "gone"
      BY <1>1, <1>3, <1>4, <1>8, <2>1, <3>2 DEF Leave, Counterpart, TypeOK
    <3> QED
      BY <3>3 DEF Resolved
  <2>2. CASE Holds(q) /\ Sid(q) # s
    BY <1>1, <1>8, <2>2 DEF Leave, Vacate, TypeOK
  <2>3. CASE ~Holds(q)
    BY <1>8, <2>3 DEF Leave, registry
  <2> QED
    BY <2>1, <2>2, <2>3
<1>9. ASSUME NEW q \in Peer, ExpireLonely(q)
      PROVE  lonely'[s] = d \/ Resolved(s, d)' \/ d \in Displaced'
  <2>1. CASE StillLonely(q) /\ Sid(q) = s
    <3>1. q = d
      BY <1>3, <2>1 DEF StillLonely
    <3>2. timer'[d] = "sending"
      BY <1>1, <1>9, <2>1, <3>1 DEF ExpireLonely, TypeOK
    <3> QED
      BY <1>6, <3>2
  <2>2. CASE StillLonely(q) /\ Sid(q) # s
    BY <1>1, <1>9, <2>2 DEF ExpireLonely, Vacate, TypeOK
  <2>3. CASE ~StillLonely(q)
    BY <1>9, <2>3 DEF ExpireLonely, registry
  <2> QED
    BY <2>1, <2>2, <2>3
<1>10. CASE CloseSweep
  BY <1>10 DEF CloseSweep, Resolved
<1>11. ASSUME NEW q \in Peer, NEW r, NEW l, JoinRejected(q, r, l)
       PROVE  lonely'[s] = d
  BY <1>11 DEF JoinRejected, registry
<1>12. ASSUME NEW q \in Peer,
              \/ JoinAnnounce(q) \/ CloseReplaced(q) \/ Forward(q)
              \/ ForwardSend(q) \/ LeaveSend(q) \/ LonelyFires(q)
              \/ ExpireSend(q) \/ ExpireClose(q) \/ Drain(q)
       PROVE  lonely'[s] = d
  BY <1>12 DEF JoinAnnounce, Announce, CloseReplaced, Forward, ForwardSend, LeaveSend,
               LonelyFires, ExpireSend, ExpireClose, Drain, registry
<1>13. CASE CloseGauge \/ UNCHANGED vars
  BY <1>13 DEF CloseGauge, vars, registry
<1> QED
  BY <1>7, <1>8, <1>9, <1>10, <1>11, <1>12, <1>13 DEF Next, Handler, LonelyTimer

\* A timer that is waited for goes off, its callback gets the mutex, and the
\* device it evicts is closed, unless something else resolves the wait first.
LEMMA DeviceResolved ==
  ASSUME NEW s \in SessionId, NEW p \in Peer
  PROVE  FairSpec /\ []NobodyStuck => (lonely[s] = p ~> Resolved(s, p))
<1>9. FairSpec /\ []NobodyStuck => (p \in Displaced ~> closeReason[p] # "none")
  BY DisplacedIsClosed
<1> DEFINE L == lonely[s] = p
           A == L /\ timer[p] = "armed"
           F == L /\ timer[p] = "firing"
           D == p \in Displaced
           R == Resolved(s, p)
<1>0. Sound => TypeOK /\ RegistryOK /\ p # NoPeer
  BY HubAssumption DEF Sound, Handlers, HubAssumption
<1>1. Sound /\ L => A \/ F
  BY <1>0 DEF RegistryOK, TimerGuardsLoneDevice
<1>2. Sound /\ Sound' /\ L /\ [Next]_vars => L' \/ R' \/ D'
  BY WaitingStep
<1>3. Sound /\ A /\ LonelyTimer(p) => F'
  BY <1>0 DEF LonelyTimer, LonelyFires, ExpireLonely, ExpireSend, ExpireClose,
              registry, TypeOK
<1>4. Sound /\ F /\ LonelyTimer(p) => D'
  <2> SUFFICES ASSUME Sound, F, LonelyTimer(p) PROVE p \in Displaced'
    OBVIOUS
  <2>1. ExpireLonely(p)
    BY DEF LonelyTimer, LonelyFires, ExpireSend, ExpireClose
  <2>2. slot[s][Device] = p /\ slot[s][Phone] = NoPeer
    BY <1>0 DEF RegistryOK, TimerGuardsLoneDevice
  <2>3. Sid(p) = s
    BY <1>0, <2>2 DEF RegistryOK, NoStalePeer, Role
  <2>4. timer'[p] = "sending"
    BY <1>0, <2>1, <2>2, <2>3 DEF ExpireLonely, StillLonely, TypeOK
  <2> QED
    BY <2>4 DEF Displaced
<1>5. Sound /\ Sound' /\ F /\ [Next]_vars => F' \/ R' \/ D'
  <2>1. Sound /\ F /\ [Next]_vars => timer'[p] # "armed" \/ D'
    <3>1. Sound => (at[p] = "dialing" => timer[p] = "off")
      BY DEF Sound, Handlers, HandlersOK
    <3> QED
      BY <1>0, <1>4, <3>1, TimerAlone
  <2>2. Sound' /\ L' => A' \/ F'
    <3>1. Sound' => RegistryOK' /\ p # NoPeer
      BY HubAssumption DEF Sound, HubAssumption
    <3> QED
      BY <3>1 DEF RegistryOK, TimerGuardsLoneDevice
  <2> QED
    BY <1>2, <2>1, <2>2
<1>6. Sound' /\ L' => A' \/ F'
  <2>1. Sound' => RegistryOK' /\ p # NoPeer
    BY HubAssumption DEF Sound, HubAssumption
  <2> QED
    BY <2>1 DEF RegistryOK, TimerGuardsLoneDevice
<1>7. /\ A => TimerDue(p)
      /\ F /\ mu = NoPeer => TimerDue(p)
  BY DEF TimerDue
<1>8. <<LonelyTimer(p)>>_vars => LonelyTimer(p)
  OBVIOUS
<1>12. D => p \in Displaced
  OBVIOUS
<1>10. closeReason[p] # "none" => R
  BY DEF Resolved
<1>f. FairSpec => Spec /\ GoroutinesRun(p)
  BY FairTo
<1>s. NobodyStuck => NotStuck(p)
  BY NeverStuck
<1> HIDE DEF L, A, F, D, R
<1>11. FairSpec /\ []NobodyStuck => (L ~> R)
  BY <1>1, <1>2, <1>3, <1>4, <1>5, <1>6, <1>7, <1>8, <1>9, <1>10, <1>12, <1>f,
     <1>s, MutexFreed, SoundInvariant, PTL
  DEF Spec, GoroutinesRun, NotStuck
<1> QED
  BY <1>11 DEF L, R

\* A device with a timer does not wait for ever, however many joins and
\* departures take the mutex before the callback does (hub.go:198, 276-294).
THEOREM LoneDevicesResolved == FairSpec /\ []NobodyStuck => LoneDeviceResolved
<1>1. ASSUME NEW s \in SessionId, NEW p \in Peer
      PROVE  FairSpec /\ []NobodyStuck => (lonely[s] = p ~> Resolved(s, p))
  BY DeviceResolved
<1>2. FairSpec /\ []NobodyStuck
        => \A s \in SessionId, p \in Peer : (lonely[s] = p ~> Resolved(s, p))
  BY <1>1
<1> QED
  BY <1>2 DEF LoneDeviceResolved, Resolved
=============================================================================
