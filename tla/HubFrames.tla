----------------------------- MODULE HubFrames -----------------------------
(***************************************************************************)
(* What a client may rely on when it reads its frames in order.  Every      *)
(* step treats every channel in one of a few ways (OutChange): nothing      *)
(* happens to it, its head is taken, it is abandoned, one frame is appended *)
(* by a sender that is known, or it is the new channel of a peer that is    *)
(* joining.  The invariants follow from that and from what a queued frame   *)
(* knows about the peer it names (FramesKnow).                              *)
(***************************************************************************)
EXTENDS HubProofs

\* q has sent its nth signal, and is not about to send it.
SentBy(q, n) == n <= signals[q] /\ (at[q] = "relaying" => n < signals[q])

\* What a queued frame says of the peer it names.
Known(f) ==
  /\ f.type = "ready" => at[f.with] # "dialing"
  /\ f.type = "signal" => at[f.from] # "dialing" /\ SentBy(f.from, f.n)

\* The channel of a peer that has not joined is new, nobody has captured the
\* peer, and no frame names it; one that has a session has a role.
FramesKnow ==
  \A p \in Peer :
    /\ label[p] # NoLabel => role[p] \in Role
    /\ at[p] = "dialing" => out[p] = <<>> /\ signals[p] = 0
    /\ target[p] # NoPeer => at[target[p]] # "dialing"
    /\ \A i \in DOMAIN out[p], f \in Frame : out[p][i] = f => Known(f)

\* x and q hold the two places of one session after the step.
Matched(x, q) ==
  /\ role'[x] \in Role /\ role'[q] = Other(role'[x])
  /\ Lower[label'[x]] = Lower[label'[q]]
  /\ slot'[Lower[label'[q]]][role'[q]] = q
  /\ label'[q] # NoLabel
  /\ at'[x] # "dialing" /\ at'[q] # "dialing"

\* f is what some goroutine sends to x in this step.
Sent(x, f) ==
  \/ f = Bye
  \/ \E l \in Label : f = RemoteJoined(l)
  \/ \E q \in Peer : /\ f = Ready(role'[x], q)
                     /\ at[q] = "dialing" /\ Matched(x, q)
  \/ \E q \in Peer : /\ f = Signal(q, signals[q])
                     /\ at[q] = "relaying" /\ at'[q] = "serving"
                     /\ signals'[q] = signals[q]

OutChange(x) ==
  \/ out'[x] = out[x]
  \/ out'[x] = <<>>
  \/ out[x] # <<>> /\ out'[x] = Tail(out[x])
  \/ /\ at[x] # "dialing"
     /\ \E f \in Frame : Sent(x, f) /\ out'[x] = Append(out[x], f)
  \/ /\ at[x] = "dialing" /\ at'[x] = "announcing"
     /\ \/ out'[x] = <<Joined>>
        \/ \E q \in Peer : /\ out'[x] = <<Joined, Ready(role'[x], q)>>
                           /\ at[q] # "dialing" /\ Matched(x, q)

-----------------------------------------------------------------------------
(* What a step does to a handler and to a channel *)

LEMMA PushOrNot ==
  ASSUME NEW queue, NEW f
  PROVE  Push(queue, f) \in {queue, Append(queue, f)}
BY DEF Push

LEMMA SecondOrNot ==
  ASSUME NEW e \in Frame, NEW f \in Frame
  PROVE  Push(<<e>>, f) \in {<<e>>, <<e, f>>}
<1>1. Append(<<e>>, f) = <<e, f>>
  <2>1. /\ <<e>> \in Seq(Frame) /\ <<e, f>> \in Seq(Frame)
        /\ Len(<<e>>) = 1 /\ Len(<<e, f>>) = 2
    OBVIOUS
  <2>2. /\ Append(<<e>>, f) \in Seq(Frame) /\ Len(Append(<<e>>, f)) = 2
        /\ Append(<<e>>, f)[1] = e /\ Append(<<e>>, f)[2] = f
    BY <2>1, AppendProperties
  <2> QED
    <3>1. \A i \in 1 .. 2 : Append(<<e>>, f)[i] = <<e, f>>[i]
      BY <2>2
    <3> QED
      BY <2>1, <2>2, <3>1, SeqEqual
<1> QED
  BY <1>1, PushOrNot

\* A peer that has joined keeps its name, and sends its signals in order.
Steady(x) ==
  /\ at[x] # "dialing" => /\ at'[x] # "dialing" /\ role'[x] = role[x]
                          /\ label'[x] = label[x]
                          /\ \A n \in Nat : SentBy(x, n) => SentBy(x, n)'
  /\ at'[x] = "dialing" => signals'[x] = signals[x]
  /\ label'[x] # label[x] => role'[x] \in Role

LEMMA HandlerSteady ==
  ASSUME Handlers, Handlers', [Next]_vars, NEW x \in Peer
  PROVE  Steady(x)
<1> USE DEF Handlers
<1>0. signals[x] \in Nat /\ signals'[x] \in Nat
  BY HubAssumption DEF TypeOK, HubAssumption
<1>1. ASSUME UNCHANGED <<at, role, label, signals>>
      PROVE  Steady(x)
  BY <1>1 DEF Steady, SentBy
<1>2. ASSUME NEW p \in Peer, UNCHANGED <<role, label, signals>>, at[p] # "dialing",
             NEW a \in Place \ {"dialing", "relaying"}, at' = [at EXCEPT ![p] = a],
             at[p] # "relaying"
      PROVE  Steady(x)
  BY <1>2 DEF Steady, SentBy, TypeOK
<1>3. ASSUME NEW p \in Peer, NEW r \in RoleInput, NEW l \in LabelInput,
             JoinRejected(p, r, l)
      PROVE  Steady(x)
  BY <1>3 DEF JoinRejected, Steady, SentBy, TypeOK
<1>4. ASSUME NEW p \in Peer, NEW r \in Role, NEW l \in Label, JoinRegister(p, r, l)
      PROVE  Steady(x)
  BY <1>4 DEF JoinRegister, Steady, SentBy, TypeOK
<1>5. ASSUME NEW p \in Peer, \/ JoinAnnounce(p) \/ CloseReplaced(p)
                             \/ Leave(p) \/ LeaveSend(p)
      PROVE  Steady(x)
  <2>1. /\ UNCHANGED <<role, label, signals>>
        /\ at[p] \notin {"dialing", "relaying"}
        /\ \E a \in {"serving", "replacing", "leaving", "gone"} :
             at' = [at EXCEPT ![p] = a]
    BY <1>5 DEF JoinAnnounce, Announce, CloseReplaced, Leave, LeaveSend
  <2> QED
    BY <2>1, <1>2 DEF Place
<1>6. ASSUME NEW p \in Peer, Forward(p)
      PROVE  Steady(x)
  <2>1. /\ UNCHANGED <<role, label>>
        /\ signals' = [signals EXCEPT ![p] = @ + 1]
        /\ at[p] = "serving"
        /\ at' \in {at, [at EXCEPT ![p] = "relaying"]}
    BY <1>6 DEF Forward
  <2> QED
    BY <2>1, <1>0 DEF Steady, SentBy, TypeOK
<1>7. ASSUME NEW p \in Peer, ForwardSend(p)
      PROVE  Steady(x)
  BY <1>7, <1>0 DEF ForwardSend, Steady, SentBy, TypeOK
<1>8. ASSUME NEW p \in Peer, LonelyTimer(p) \/ Drain(p)
      PROVE  Steady(x)
  BY <1>8, <1>1
  DEF LonelyTimer, LonelyFires, ExpireLonely, ExpireSend, ExpireClose, Drain,
      handlers
<1>9. CASE CloseSweep \/ CloseGauge \/ UNCHANGED vars
  BY <1>9, <1>1 DEF CloseSweep, CloseGauge, handlers, vars
<1> QED
  BY <1>3, <1>4, <1>5, <1>6, <1>7, <1>8, <1>9 DEF Next, Handler

\* A frame goes to a peer that has joined.
LEMMA SendChange ==
  ASSUME Handlers, NEW q \in Peer, at[q] # "dialing", NEW f \in Frame,
         Send(q, f), Sent(q, f), NEW x \in Peer
  PROVE  OutChange(x)
<1>1. out' = [out EXCEPT ![q] = Push(out[q], f)]
  BY DEF Send
<1>2. Push(out[q], f) \in {out[q], Append(out[q], f)}
  BY PushOrNot
<1>3. CASE x = q
  BY <1>1, <1>2, <1>3 DEF OutChange, Handlers, TypeOK
<1>4. CASE x # q
  BY <1>1, <1>4 DEF OutChange, Handlers, TypeOK
<1> QED
  BY <1>3, <1>4

\* join: the joiner's channel is new, and its partner's gets a ready.
LEMMA JoinChange ==
  ASSUME Handlers, RegistryOK, FramesKnow, NEW p \in Peer, NEW r \in Role,
         NEW l \in Label, JoinRegister(p, r, l), NEW x \in Peer
  PROVE  OutChange(x)
<1> USE DEF Handlers
<1> DEFINE s == Lower[l]
           q == slot[s][Other(r)]
           pairs == q # NoPeer /\ ~StillSent(s, r)
<1>1. s \in SessionId /\ Other(r) \in Role /\ Other(r) # r /\ Other(Other(r)) = r
  BY HubAssumption DEF HubAssumption, Other, Role, Device, Phone
<1>2. /\ at[p] = "dialing" /\ at'[p] = "announcing" /\ out[p] = <<>>
      /\ role'[p] = r /\ label'[p] = l /\ label'[p] # NoLabel
      /\ slot'[s][r] = p
      /\ \A y \in Peer : y # p => at'[y] = at[y] /\ role'[y] = role[y]
                                  /\ label'[y] = label[y]
  BY <1>1, HubAssumption DEF JoinRegister, FramesKnow, TypeOK, HubAssumption
<1>3. Push(<<>>, Joined) = <<Joined>>
  BY HubAssumption DEF Push, HubAssumption
<1>4. pairs => Push(<<Joined>>, Ready(r, q))
                 \in {<<Joined>>, <<Joined, Ready(r, q)>>}
  <2>1. pairs => q \in Peer
    BY <1>1 DEF TypeOK, PeerOrNil
  <2> QED
    BY <2>1, FrameTypes, SecondOrNot
<1>5. out' = [y \in Peer |->
            IF y = p THEN IF pairs THEN Push(<<Joined>>, Ready(r, q)) ELSE <<Joined>>
            ELSE IF pairs /\ y = q THEN Push(out[q], Ready(Other(r), p))
            ELSE out[y]]
  BY <1>2, <1>3 DEF JoinRegister, JoinSends
<1>6. pairs => /\ q \in Peer /\ q # p /\ at[q] # "dialing"
               /\ Matched(p, q) /\ Matched(q, p)
  <2> SUFFICES ASSUME pairs PROVE /\ q \in Peer /\ q # p /\ at[q] # "dialing"
                                  /\ Matched(p, q) /\ Matched(q, p)
    OBVIOUS
  <2>1. /\ q \in Peer /\ role[q] = Other(r) /\ Sid(q) = s /\ at[q] \in Inside
        /\ label[q] # NoLabel
    BY <1>1, SlotOf
  <2>2. q # p /\ at[q] # "dialing" /\ at'[q] # "dialing" /\ at'[p] # "dialing"
    BY <1>2, <2>1 DEF Inside
  <2>3. role'[q] = Other(r) /\ label'[q] = label[q] /\ Lower[label'[q]] = s
    BY <1>2, <2>1, <2>2 DEF Sid
  <2>4. slot'[s][Other(r)] = q
    BY <1>1 DEF JoinRegister, TypeOK
  <2> QED
    BY <1>1, <1>2, <2>1, <2>2, <2>3, <2>4 DEF Matched
<1>7. CASE x = p
  BY <1>2, <1>4, <1>5, <1>6, <1>7 DEF OutChange
<1>8. CASE pairs /\ x = q
  <2>1. /\ Ready(Other(r), p) \in Frame
        /\ Push(out[q], Ready(Other(r), p))
             \in {out[q], Append(out[q], Ready(Other(r), p))}
    BY <1>1, FrameTypes, PushOrNot
  <2>2. role'[q] = Other(r) /\ Sent(q, Ready(Other(r), p))
    BY <1>1, <1>2, <1>6, <1>8 DEF Sent, Matched
  <2> QED
    BY <1>5, <1>6, <1>8, <2>1, <2>2 DEF OutChange
<1>9. CASE x # p /\ ~(pairs /\ x = q)
  BY <1>5, <1>9 DEF OutChange
<1> QED
  BY <1>7, <1>8, <1>9

\* What a step does to a channel.
LEMMA ChannelChange ==
  ASSUME Handlers, RegistryOK, FramesKnow, [Next]_vars, NEW x \in Peer
  PROVE  OutChange(x)
<1> USE DEF Handlers
<1>1. ASSUME UNCHANGED out
      PROVE  OutChange(x)
  BY <1>1 DEF OutChange
<1>2. ASSUME NEW p \in Peer, NEW r \in Role, NEW l \in Label, JoinRegister(p, r, l)
      PROVE  OutChange(x)
  BY <1>2, JoinChange
<1>3. ASSUME NEW p \in Peer, JoinAnnounce(p)
      PROVE  OutChange(x)
  <2> DEFINE f == RemoteJoined(label[p])
  <2>1. label[p] \in Label /\ f \in Frame /\ Sent(x, f)
    BY <1>3, FrameTypes DEF JoinAnnounce, Announce, HandlersOK, Sent
  <2>2. ASSUME x \in Registered PROVE at[x] # "dialing"
    <3>1. PICK s \in live, r \in Role : slot[s][r] = x
      BY <2>2 DEF Registered
    <3>2. s \in SessionId /\ x # NoPeer
      BY HubAssumption DEF TypeOK, HubAssumption
    <3> QED
      BY <3>1, <3>2, SlotOf DEF Inside
  <2>3. out'[x] \in {out[x], Push(out[x], f)} /\ (out'[x] = out[x] \/ x \in Registered)
    BY <1>3 DEF JoinAnnounce, Announce
  <2>4. Push(out[x], f) \in {out[x], Append(out[x], f)}
    BY PushOrNot
  <2> QED
    BY <2>1, <2>2, <2>3, <2>4 DEF OutChange
<1>4. ASSUME NEW p \in Peer, ForwardSend(p)
      PROVE  OutChange(x)
  <2>1. /\ target[p] \in Peer /\ at[target[p]] # "dialing"
        /\ Signal(p, signals[p]) \in Frame
    BY <1>4, FrameTypes, HubAssumption
    DEF ForwardSend, HandlersOK, FramesKnow, HubAssumption
  <2>2. Sent(target[p], Signal(p, signals[p]))
    BY <1>4 DEF ForwardSend, Sent, TypeOK
  <2> QED
    BY <1>4, <2>1, <2>2, SendChange DEF ForwardSend
<1>5. ASSUME NEW p \in Peer, LeaveSend(p)
      PROVE  OutChange(x)
  <2>1. target[p] \in Peer /\ at[target[p]] # "dialing" /\ Bye \in Frame
    BY <1>5, FrameTypes, HubAssumption
    DEF LeaveSend, HandlersOK, FramesKnow, HubAssumption
  <2> QED
    BY <1>5, <2>1, SendChange DEF LeaveSend, Sent
<1>6. ASSUME NEW p \in Peer, ExpireSend(p)
      PROVE  OutChange(x)
  <2>1. at[p] # "dialing" /\ Bye \in Frame
    BY <1>6, FrameTypes DEF ExpireSend, HandlersOK
  <2> QED
    BY <1>6, <2>1, SendChange DEF ExpireSend, Sent
<1>7. ASSUME NEW p \in Peer, Leave(p) \/ Drain(p)
      PROVE  OutChange(x)
  BY <1>7 DEF Leave, Drain, OutChange, TypeOK
<1>8. ASSUME NEW p \in Peer, NEW r \in RoleInput, NEW l \in LabelInput,
             JoinRejected(p, r, l)
      PROVE  OutChange(x)
  BY <1>1, <1>8 DEF JoinRejected
<1>9. ASSUME NEW p \in Peer, \/ CloseReplaced(p) \/ Forward(p) \/ LonelyFires(p)
                             \/ ExpireLonely(p) \/ ExpireClose(p)
      PROVE  OutChange(x)
  BY <1>1, <1>9 DEF CloseReplaced, Forward, LonelyFires, ExpireLonely, ExpireClose
<1>10. CASE CloseSweep \/ CloseGauge \/ UNCHANGED vars
  BY <1>1, <1>10 DEF CloseSweep, CloseGauge, vars
<1> QED
  BY <1>2, <1>3, <1>4, <1>5, <1>6, <1>7, <1>8, <1>9, <1>10
  DEF Next, Handler, LonelyTimer

-----------------------------------------------------------------------------
(* Frames, old and new *)

\* The fields of a frame.
LEMMA FrameFields ==
  ASSUME NEW f \in Frame
  PROVE  /\ f.type = "ready" => f.with \in Peer
         /\ f.type = "signal" => f.from \in Peer /\ f.n \in 1 .. MaxSignals
BY DEF Frame

\* What the four kinds of frame that are sent look like.
LEMMA SentFields ==
  ASSUME NEW x \in Peer, NEW f, Sent(x, f)
  PROVE  /\ f.type \in {"bye", "remote_joined", "ready", "signal"}
         /\ f.type = "ready" =>
              /\ f.with \in Peer /\ at[f.with] = "dialing" /\ Matched(x, f.with)
              /\ f.initiator <=> role'[x] = Phone
         /\ f.type = "signal" =>
              /\ f.from \in Peer /\ at[f.from] = "relaying" /\ f.n = signals[f.from]
              /\ at'[f.from] = "serving" /\ signals'[f.from] = signals[f.from]
<1>1. CASE f = Bye \/ \E l \in Label : f = RemoteJoined(l)
  BY <1>1 DEF Bye, RemoteJoined
<1>2. ASSUME NEW q \in Peer, f = Ready(role'[x], q), at[q] = "dialing", Matched(x, q)
      PROVE  /\ f.type = "ready" /\ f.with = q
             /\ f.initiator <=> role'[x] = Phone
  BY <1>2 DEF Ready
<1>3. ASSUME NEW q \in Peer, f = Signal(q, signals[q])
      PROVE  f.type = "signal" /\ f.from = q /\ f.n = signals[q]
  BY <1>3 DEF Signal
<1> QED
  BY <1>1, <1>2, <1>3 DEF Sent

LEMMA KnownStays ==
  ASSUME Handlers, Handlers', [Next]_vars, NEW f \in Frame, Known(f)
  PROVE  Known(f)'
<1>1. \A y \in Peer : Steady(y)
  BY HandlerSteady
<1>2. f.type = "ready" => at'[f.with] # "dialing"
  BY <1>1, FrameFields DEF Known, Steady
<1>3. f.type = "signal" => at'[f.from] # "dialing" /\ SentBy(f.from, f.n)'
  <2> SUFFICES ASSUME f.type = "signal"
               PROVE  at'[f.from] # "dialing" /\ SentBy(f.from, f.n)'
    OBVIOUS
  <2>1. f.from \in Peer /\ f.n \in Nat
    BY FrameFields, HubAssumption DEF HubAssumption
  <2>2. PICK y \in Peer, n \in Nat : y = f.from /\ n = f.n
    BY <2>1
  <2> QED
    BY <1>1, <2>2 DEF Known, Steady
<1> QED
  BY <1>2, <1>3 DEF Known

LEMMA NewKnown ==
  ASSUME Handlers, NEW x \in Peer, NEW f, Sent(x, f)
  PROVE  Known(f)'
<1>1. f.type = "ready" => at'[f.with] # "dialing"
  BY SentFields DEF Matched
<1>2. f.type = "signal" => /\ at'[f.from] = "serving" /\ f.from \in Peer
                           /\ f.n = signals'[f.from]
  BY SentFields
<1>3. \A y \in Peer : signals[y] \in Nat /\ signals[y] <= signals[y]
  BY HubAssumption DEF Handlers, TypeOK, HubAssumption
<1>4. f.type = "signal" => SentBy(f.from, f.n)'
  BY <1>2, <1>3, SentFields DEF SentBy
<1> QED
  BY <1>1, <1>2, <1>4 DEF Known

\* The frames in the channel of a peer that has joined: those that were there,
\* each one place further ahead when the head was taken, and perhaps a new one
\* behind them; or none, when the channel was abandoned.
Older(x, k) ==
  /\ out'[x] # <<>> => Len(out[x]) <= Len(out'[x]) + k
  /\ \A i \in DOMAIN out'[x] :
       \/ i + k \in DOMAIN out[x] /\ out'[x][i] = out[x][i + k]
       \/ /\ i = Len(out[x]) + 1 /\ i = Len(out'[x]) /\ k = 0
          /\ Sent(x, out'[x][i]) /\ out'[x][i] \in Frame

LEMMA FramesOlder ==
  ASSUME Handlers, Handlers', NEW x \in Peer, OutChange(x), at[x] # "dialing"
  PROVE  Older(x, 0) \/ Older(x, 1)
<1>1. out[x] \in Seq(Frame) /\ out'[x] \in Seq(Frame)
  BY DEF Handlers, TypeOK
<1>2. CASE out'[x] = out[x] \/ out'[x] = <<>>
  BY <1>1, <1>2 DEF Older
<1>3. CASE out[x] # <<>> /\ out'[x] = Tail(out[x])
  <2>1. /\ Len(out'[x]) = Len(out[x]) - 1
        /\ \A i \in 1 .. Len(out'[x]) : out'[x][i] = out[x][i + 1]
    BY <1>1, <1>3, HeadTailProperties
  <2>2. ASSUME NEW i \in DOMAIN out'[x]
        PROVE  i + 1 \in DOMAIN out[x] /\ out'[x][i] = out[x][i + 1]
    BY <1>1, <2>1
  <2> QED
    BY <1>1, <2>1, <2>2 DEF Older
<1>4. ASSUME NEW f \in Frame, Sent(x, f), out'[x] = Append(out[x], f)
      PROVE  Older(x, 0)
  <2>1. /\ Len(out'[x]) = Len(out[x]) + 1
        /\ \A i \in 1 .. Len(out[x]) : out'[x][i] = out[x][i]
        /\ out'[x][Len(out[x]) + 1] = f
    BY <1>1, <1>4, AppendProperties
  <2> QED
    BY <1>1, <1>4, <2>1 DEF Older
<1> QED
  BY <1>2, <1>3, <1>4 DEF OutChange

\* The channel of a peer that is joining, or has not joined.
LEMMA FramesFirst ==
  ASSUME FramesKnow, NEW x \in Peer, OutChange(x), at[x] = "dialing"
  PROVE  \/ out'[x] = <<>>
         \/ /\ at'[x] = "announcing"
            /\ \/ out'[x] = <<Joined>>
               \/ \E q \in Peer : /\ out'[x] = <<Joined, Ready(role'[x], q)>>
                                  /\ at[q] # "dialing" /\ Matched(x, q)
BY DEF OutChange, FramesKnow

\* Whom a handler captures is registered, so has joined.
LEMMA TargetChange ==
  ASSUME Handlers, RegistryOK, FramesKnow, [Next]_vars, NEW p \in Peer,
         target'[p] # NoPeer
  PROVE  target'[p] \in Peer /\ at[target'[p]] # "dialing"
<1> USE DEF Handlers
<1>1. target[p] # NoPeer => target[p] \in Peer /\ at[target[p]] # "dialing"
  BY DEF TypeOK, PeerOrNil, FramesKnow
<1>2. ASSUME target'[p] = target[p]
      PROVE  target'[p] \in Peer /\ at[target'[p]] # "dialing"
  BY <1>1, <1>2
<1>3. ASSUME NEW s \in SessionId, NEW r \in Role, target'[p] = slot[s][r]
      PROVE  target'[p] \in Peer /\ at[target'[p]] # "dialing"
  BY <1>3, SlotOf DEF Inside
<1>4. ASSUME NEW q \in Peer, NEW r \in Role, NEW l \in Label, JoinRegister(q, r, l)
      PROVE  target'[p] \in Peer /\ at[target'[p]] # "dialing"
  <2>1. target'[p] = target[p] \/ target'[p] = slot[Lower[l]][r]
    BY <1>4 DEF JoinRegister, TypeOK
  <2>2. Lower[l] \in SessionId
    BY HubAssumption DEF HubAssumption
  <2> QED
    BY <1>2, <1>3, <2>1, <2>2
<1>5. ASSUME NEW q \in Peer, Forward(q) \/ Leave(q)
      PROVE  target'[p] \in Peer /\ at[target'[p]] # "dialing"
  <2>1. target'[p] = target[p] \/ target'[p] = slot[Sid(q)][Other(role[q])]
    BY <1>5 DEF Forward, Leave, Counterpart, TypeOK
  <2>2. Sid(q) \in SessionId /\ Other(role[q]) \in Role
    BY <1>5, HubAssumption
    DEF Forward, Leave, HandlersOK, Other, Role, Sid, HubAssumption
  <2> QED
    BY <1>2, <1>3, <2>1, <2>2
<1>6. ASSUME NEW q \in Peer, CloseReplaced(q) \/ ForwardSend(q) \/ LeaveSend(q)
      PROVE  target'[p] \in Peer /\ at[target'[p]] # "dialing"
  BY <1>2, <1>6 DEF CloseReplaced, ForwardSend, LeaveSend, TypeOK
<1>7. ASSUME NEW q \in Peer, NEW r \in RoleInput, NEW l \in LabelInput,
             JoinRejected(q, r, l)
      PROVE  target'[p] \in Peer /\ at[target'[p]] # "dialing"
  BY <1>2, <1>7 DEF JoinRejected
<1>8. ASSUME NEW q \in Peer, JoinAnnounce(q) \/ LonelyTimer(q) \/ Drain(q)
      PROVE  target'[p] \in Peer /\ at[target'[p]] # "dialing"
  BY <1>2, <1>8
  DEF JoinAnnounce, Announce, LonelyTimer, LonelyFires, ExpireLonely, ExpireSend,
      ExpireClose, Drain, handlers
<1>9. CASE CloseSweep \/ CloseGauge \/ UNCHANGED vars
  BY <1>2, <1>9 DEF CloseSweep, CloseGauge, handlers, vars
<1> QED
  BY <1>4, <1>5, <1>6, <1>7, <1>8, <1>9 DEF Next, Handler

LEMMA FramesStep ==
  Handlers /\ Handlers' /\ RegistryOK /\ FramesKnow /\ [Next]_vars => FramesKnow'
<1> SUFFICES ASSUME Handlers, Handlers', RegistryOK, FramesKnow, [Next]_vars,
                    NEW p \in Peer
             PROVE  /\ label'[p] # NoLabel => role'[p] \in Role
                    /\ at'[p] = "dialing" => out'[p] = <<>> /\ signals'[p] = 0
                    /\ target'[p] # NoPeer => at'[target'[p]] # "dialing"
                    /\ \A i \in DOMAIN out'[p], f \in Frame :
                         out'[p][i] = f => Known(f)'
  BY DEF FramesKnow
<1>1. \A y \in Peer : Steady(y)
  BY HandlerSteady
<1>2. OutChange(p)
  BY ChannelChange
<1>0. label'[p] # NoLabel => role'[p] \in Role
  BY <1>1 DEF Steady, FramesKnow, Handlers, HandlersOK
<1>3. at'[p] = "dialing" => out'[p] = <<>> /\ signals'[p] = 0
  BY <1>1, <1>2, FramesFirst DEF Steady, FramesKnow
<1>4. target'[p] # NoPeer => at'[target'[p]] # "dialing"
  <2>1. target'[p] # NoPeer => target'[p] \in Peer /\ at[target'[p]] # "dialing"
    BY TargetChange
  <2> QED
    BY <1>1, <2>1 DEF Steady
<1>5. CASE at[p] = "dialing"
  <2>1. Known(Joined)'
    BY DEF Known, Joined
  <2>2. ASSUME NEW q \in Peer, NEW f, Matched(p, q), f = Ready(role'[p], q)
        PROVE  Known(f)'
    BY <2>2 DEF Known, Ready, Matched
  <2>3. ASSUME NEW i \in DOMAIN out'[p], NEW f \in Frame, out'[p][i] = f
        PROVE  Known(f)'
    <3>1. \/ f = Joined
          \/ \E q \in Peer : Matched(p, q) /\ f = Ready(role'[p], q)
      BY <1>2, <1>5, <2>3, FramesFirst
    <3> QED
      BY <2>1, <2>2, <3>1
  <2> QED
    BY <1>0, <1>3, <1>4, <2>3
<1>6. CASE at[p] # "dialing"
  <2>1. \A i \in DOMAIN out[p] : out[p][i] \in Frame /\ Known(out[p][i])
    BY DEF Handlers, TypeOK, FramesKnow
  <2>2. \A f \in Frame : Known(f) => Known(f)'
    BY KnownStays
  <2>3. \A f : Sent(p, f) => Known(f)'
    BY NewKnown
  <2>4. \A i \in DOMAIN out'[p] : \/ Sent(p, out'[p][i])
                                  \/ \E j \in DOMAIN out[p] : out'[p][i] = out[p][j]
    BY <1>2, <1>6, FramesOlder DEF Older
  <2>5. ASSUME NEW i \in DOMAIN out'[p], NEW f \in Frame, out'[p][i] = f
        PROVE  Known(f)'
    <3>1. Sent(p, f) \/ Known(f)
      BY <2>1, <2>4, <2>5
    <3> QED
      BY <2>2, <2>3, <3>1
  <2> QED
    BY <1>0, <1>3, <1>4, <2>5
<1> QED
  BY <1>5, <1>6

LEMMA FramesInvariant == Spec => [](Handlers /\ RegistryOK /\ FramesKnow)
<1>1. Init => FramesKnow
  BY DEF Init, FramesKnow
<1>2. Handlers /\ RegistryOK /\ [Next]_vars => Handlers'
  BY HandlersStep
<1> QED
  BY <1>1, <1>2, FramesStep, RegistryInvariant, PTL DEF Spec

-----------------------------------------------------------------------------
(* What a client reads *)

LEMMA InOrderStep ==
  Handlers /\ Handlers' /\ RegistryOK /\ FramesKnow /\ FramesInOrder
    /\ [Next]_vars => FramesInOrder'
<1> SUFFICES ASSUME Handlers, Handlers', RegistryOK, FramesKnow, FramesInOrder,
                    [Next]_vars, NEW p \in Peer,
                    NEW i \in DOMAIN out'[p], NEW j \in DOMAIN out'[p], i < j
             PROVE  LET f == out'[p][i]
                        g == out'[p][j]
                    IN  /\ g.type # "joined"
                        /\ f.type = "signal" =>
                             /\ ~IsReady(g, f.from)
                             /\ IsSignal(g, f.from) => f.n < g.n
  BY DEF FramesInOrder, IsReady, IsSignal
<1>1. OutChange(p)
  BY ChannelChange
<1>2. out'[p] \in Seq(Frame) /\ out[p] \in Seq(Frame) /\ i \in Nat /\ j \in Nat
  BY DEF Handlers, TypeOK
<1>3. CASE at[p] = "dialing"
  <2>1. PICK q \in Peer : out'[p] = <<Joined, Ready(role'[p], q)>>
    BY <1>1, <1>2, <1>3, FramesFirst
  <2>2. out'[p][i] = Joined /\ out'[p][j] = Ready(role'[p], q)
    BY <1>2, <2>1
  <2> QED
    BY <2>2 DEF Joined, Ready
<1>4. ASSUME NEW k \in {0, 1}, Older(p, k), at[p] # "dialing"
      PROVE  LET f == out'[p][i]
                 g == out'[p][j]
             IN  /\ g.type # "joined"
                 /\ f.type = "signal" =>
                      /\ ~IsReady(g, f.from)
                      /\ IsSignal(g, f.from) => f.n < g.n
  <2>1. i + k \in DOMAIN out[p] /\ out'[p][i] = out[p][i + k]
    BY <1>2, <1>4 DEF Older
  <2>2. CASE j + k \in DOMAIN out[p] /\ out'[p][j] = out[p][j + k]
    <3>1. i + k < j + k
      BY <1>2
    <3> QED
      BY <2>1, <2>2, <3>1 DEF FramesInOrder
  <2>3. CASE Sent(p, out'[p][j])
    <3>1. PICK f \in Frame : f = out'[p][i]
      BY <1>2
    <3>2. Known(f)
      BY <2>1, <3>1 DEF FramesKnow
    <3>3. PICK g : g = out'[p][j]
      OBVIOUS
    <3>4. g.type # "joined"
      BY <2>3, <3>3, SentFields
    <3>5. ASSUME f.type = "signal"
          PROVE  ~IsReady(g, f.from) /\ (IsSignal(g, f.from) => f.n < g.n)
      <4>1. at[f.from] # "dialing" /\ SentBy(f.from, f.n)
        BY <3>2, <3>5 DEF Known
      <4> QED
        BY <2>3, <3>3, <4>1, SentFields DEF IsReady, IsSignal, SentBy
    <3> QED
      BY <3>1, <3>3, <3>4, <3>5
  <2> QED
    BY <1>2, <1>4, <2>2, <2>3 DEF Older
<1> QED
  BY <1>1, <1>3, <1>4, FramesOlder

\* A client reads joined before anything else, no signal of a partner before
\* the ready that pairs them, and each partner's signals in the order they
\* were sent, for every capacity, any number of peers and any replacements.
THEOREM FramesArriveInOrder == Spec => []FramesInOrder
<1>1. Init => FramesInOrder
  BY DEF Init, FramesInOrder
<1> QED
  BY <1>1, InOrderStep, FramesInvariant, PTL DEF Spec

LEMMA InitiatorStep ==
  Handlers /\ Handlers' /\ RegistryOK /\ FramesKnow /\ OneInitiator
    /\ [Next]_vars => OneInitiator'
<1> SUFFICES ASSUME Handlers, Handlers', RegistryOK, FramesKnow, OneInitiator,
                    [Next]_vars, NEW p \in Peer, NEW q \in Peer,
                    NEW i \in DOMAIN out'[p], IsReady(out'[p][i], q)
             PROVE  /\ role'[q] = Other(role'[p])
                    /\ Lower[label'[q]] = Lower[label'[p]]
                    /\ out'[p][i].initiator <=> role'[p] = Phone
  BY DEF OneInitiator, IsReady, Sid
<1>1. OutChange(p)
  BY ChannelChange
<1>2. out'[p] \in Seq(Frame) /\ out[p] \in Seq(Frame)
  BY DEF Handlers, TypeOK
<1>3. CASE at[p] = "dialing"
  <2>1. PICK x \in Peer : out'[p] = <<Joined, Ready(role'[p], x)>> /\ Matched(p, x)
    BY <1>1, <1>2, <1>3, FramesFirst DEF IsReady, Joined
  <2>2. out'[p][i] = Joined \/ out'[p][i] = Ready(role'[p], x)
    BY <1>2, <2>1
  <2>3. out'[p][i] = Ready(role'[p], x) /\ x = q
    BY <2>2 DEF IsReady, Joined, Ready
  <2>4. out'[p][i].initiator = (role'[p] = Phone)
    BY <2>3 DEF Ready
  <2> QED
    BY <2>1, <2>3, <2>4 DEF Matched
<1>4. CASE Sent(p, out'[p][i])
  BY <1>4, SentFields DEF Matched, IsReady
<1>5. ASSUME at[p] # "dialing", NEW j \in DOMAIN out[p], out'[p][i] = out[p][j]
      PROVE  /\ role'[q] = Other(role'[p])
             /\ Lower[label'[q]] = Lower[label'[p]]
             /\ out'[p][i].initiator <=> role'[p] = Phone
  <2>1. IsReady(out[p][j], q)
    BY <1>5
  <2>2. PICK f \in Frame : f = out[p][j]
    BY <1>2
  <2>3. Known(f)
    BY <2>2 DEF FramesKnow
  <2>4. at[q] # "dialing"
    BY <2>1, <2>2, <2>3 DEF Known, IsReady
  <2>5. /\ role'[p] = role[p] /\ label'[p] = label[p]
        /\ role'[q] = role[q] /\ label'[q] = label[q]
    BY <1>5, <2>4, HandlerSteady DEF Steady
  <2> QED
    BY <1>5, <2>1, <2>5 DEF OneInitiator, Sid
<1> QED
  BY <1>1, <1>2, <1>3, <1>4, <1>5, FramesOlder DEF Older

\* The two ready frames of a pairing name each other, across one session, and
\* only the one the phone reads makes it the initiator.
THEOREM OneSideOffers == Spec => []OneInitiator
<1>1. Init => OneInitiator
  BY DEF Init, OneInitiator
<1> QED
  BY <1>1, InitiatorStep, FramesInvariant, PTL DEF Spec

-----------------------------------------------------------------------------
(* What the slots and the frames have to do with each other *)

\* What may happen to a place in the map.
Taken(s, r)   == \E x \in Peer, l \in Label : JoinRegister(x, r, l) /\ Lower[l] = s
Emptied(s, r) == /\ slot'[s][r] = NoPeer
                 /\ \E x \in Peer : /\ slot[s][r] = x
                                    /\ \/ Leave(x)
                                       \/ ExpireLonely(x) /\ StillLonely(x)

LEMMA SlotFate ==
  ASSUME Handlers, RegistryOK, [Next]_vars, NEW s \in SessionId, NEW r \in Role
  PROVE  slot'[s][r] = slot[s][r] \/ Taken(s, r) \/ Emptied(s, r) \/ CloseSweep
<1> USE DEF Handlers
<1>1. ASSUME UNCHANGED slot
      PROVE  slot'[s][r] = slot[s][r]
  BY <1>1
<1>2. ASSUME NEW p \in Peer, NEW t \in Role, NEW l \in Label, JoinRegister(p, t, l)
      PROVE  slot'[s][r] = slot[s][r] \/ Taken(s, r)
  <2>1. slot' = [slot EXCEPT ![Lower[l]][t] = p]
    BY <1>2 DEF JoinRegister
  <2>2. CASE s = Lower[l] /\ r = t
    BY <1>2, <2>2 DEF Taken
  <2>3. CASE ~(s = Lower[l] /\ r = t)
    BY <2>1, <2>3 DEF TypeOK
  <2> QED
    BY <2>2, <2>3
<1>3. ASSUME NEW p \in Peer, Leave(p) \/ ExpireLonely(p)
      PROVE  slot'[s][r] = slot[s][r] \/ Emptied(s, r)
  <2>0. ASSUME NEW t, Vacate(Sid(p), t)
        PROVE  slot'[s][r] = IF s = Sid(p) /\ r = t THEN NoPeer ELSE slot[s][r]
    BY <2>0 DEF Vacate, TypeOK
  <2>1. CASE Leave(p) /\ Holds(p)
    <3>1. PICK t : t = role[p] /\ Vacate(Sid(p), t)
      BY <2>1 DEF Leave
    <3>2. s = Sid(p) /\ r = t => slot[s][r] = p /\ slot'[s][r] = NoPeer
      BY <2>0, <2>1, <3>1 DEF Holds
    <3>3. CASE s = Sid(p) /\ r = t
      <4>1. slot[s][r] = p /\ slot'[s][r] = NoPeer /\ Leave(p)
        BY <2>1, <3>2, <3>3
      <4> QED
        BY <4>1 DEF Emptied
    <3>4. CASE ~(s = Sid(p) /\ r = t)
      BY <2>0, <3>1, <3>4
    <3> QED
      BY <3>3, <3>4
  <2>2. CASE ExpireLonely(p) /\ StillLonely(p)
    <3>1. Vacate(Sid(p), Device)
      BY <2>2 DEF ExpireLonely
    <3>2. s = Sid(p) /\ r = Device => slot[s][r] = p
      BY <2>2 DEF StillLonely
    <3> QED
      BY <2>0, <2>2, <3>1, <3>2 DEF Emptied
  <2>3. CASE ~(Leave(p) /\ Holds(p)) /\ ~(ExpireLonely(p) /\ StillLonely(p))
    BY <1>3, <2>3 DEF Leave, ExpireLonely, registry
  <2> QED
    BY <2>1, <2>2, <2>3
<1>4. ASSUME NEW p \in Peer, NEW t \in RoleInput, NEW l \in LabelInput,
             JoinRejected(p, t, l)
      PROVE  slot'[s][r] = slot[s][r]
  BY <1>1, <1>4 DEF JoinRejected, registry
<1>5. ASSUME NEW p \in Peer, \/ JoinAnnounce(p) \/ CloseReplaced(p) \/ Forward(p)
                             \/ ForwardSend(p) \/ LeaveSend(p) \/ LonelyFires(p)
                             \/ ExpireSend(p) \/ ExpireClose(p) \/ Drain(p)
      PROVE  slot'[s][r] = slot[s][r]
  BY <1>1, <1>5
  DEF JoinAnnounce, Announce, CloseReplaced, Forward, ForwardSend, LeaveSend, LonelyFires,
      ExpireSend, ExpireClose, Drain, registry
<1>6. CASE CloseSweep \/ CloseGauge \/ UNCHANGED vars
  BY <1>1, <1>6 DEF CloseSweep, CloseGauge, registry, vars
<1> QED
  BY <1>2, <1>3, <1>4, <1>5, <1>6 DEF Next, Handler, LonelyTimer

\* The registry is swept for good.
LEMMA SweepStays ==
  ASSUME [Next]_vars, sweep' = "open"
  PROVE  sweep = "open"
<1>1. ASSUME NEW p \in Peer, Handler(p)
      PROVE  UNCHANGED sweep
  BY <1>1
  DEF Handler, JoinRejected, JoinRegister, JoinAnnounce, Announce, CloseReplaced, Forward,
      ForwardSend, Leave, LeaveSend
<1>2. ASSUME NEW p \in Peer, LonelyTimer(p) \/ Drain(p)
      PROVE  UNCHANGED sweep
  BY <1>2 DEF LonelyTimer, LonelyFires, ExpireLonely, ExpireSend, ExpireClose, Drain
<1>3. CASE CloseSweep \/ CloseGauge \/ UNCHANGED vars
  BY <1>3 DEF CloseSweep, CloseGauge, vars
<1> QED
  BY <1>1, <1>2, <1>3 DEF Next

\* Nobody who has joined gets a place back.
LEMMA HeldBefore ==
  ASSUME Handlers, Handlers', RegistryOK, FramesKnow, [Next]_vars, sweep' = "open",
         NEW p \in Peer, at[p] # "dialing", Holds(p)'
  PROVE  Holds(p)
<1>1. role'[p] = role[p] /\ label'[p] = label[p]
  BY HandlerSteady DEF Steady
<1>2. label[p] # NoLabel /\ slot'[Sid(p)][role[p]] = p
  BY <1>1 DEF Holds, Sid
<1>3. PICK s \in SessionId, r \in Role : s = Sid(p) /\ r = role[p]
  BY <1>2, HubAssumption DEF FramesKnow, Handlers, TypeOK, Sid, HubAssumption
<1>4. slot'[s][r] = slot[s][r] \/ Taken(s, r) \/ Emptied(s, r)
  BY SlotFate DEF CloseSweep
<1>5. ~Taken(s, r)
  <2> SUFFICES ASSUME NEW x \in Peer, NEW l \in Label, JoinRegister(x, r, l),
                      Lower[l] = s
               PROVE  FALSE
    BY DEF Taken
  <2>1. at[x] = "dialing" /\ slot' = [slot EXCEPT ![s][r] = x]
    BY DEF JoinRegister
  <2>2. slot'[s][r] = x
    BY <2>1 DEF Handlers, TypeOK
  <2> QED
    BY <1>2, <1>3, <2>1, <2>2
<1>6. ~Emptied(s, r)
  BY <1>2, <1>3, HubAssumption DEF Emptied, HubAssumption
<1> QED
  BY <1>2, <1>3, <1>4, <1>5, <1>6 DEF Holds

\* A frame about the pairing that was appended is behind every older one.
LEMMA Behind ==
  ASSUME Handlers, NEW p \in Peer, NEW f \in Frame, About(f),
         out'[p] = Append(out[p], f),
         NEW i \in Nat, i <= Len(out[p]),
         \A j \in DOMAIN out'[p] : About(out'[p][j]) => j <= i
  PROVE  FALSE
<1>1. out[p] \in Seq(Frame)
  BY DEF Handlers, TypeOK
<1>2. /\ Len(out'[p]) = Len(out[p]) + 1
      /\ out'[p][Len(out[p]) + 1] = f
      /\ Len(out[p]) + 1 \in DOMAIN out'[p]
  BY <1>1, AppendProperties
<1> QED
  BY <1>1, <1>2

\* A peer whose close is not requested got every frame.
LEMMA Delivered ==
  ASSUME NEW q, CloseIfFull(q) = "none", NEW f
  PROVE  Push(out[q], f) = Append(out[q], f)
BY DEF CloseIfFull, FirstReason, Push

\* A bye is owed to the same peer until it is sent.
LEMMA LeavingStays ==
  ASSUME Handlers, [Next]_vars, NEW q \in Peer, at[q] = "leaving", ~LeaveSend(q)
  PROVE  at'[q] = "leaving" /\ target'[q] = target[q]
<1> USE DEF Handlers, TypeOK
<1>1. ASSUME NEW p \in Peer, NEW r \in RoleInput, NEW l \in LabelInput,
             JoinRejected(p, r, l)
      PROVE  at'[q] = "leaving" /\ target'[q] = target[q]
  BY <1>1 DEF JoinRejected
<1>2. ASSUME NEW p \in Peer, NEW r \in Role, NEW l \in Label, JoinRegister(p, r, l)
      PROVE  at'[q] = "leaving" /\ target'[q] = target[q]
  BY <1>2 DEF JoinRegister
<1>3. ASSUME NEW p \in Peer, \/ JoinAnnounce(p) \/ CloseReplaced(p) \/ Forward(p)
                             \/ ForwardSend(p) \/ LeaveSend(p)
      PROVE  at'[q] = "leaving" /\ target'[q] = target[q]
  BY <1>3 DEF JoinAnnounce, Announce, CloseReplaced, Forward, ForwardSend, LeaveSend
<1>4. ASSUME NEW p \in Peer, Leave(p)
      PROVE  at'[q] = "leaving" /\ target'[q] = target[q]
  BY <1>4 DEF Leave
<1>5. ASSUME NEW p \in Peer, LonelyTimer(p) \/ Drain(p)
      PROVE  at'[q] = "leaving" /\ target'[q] = target[q]
  BY <1>5
  DEF LonelyTimer, LonelyFires, ExpireLonely, ExpireSend, ExpireClose, Drain,
      handlers
<1>6. CASE CloseSweep \/ CloseGauge \/ UNCHANGED vars
  BY <1>6 DEF CloseSweep, CloseGauge, handlers, vars
<1> QED
  BY <1>1, <1>2, <1>3, <1>4, <1>5, <1>6 DEF Next, Handler

LEMMA DepartureStep ==
  Handlers /\ Handlers' /\ RegistryOK /\ FramesKnow /\ OneInitiator
    /\ DepartureIsAnnounced /\ [Next]_vars => DepartureIsAnnounced'
<1> SUFFICES ASSUME Handlers, Handlers', RegistryOK, FramesKnow, OneInitiator,
                    DepartureIsAnnounced, [Next]_vars,
                    NEW p \in Peer, NEW q \in Peer, NEW i \in DOMAIN out'[p],
                    IsReady(out'[p][i], q),
                    \A j \in DOMAIN out'[p] : About(out'[p][j]) => j <= i,
                    Holds(p)', sweep' = "open", closeReason'[p] = "none"
             PROVE  Holds(q)' \/ (at'[q] = "leaving" /\ target'[q] = p)
  BY DEF DepartureIsAnnounced, IsReady, About
<1>1. OutChange(p)
  BY ChannelChange
<1>2. /\ out'[p] \in Seq(Frame) /\ out[p] \in Seq(Frame) /\ i \in Nat
      /\ closeReason[p] = "none" /\ sweep = "open"
      /\ p # NoPeer
  BY CloseStays, SweepStays, HubAssumption DEF Handlers, TypeOK, HubAssumption
<1>3. ASSUME Matched(p, q)
      PROVE  Holds(q)'
  BY <1>3 DEF Matched, Holds, Sid
<1>4. CASE at[p] = "dialing"
  <2>1. PICK x \in Peer : out'[p] = <<Joined, Ready(role'[p], x)>> /\ Matched(p, x)
    BY <1>1, <1>2, <1>4, FramesFirst DEF IsReady, Joined
  <2>2. out'[p][i] = Joined \/ out'[p][i] = Ready(role'[p], x)
    BY <1>2, <2>1
  <2>3. x = q
    BY <2>2 DEF IsReady, Joined, Ready
  <2> QED
    BY <1>3, <2>1, <2>3
<1>5. CASE Sent(p, out'[p][i])
  BY <1>3, <1>5, SentFields DEF IsReady
<1>6. ASSUME at[p] # "dialing", NEW k \in {0, 1}, Older(p, k),
             i + k \in DOMAIN out[p], out'[p][i] = out[p][i + k]
      PROVE  Holds(q)' \/ (at'[q] = "leaving" /\ target'[q] = p)
  <2>1. IsReady(out[p][i + k], q) /\ i <= Len(out[p])
    BY <1>2, <1>6
  <2>2. ASSUME NEW j \in DOMAIN out[p], About(out[p][j])
        PROVE  j <= i + k
    <3>1. CASE j > k
      <4>0. Len(out[p]) <= Len(out'[p]) + k
        BY <1>2, <1>6 DEF Older
      <4>1. j - k \in DOMAIN out'[p] /\ j \in Nat /\ (j - k) + k = j
        BY <1>2, <2>2, <3>1, <4>0
      <4>2. \/ out'[p][j - k] = out[p][j]
            \/ j - k = Len(out[p]) + 1 /\ k = 0
        BY <1>6, <4>1 DEF Older
      <4>3. out'[p][j - k] = out[p][j]
        BY <1>2, <2>2, <4>1, <4>2
      <4> QED
        BY <1>2, <2>2, <4>1, <4>3
    <3>2. CASE ~(j > k)
      BY <1>2, <2>2, <3>2
    <3> QED
      BY <3>1, <3>2
  <2>3. Holds(p)
    BY <1>6, HeldBefore
  <2>4. Holds(q) \/ (at[q] = "leaving" /\ target[q] = p)
    BY <1>2, <1>6, <2>1, <2>2, <2>3 DEF DepartureIsAnnounced
  <2>5. /\ role[q] = Other(role[p]) /\ Sid(q) = Sid(p)
        /\ slot[Sid(p)][role[p]] = p /\ label[p] # NoLabel
    BY <1>6, <2>1, <2>3 DEF OneInitiator, Holds
  <2>6. /\ role[p] \in Role /\ role[q] \in Role /\ Other(role[q]) = role[p]
        /\ Sid(q) \in SessionId
    BY <2>5, HubAssumption
    DEF FramesKnow, Other, Role, Device, Phone, Handlers, TypeOK, Sid, HubAssumption
  <2>7. Counterpart(q) = p
    BY <2>5, <2>6 DEF Counterpart
  <2>8. at[q] # "dialing"
    <3>1. PICK f \in Frame : f = out[p][i + k]
      BY <1>2, <1>6
    <3> QED
      BY <1>6, <2>1, <3>1 DEF FramesKnow, Known, IsReady
  <2>9. role'[q] = role[q] /\ label'[q] = label[q]
    BY <2>8, HandlerSteady DEF Steady
  <2>10. CASE at[q] = "leaving" /\ target[q] = p
    <3>1. (at'[q] = "leaving" /\ target'[q] = p) \/ LeaveSend(q)
      BY <2>10, LeavingStays
    <3>2. ~LeaveSend(q)
      <4> SUFFICES ASSUME LeaveSend(q) PROVE FALSE
        OBVIOUS
      <4>1. /\ out'[p] = Push(out[p], Bye)
            /\ closeReason'[p] = CloseIfFull(p)
        BY <2>10 DEF LeaveSend, Send, Handlers, TypeOK
      <4>2. out'[p] = Append(out[p], Bye)
        BY <4>1, Delivered
      <4> QED
        BY <1>2, <2>1, <4>2, Behind, FrameTypes DEF About, Bye
    <3> QED
      BY <3>1, <3>2
  <2>11. CASE Holds(q)
    <3>1. PICK s \in SessionId, r \in Role : s = Sid(q) /\ r = role[q]
      BY <2>6
    <3>2. slot[s][r] = q /\ slot[s][Other(r)] = p /\ label[q] # NoLabel /\ q # NoPeer
      BY <2>5, <2>6, <2>11, <3>1, HubAssumption DEF Holds, HubAssumption
    <3>3. slot'[s][r] = slot[s][r] \/ Taken(s, r) \/ Emptied(s, r)
      BY SlotFate DEF CloseSweep
    <3>4. CASE slot'[s][r] = slot[s][r]
      BY <2>9, <3>1, <3>2, <3>4 DEF Holds, Sid
    <3>5. CASE Leave(q)
      BY <1>2, <2>7, <2>11, <3>5 DEF Leave, Handlers, TypeOK
    <3>6. ~StillLonely(q) \/ ~ExpireLonely(q)
      <4>1. ExpireLonely(q) => role[q] = Device
        BY DEF ExpireLonely, Handlers, HandlersOK
      <4> QED
        BY <1>2, <3>1, <3>2, <4>1 DEF StillLonely, Other
    <3>7. ~Taken(s, r)
      <4> SUFFICES ASSUME NEW x \in Peer, NEW l \in Label, JoinRegister(x, r, l),
                          Lower[l] = s
                   PROVE  FALSE
        BY DEF Taken
      <4>1. at[x] = "dialing" /\ x # p /\ JoinSends(x, s, r) /\ Other(r) \in Role
        BY <1>6 DEF JoinRegister, Other, Role
      <4>2. ~StillSent(s, r)
        BY <3>2 DEF StillSent
      <4>3. /\ out'[p] = Push(out[p], Ready(Other(r), x))
            /\ closeReason'[p] = CloseIfFull(p)
        BY <1>2, <3>2, <4>1, <4>2 DEF JoinSends
      <4>4. PICK f \in Frame : f = Ready(Other(r), x)
        BY <4>1, FrameTypes
      <4>5. out'[p] = Append(out[p], f) /\ About(f)
        BY <4>3, <4>4, Delivered DEF About, Ready
      <4> QED
        BY <1>2, <2>1, <4>5, Behind
    <3> QED
      BY <3>2, <3>3, <3>4, <3>5, <3>6, <3>7 DEF Emptied
  <2> QED
    BY <2>4, <2>10, <2>11
<1> QED
  BY <1>1, <1>4, <1>5, <1>6, FramesOlder DEF Older

\* A peer that read of a partner, and nothing since, has the partner still, or
\* will be told that it left, or is being closed: whatever leaves, replaces or
\* expires in between, and however full its channel is.
THEOREM DeparturesAnnounced == Spec => []DepartureIsAnnounced
<1>1. Init => OneInitiator /\ DepartureIsAnnounced
  BY DEF Init, OneInitiator, DepartureIsAnnounced
<1> QED
  BY <1>1, InitiatorStep, DepartureStep, FramesInvariant, PTL DEF Spec

-----------------------------------------------------------------------------
(* When ready is sent *)

\* x reads f next, after all it has to read already, or is being closed.
Told(x, f) ==
  \/ Len(out'[x]) > Len(out[x]) /\ out'[x][Len(out'[x])] = f
  \/ closeReason'[x] # "none"

LEMMA AppendTells ==
  ASSUME Handlers, NEW x \in Peer, NEW f \in Frame,
         out'[x] = Push(out[x], f), closeReason'[x] = CloseIfFull(x)
  PROVE  Told(x, f)
<1>1. CASE closeReason'[x] # "none"
  BY <1>1 DEF Told
<1>2. CASE closeReason'[x] = "none"
  <2>1. out'[x] = Append(out[x], f) /\ out[x] \in Seq(Frame)
    BY <1>2, Delivered DEF Handlers, TypeOK
  <2> QED
    BY <2>1, AppendProperties DEF Told
<1> QED
  BY <1>1, <1>2

\* The join that completes a session tells both.
LEMMA PairIsTold ==
  ASSUME Handlers, RegistryOK, FramesKnow, NEW s \in SessionId, NEW r \in Role,
         Taken(s, r), slot[s][Other(r)] # NoPeer,
         NEW x, x = slot'[s][r], NEW q, q = slot[s][Other(r)]
  PROVE  Told(x, Ready(r, q)) /\ Told(q, Ready(Other(r), x))
<1>1. PICK y \in Peer, l \in Label : JoinRegister(y, r, l) /\ Lower[l] = s
  BY DEF Taken
<1>2. /\ at[y] = "dialing" /\ JoinSends(y, s, r) /\ out[y] = <<>>
      /\ Other(r) \in Role /\ r \in Role
  BY <1>1 DEF JoinRegister, FramesKnow, Other, Role
<1>3. x = y /\ x \in Peer
  BY <1>1 DEF JoinRegister, Handlers, TypeOK
<1>4. q \in Peer /\ q # x /\ q # NoPeer
  BY <1>2, <1>3, SlotOf DEF Inside
<1>5. ~StillSent(s, r)
  <2>1. readySent[s] => slot[s][r] # NoPeer
    BY DEF RegistryOK, ReadySentIffPaired
  <2> QED
    BY <2>1 DEF StillSent
<1>6. PICK f \in Frame : f = Ready(Other(r), x)
  BY <1>2, <1>3, FrameTypes
<1>7. PICK g \in Frame : g = Ready(r, q)
  BY <1>4, FrameTypes
<1>8. out'[q] = Push(out[q], f) /\ closeReason'[q] = CloseIfFull(q)
  BY <1>2, <1>3, <1>4, <1>5, <1>6 DEF JoinSends
<1>9. Told(q, f)
  BY <1>4, <1>8, AppendTells
<1>10. Push(<<>>, Joined) = <<Joined>> /\ Len(<<Joined>>) = 1
  BY HubAssumption DEF Push, HubAssumption
<1>11. /\ out'[x] = Push(<<Joined>>, g)
       /\ closeReason'[x] = IF Len(<<Joined>>) >= SendBuffer
                            THEN FirstReason(x, "send buffer full")
                            ELSE closeReason[x]
  BY <1>2, <1>3, <1>4, <1>5, <1>7, <1>10 DEF JoinSends
<1>12. Told(x, g)
  <2>1. CASE 1 >= SendBuffer
    BY <1>10, <1>11, <2>1 DEF Told, FirstReason
  <2>2. CASE ~(1 >= SendBuffer)
    <3>1. out'[x] = Append(<<Joined>>, g)
      BY <1>10, <1>11, <2>2, HubAssumption DEF Push, HubAssumption
    <3>2. <<Joined>> \in Seq(Frame)
      BY FrameTypes
    <3>3. Len(out'[x]) = 2 /\ out'[x][2] = g
      BY <1>10, <3>1, <3>2, AppendProperties
    <3>4. Len(out[x]) = 0
      BY <1>2, <1>3
    <3> QED
      BY <3>3, <3>4 DEF Told
  <2> QED
    BY <2>1, <2>2
<1> QED
  BY <1>6, <1>7, <1>9, <1>12

\* A ready that is queued names a peer that has just taken its place, or is
\* for one that has.
LEMMA ReadyIsNew ==
  ASSUME Handlers, FramesKnow, NEW x \in Peer, OutChange(x),
         Len(out'[x]) > Len(out[x]), out'[x][Len(out'[x])].type = "ready"
  PROVE  \E q \in Peer : /\ Matched(x, q)
                         /\ at[x] = "dialing" \/ at[q] = "dialing"
<1>1. out[x] \in Seq(Frame)
  BY DEF Handlers, TypeOK
<1>2. CASE at[x] = "dialing"
  <2>1. out'[x] # <<>> /\ out'[x] # <<Joined>>
    BY <1>1, <1>2 DEF Joined
  <2> QED
    BY <1>2, <2>1, FramesFirst
<1>3. CASE at[x] # "dialing"
  <2>1. out'[x] # out[x] /\ out'[x] # <<>>
    BY <1>1
  <2>2. out[x] # <<>> => out'[x] # Tail(out[x])
    <3> SUFFICES ASSUME out[x] # <<>>, out'[x] = Tail(out[x])
                 PROVE  FALSE
      OBVIOUS
    <3>1. Len(out'[x]) = Len(out[x]) - 1
      BY <1>1, HeadTailProperties
    <3>2. Len(out[x]) \in Nat /\ Len(out'[x]) > Len(out[x])
      BY <1>1
    <3> QED
      BY <3>1, <3>2
  <2>3. PICK f \in Frame : Sent(x, f) /\ out'[x] = Append(out[x], f)
    BY <1>3, <2>1, <2>2 DEF OutChange
  <2>4. out'[x][Len(out'[x])] = f
    BY <1>1, <2>3, AppendProperties
  <2> QED
    BY <2>3, <2>4, SentFields
<1> QED
  BY <1>2, <1>3

LEMMA ReadyStep ==
  ASSUME Handlers, Handlers', RegistryOK, RegistryOK', FramesKnow, [Next]_vars,
         NEW s \in SessionId, NEW d, d = slot'[s][Device], NEW h, h = slot'[s][Phone]
  PROVE  IF slot'[s] # slot[s] /\ d # NoPeer /\ h # NoPeer
         THEN Told(d, Ready(Device, h)) /\ Told(h, Ready(Phone, d))
         ELSE \A x \in {d, h} \ {NoPeer} :
                Len(out'[x]) > Len(out[x]) => out'[x][Len(out'[x])].type # "ready"
<1>0. /\ slot \in [SessionId -> [Role -> PeerOrNil]]
      /\ slot' \in [SessionId -> [Role -> PeerOrNil]]
      /\ Role = {Device, Phone} /\ Other(Device) = Phone /\ Other(Phone) = Device
  BY DEF Handlers, TypeOK, Role, Other, Device, Phone
<1>1. ASSUME slot'[s] # slot[s], d # NoPeer, h # NoPeer
      PROVE  Told(d, Ready(Device, h)) /\ Told(h, Ready(Phone, d))
  <2>1. PICK r \in Role : slot'[s][r] # slot[s][r]
    BY <1>0, <1>1
  <2>2. \A t \in Role : slot'[s][t] # NoPeer
    BY <1>0, <1>1
  <2>3. Taken(s, r)
    BY <2>1, <2>2, SlotFate DEF Emptied, CloseSweep
  <2>4. PICK x : x = slot'[s][r]
    OBVIOUS
  <2>5. PICK q : q = slot[s][Other(r)]
    OBVIOUS
  <2>6. slot'[s][Other(r)] = q /\ q # NoPeer
    <3>1. PICK y : slot' = [slot EXCEPT ![s][r] = y]
      BY <2>3 DEF Taken, JoinRegister
    <3>2. Other(r) \in Role /\ Other(r) # r
      BY DEF Other, Role, Device, Phone
    <3> QED
      BY <1>0, <2>2, <2>5, <3>1, <3>2
  <2>7. Told(x, Ready(r, q)) /\ Told(q, Ready(Other(r), x))
    BY <2>3, <2>4, <2>5, <2>6, PairIsTold
  <2>8. \/ r = Device /\ x = d /\ q = h
        \/ r = Phone /\ x = h /\ q = d
    BY <1>0, <2>4, <2>6
  <2> QED
    BY <1>0, <2>7, <2>8
<1>2. ASSUME NEW x \in {d, h} \ {NoPeer}, Len(out'[x]) > Len(out[x]),
             out'[x][Len(out'[x])].type = "ready"
      PROVE  slot'[s] # slot[s] /\ d # NoPeer /\ h # NoPeer
  <2>1. x \in Peer
    BY <1>0, <1>2 DEF PeerOrNil
  <2>2. PICK q \in Peer : Matched(x, q) /\ (at[x] = "dialing" \/ at[q] = "dialing")
    <3>1. OutChange(x)
      BY <2>1, ChannelChange
    <3> QED
      BY <1>2, <2>1, <3>1, ReadyIsNew
  <2>3. PICK t \in Role : slot'[s][t] = x
    BY <1>0, <1>2
  <2>4. role'[x] = t /\ Lower[label'[x]] = s
    BY <1>2, <2>3 DEF RegistryOK, NoStalePeer, Sid
  <2>5. slot'[s][Other(t)] = q /\ q # NoPeer /\ Other(t) \in Role
    BY <1>0, <2>2, <2>4, HubAssumption DEF Matched, HubAssumption
  <2>6. \A y \in Peer, r \in Role : at[y] = "dialing" => slot[s][r] # y
    BY SlotOf, HubAssumption DEF Inside, HubAssumption
  <2>7. d # NoPeer /\ h # NoPeer
    BY <1>0, <1>2, <2>3, <2>5
  <2>8. slot'[s][t] # slot[s][t] \/ slot'[s][Other(t)] # slot[s][Other(t)]
    BY <2>1, <2>2, <2>3, <2>5, <2>6
  <2> QED
    BY <2>7, <2>8
<1> QED
  BY <1>1, <1>2

\* Both sides of a pair that forms are told, in the step that forms it, or are
\* being closed; and no ready is sent otherwise.
THEOREM ReadyTellsBoth == Spec => ReadyWhenPaired
<1> DEFINE Paired ==
             \A s \in SessionId :
               LET d == slot'[s][Device]
                   h == slot'[s][Phone]
                   forms == slot'[s] # slot[s] /\ d # NoPeer /\ h # NoPeer
                   queued(p) == Len(out'[p]) > Len(out[p])
                   last(p) == out'[p][Len(out'[p])]
                   told(p, f) == queued(p) /\ last(p) = f
               IN  IF forms
                   THEN /\ told(d, Ready(Device, h)) \/ closeReason'[d] # "none"
                        /\ told(h, Ready(Phone, d)) \/ closeReason'[h] # "none"
                   ELSE \A p \in {d, h} \ {NoPeer} :
                          queued(p) => last(p).type # "ready"
<1>1. ASSUME Handlers, Handlers', RegistryOK, RegistryOK', FramesKnow, [Next]_vars
      PROVE  Paired
  <2> SUFFICES ASSUME NEW s \in SessionId, NEW d, d = slot'[s][Device],
                      NEW h, h = slot'[s][Phone]
               PROVE  IF slot'[s] # slot[s] /\ d # NoPeer /\ h # NoPeer
                      THEN Told(d, Ready(Device, h)) /\ Told(h, Ready(Phone, d))
                      ELSE \A x \in {d, h} \ {NoPeer} :
                             Len(out'[x]) > Len(out[x])
                               => out'[x][Len(out'[x])].type # "ready"
    BY DEF Told
  <2> QED
    BY <1>1, ReadyStep
<1>2. Handlers /\ Handlers' /\ RegistryOK /\ RegistryOK' /\ FramesKnow /\ [Next]_vars
        => [Paired]_vars
  BY <1>1
<1>3. [][Paired]_vars => ReadyWhenPaired
  BY DEF ReadyWhenPaired
<1> QED
  BY <1>2, <1>3, FramesInvariant, PTL DEF Spec
=============================================================================
