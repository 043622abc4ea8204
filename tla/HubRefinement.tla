--------------------------- MODULE HubRefinement ---------------------------
(***************************************************************************)
(* Hub implements Pairing: every step of the registry's goroutines is a     *)
(* step of the abstract registry or invisible to it.  The mapping needs the *)
(* invariants of HubProofs: readySent is read as "both were told" only      *)
(* because it agrees with the slots, and a departure frees the leaver's own *)
(* place only because no slot is stale.                                     *)
(***************************************************************************)
EXTENDS HubProofs

\* The places, roles and sets of the abstract registry are those of Hub.
LEMMA SameRoles ==
  /\ Abstract!Role = Role /\ Abstract!Device = Device /\ Abstract!Phone = Phone
  /\ \A r \in Role : Abstract!Other(r) = Other(r)
BY DEF Abstract!Role, Abstract!Device, Abstract!Phone, Abstract!Other,
       Role, Device, Phone, Other

Displacing(q) == at[q] \in {"announcing", "replacing"}

\* Who is displaced, told by the peer.
LEMMA DisplacedIs ==
  /\ \A x \in Peer : x \in Displaced <=>
       \/ timer[x] \in {"sending", "closing"}
       \/ \E q \in Peer : Displacing(q) /\ target[q] = x
  /\ TypeOK => Displaced \subseteq Peer
<1>1. \A x \in Peer : x # NoPeer
  BY HubAssumption DEF HubAssumption
<1> QED
  BY <1>1 DEF Displaced, Displacing, TypeOK, PeerOrNil

\* A step that leaves the timers' last states and the displacing handlers
\* alone displaces nobody and dismisses nobody.
LEMMA DisplacedKept ==
  ASSUME TypeOK, TypeOK',
         \A x \in Peer : /\ timer'[x] \in {"sending", "closing"}
                              <=> timer[x] \in {"sending", "closing"}
                         /\ Displacing(x) => target'[x] = target[x]
                         /\ Displacing(x)' => Displacing(x) \/ target'[x] = NoPeer
                         /\ Displacing(x) => Displacing(x)' \/ target[x] = NoPeer
  PROVE  Displaced' = Displaced
<1>1. \A x \in Peer : x # NoPeer
  BY HubAssumption DEF HubAssumption
<1>2. \A x \in Peer : x \in Displaced' <=>
       \/ timer'[x] \in {"sending", "closing"}
       \/ \E q \in Peer : Displacing(q)' /\ target'[q] = x
  BY <1>1 DEF Displaced, Displacing
<1>3. Displaced \subseteq Peer /\ Displaced' \subseteq Peer
  BY DEF Displaced, TypeOK, PeerOrNil
<1>4. \A x \in Peer : x \in Displaced' <=> x \in Displaced
  BY <1>1, <1>2, DisplacedIs
<1> QED
  BY <1>3, <1>4

LEMMA OwedKept ==
  ASSUME \A x \in Peer : /\ at'[x] = "leaving" <=> at[x] = "leaving"
                         /\ at[x] = "leaving" => target'[x] = target[x]
  PROVE  Owed' = Owed
BY DEF Owed

\* The abstract variables that the properties above do not compute.
LEMMA Invisible ==
  ASSUME UNCHANGED <<slot, readySent>>, sweep' = "open" <=> sweep = "open",
         \A x \in Peer : at'[x] = "dialing" <=> at[x] = "dialing",
         Displaced' = Displaced, Owed' = Owed
  PROVE  Abstract!Quiet
BY DEF Abstract!Quiet

-----------------------------------------------------------------------------
(* The steps that the abstract registry sees *)

\* A rejected join and a join that registers are the two ends of an attempt.
LEMMA RejectRefuses ==
  ASSUME TypeOK, TypeOK', NEW p \in Peer, NEW r, NEW l, JoinRejected(p, r, l)
  PROVE  Abstract!Refuse(p)
<1>1. /\ at[p] = "dialing" /\ at' = [at EXCEPT ![p] = "gone"]
      /\ UNCHANGED <<slot, readySent, timer, target, sweep>>
  BY DEF JoinRejected, registry
<1>2. Displaced' = Displaced
  BY <1>1, DisplacedKept DEF TypeOK, Displacing
<1>3. Owed' = Owed
  BY <1>1, OwedKept DEF TypeOK
<1>4. {x \in Peer : at'[x] # "dialing"} = {x \in Peer : at[x] # "dialing"} \cup {p}
  BY <1>1 DEF TypeOK
<1> QED
  BY <1>1, <1>2, <1>3, <1>4 DEF Abstract!Refuse

LEMMA RegisterEnters ==
  ASSUME Handlers, Handlers', RegistryOK,
         NEW p \in Peer, NEW r \in Role, NEW l \in Label, JoinRegister(p, r, l)
  PROVE  Abstract!Enter(p, Lower[l], r)
<1> USE DEF Handlers
<1> DEFINE s == Lower[l]
           complete == slot[s][Other(r)] # NoPeer
<1>1. s \in SessionId /\ Other(r) \in Role /\ p # NoPeer
  BY HubAssumption DEF HubAssumption, Other, Role
<1>2. /\ at[p] = "dialing" /\ at' = [at EXCEPT ![p] = "announcing"]
      /\ slot' = [slot EXCEPT ![s][r] = p]
      /\ readySent' = [readySent EXCEPT ![s] = complete \/ StillSent(s, r)]
      /\ target' = [target EXCEPT ![p] = slot[s][r]]
      /\ UNCHANGED sweep
  BY DEF JoinRegister
<1>3. \A x \in Peer : timer'[x] \in {"sending", "closing"}
                       <=> timer[x] \in {"sending", "closing"}
  <2>1. timer[p] = "off"
    BY <1>2 DEF HandlersOK
  <2> QED
    BY <2>1, StoppedType DEF JoinRegister, TypeOK
<1>4. readySent'[s] = complete
  \* a pairing that is still marked has a partner
  <2>1. readySent[s] => complete
    BY <1>1 DEF RegistryOK, ReadySentIffPaired
  <2> QED
    BY <1>1, <1>2, <2>1 DEF TypeOK, StillSent
<1>5. {x \in SessionId : readySent'[x]} =
        IF complete THEN {x \in SessionId : readySent[x]} \cup {s}
        ELSE {x \in SessionId : readySent[x]} \ {s}
  BY <1>1, <1>2, <1>4 DEF TypeOK
<1>6. {x \in Peer : at'[x] # "dialing"} = {x \in Peer : at[x] # "dialing"} \cup {p}
  BY <1>2 DEF TypeOK
<1>7. Displaced' = Displaced \cup ({slot[s][r]} \ {NoPeer})
  <2>1. slot[s][r] \in PeerOrNil
    BY <1>1 DEF TypeOK
  <2>2. \A x \in Peer : x # NoPeer
    BY HubAssumption DEF HubAssumption
  <2>3. \A x \in Peer : x \in Displaced' <=>
          \/ timer'[x] \in {"sending", "closing"}
          \/ \E q \in Peer : Displacing(q)' /\ target'[q] = x
    BY <2>2 DEF Displaced, Displacing
  <2>4. /\ ~Displacing(p) /\ Displacing(p)' /\ target'[p] = slot[s][r]
        /\ \A q \in Peer : q # p => /\ Displacing(q)' <=> Displacing(q)
                                     /\ target'[q] = target[q]
    BY <1>2 DEF Displacing, TypeOK
  <2>5. ASSUME NEW x \in Peer
        PROVE  x \in Displaced' <=> x \in Displaced \/ x = slot[s][r]
    <3>1. ASSUME NEW q \in Peer, Displacing(q)', target'[q] = x
          PROVE  \/ Displacing(q) /\ target[q] = x
                 \/ x = slot[s][r]
      <4>1. CASE q = p
        BY <2>4, <3>1, <4>1
      <4>2. CASE q # p
        BY <2>4, <3>1, <4>2
      <4> QED
        BY <4>1, <4>2
    <3>2. ASSUME NEW q \in Peer, Displacing(q), target[q] = x
          PROVE  Displacing(q)' /\ target'[q] = x
      <4>1. q # p
        BY <2>4, <3>2
      <4>2. at'[q] = at[q] /\ target'[q] = target[q]
        BY <1>2, <4>1 DEF TypeOK
      <4> QED
        BY <3>2, <4>2 DEF Displacing
    <3>3. x = slot[s][r] => Displacing(p)' /\ target'[p] = x
      BY <2>4
    <3> QED
      BY <1>3, <2>3, <3>1, <3>2, <3>3, DisplacedIs
  <2>6. Displaced \subseteq Peer /\ Displaced' \subseteq Peer
    BY DEF Displaced, TypeOK, PeerOrNil
  <2> QED
    BY <2>1, <2>2, <2>5, <2>6 DEF PeerOrNil
<1>8. Owed' = Owed
  BY <1>2, OwedKept DEF TypeOK
<1> QED
  BY <1>1, <1>2, <1>5, <1>6, <1>7, <1>8, SameRoles
  DEF Abstract!Enter, Abstract!Somebody

\* leave of a peer that still has its slot: its place is free, and the peer
\* it captured under the mutex is the one that is owed the bye.
LEMMA LeaveDeparts ==
  ASSUME Handlers, Handlers', NEW p \in Peer, Leave(p), Holds(p),
         NEW s \in SessionId, NEW r \in Role, s = Sid(p), r = role[p]
  PROVE  Abstract!Depart(s, r)
<1> USE DEF Handlers
<1> DEFINE q == Counterpart(p)
<1>1. at[p] = "serving" /\ Other(r) \in Role /\ p # NoPeer
  BY HubAssumption DEF Leave, HubAssumption, Other, Role
<1>2. /\ slot[s][r] = p
      /\ slot' = [slot EXCEPT ![s][r] = NoPeer]
      /\ readySent' = [readySent EXCEPT ![s] = FALSE]
      /\ timer' = Stopped({s})
      /\ target' = [target EXCEPT ![p] = q]
      /\ at' = [at EXCEPT ![p] = IF q = NoPeer THEN "gone" ELSE "leaving"]
      /\ UNCHANGED sweep
  BY DEF Leave, Vacate, Holds
<1>3. {x \in SessionId : readySent'[x]} = {x \in SessionId : readySent[x]} \ {s}
  BY <1>1, <1>2 DEF TypeOK
<1>4. {x \in Peer : at'[x] # "dialing"} = {x \in Peer : at[x] # "dialing"}
  BY <1>1, <1>2 DEF TypeOK
<1>5. Displaced' = Displaced
  <2>1. \A x \in Peer : timer'[x] \in {"sending", "closing"}
                         <=> timer[x] \in {"sending", "closing"}
    BY <1>2, StoppedType
  <2> HIDE DEF q
  <2> QED
    BY <1>1, <1>2, <2>1, DisplacedKept DEF Displacing, TypeOK
<1>6. Owed' = Owed \cup (({q} \ {NoPeer}) \X {p})
  <2>1. \A x \in Peer : x # p => at'[x] = at[x] /\ target'[x] = target[x]
    BY <1>2 DEF TypeOK
  <2>2. at[p] # "leaving" /\ at'[p] = "leaving" <=> q # NoPeer
    BY <1>1, <1>2 DEF TypeOK
  <2>3. target'[p] = q
    BY <1>2 DEF TypeOK
  <2> HIDE DEF q
  <2>4. CASE q = NoPeer
    BY <1>1, <2>1, <2>2, <2>4 DEF Owed
  <2>5. CASE q # NoPeer
    <3>1. {x \in Peer : at'[x] = "leaving"} =
            {x \in Peer : at[x] = "leaving"} \cup {p}
      BY <2>1, <2>2, <2>5
    <3>2. ({q} \ {NoPeer}) \X {p} = {<<q, p>>}
      BY <2>5
    <3>3. \A x \in Peer : at[x] = "leaving" => target'[x] = target[x]
      BY <1>1, <2>1
    <3> QED
      BY <2>3, <3>1, <3>2, <3>3 DEF Owed
  <2> QED
    BY <2>4, <2>5
<1> QED
  BY <1>1, <1>2, <1>3, <1>4, <1>5, <1>6, SameRoles
  DEF Abstract!Depart, Abstract!Free, Abstract!Somebody, Counterpart

\* expireLonely of a device that is still alone.
LEMMA ExpiryExpires ==
  ASSUME Handlers, Handlers', NEW p \in Peer, ExpireLonely(p), StillLonely(p),
         NEW s \in SessionId, s = Sid(p)
  PROVE  Abstract!Expire(s)
<1> USE DEF Handlers
<1>1. Device \in Role /\ Phone \in Role /\ p # NoPeer
  BY HubAssumption DEF HubAssumption, Role
<1>2. /\ slot[s][Device] = p /\ slot[s][Phone] = NoPeer
      /\ slot' = [slot EXCEPT ![s][Device] = NoPeer]
      /\ readySent' = [readySent EXCEPT ![s] = FALSE]
      /\ timer[p] = "firing" /\ timer' = [timer EXCEPT ![p] = "sending"]
      /\ UNCHANGED <<at, target, sweep>>
  BY DEF ExpireLonely, Vacate, StillLonely, handlers
<1>3. {x \in SessionId : readySent'[x]} = {x \in SessionId : readySent[x]} \ {s}
  BY <1>1, <1>2 DEF TypeOK
<1>4. Displaced' = Displaced \cup {p}
  <2>1. \A x \in Peer : x # NoPeer
    BY HubAssumption DEF HubAssumption
  <2>2. \A x \in Peer : x \in Displaced' <=>
          \/ timer'[x] \in {"sending", "closing"}
          \/ \E q \in Peer : Displacing(q)' /\ target'[q] = x
    BY <2>1 DEF Displaced, Displacing
  <2>3. \A x \in Peer : x \in Displaced' <=> x \in Displaced \/ x = p
    BY <1>2, <2>2, DisplacedIs DEF Displacing, TypeOK
  <2>4. Displaced \subseteq Peer /\ Displaced' \subseteq Peer
    BY DEF Displaced, TypeOK, PeerOrNil
  <2> QED
    BY <2>3, <2>4
<1>5. Owed' = Owed
  BY <1>2, OwedKept
<1> QED
  BY <1>1, <1>2, <1>3, <1>4, <1>5, SameRoles
  DEF Abstract!Expire, Abstract!Free

\* The bye that leave sends after it unlocked.
LEMMA ByeTells ==
  ASSUME TypeOK, TypeOK', NEW p \in Peer, LeaveSend(p)
  PROVE  Abstract!Tell(target[p], p)
<1>1. /\ at[p] = "leaving" /\ at' = [at EXCEPT ![p] = "gone"]
      /\ target' = [target EXCEPT ![p] = NoPeer]
      /\ UNCHANGED <<slot, readySent, timer, sweep>>
  BY DEF LeaveSend, registry
<1>2. Displaced' = Displaced
  BY <1>1, DisplacedKept DEF Displacing, TypeOK
<1>3. Owed' = Owed \ {<<target[p], p>>}
  <2>1. \A x \in Peer : x # p => at'[x] = at[x] /\ target'[x] = target[x]
    BY <1>1 DEF TypeOK
  <2>2. {x \in Peer : at'[x] = "leaving"} = {x \in Peer : at[x] = "leaving"} \ {p}
    BY <1>1, <2>1 DEF TypeOK
  <2> QED
    BY <2>1, <2>2 DEF Owed
<1>4. <<target[p], p>> \in Owed
  BY <1>1 DEF Owed
<1>5. {x \in Peer : at'[x] # "dialing"} = {x \in Peer : at[x] # "dialing"}
  BY <1>1 DEF TypeOK
<1> QED
  BY <1>1, <1>2, <1>3, <1>4, <1>5 DEF Abstract!Tell

\* A close after the unlock: the peer is dismissed, unless somebody else is
\* still about to close it too.
LEMMA CloseDismisses ==
  ASSUME Handlers, Handlers', NEW x \in Peer, closeReason'[x] # "none",
         UNCHANGED <<slot, readySent, sweep>>, Owed' = Owed,
         \A q \in Peer : at'[q] = "dialing" <=> at[q] = "dialing",
         x \in Displaced,
         \A y \in Peer : y # x => (y \in Displaced' <=> y \in Displaced)
  PROVE  Abstract!Quiet \/ Abstract!Dismiss(x)
<1>1. Displaced \subseteq Peer /\ Displaced' \subseteq Peer
  <2>1. TypeOK /\ target' \in [Peer -> Peer \cup {NoPeer}]
    BY DEF Handlers, TypeOK, PeerOrNil
  <2> QED
    BY <2>1, DisplacedIs DEF Displaced
<1>2. CASE x \in Displaced'
  <2>1. Displaced' = Displaced
    BY <1>1, <1>2
  <2> QED
    BY <2>1, Invisible
<1>3. CASE x \notin Displaced'
  <2>1. Displaced' = Displaced \ {x}
    BY <1>1, <1>3
  <2>2. {q \in Peer : at'[q] # "dialing"} = {q \in Peer : at[q] # "dialing"}
    OBVIOUS
  <2> QED
    BY <2>1, <2>2 DEF Abstract!Dismiss
<1> QED
  BY <1>2, <1>3

-----------------------------------------------------------------------------
(* Every step *)

LEMMA RefinementStep ==
  Handlers /\ Handlers' /\ RegistryOK /\ [Next]_vars
    => [Abstract!Next]_(Abstract!abstract)
<1> SUFFICES ASSUME Handlers, Handlers', RegistryOK, [Next]_vars
             PROVE  Abstract!Next \/ UNCHANGED Abstract!abstract
  OBVIOUS
<1>a. TypeOK /\ TypeOK'
  BY DEF Handlers
<1>b. Abstract!MoreClosing
  BY CloseStays DEF Abstract!MoreClosing
<1>c. ASSUME NEW p \in Peer, Abstract!Quiet \/ Abstract!Refuse(p) \/ Abstract!Dismiss(p)
      PROVE  Abstract!Next
  BY <1>b, <1>c DEF Abstract!Next
<1>e. ASSUME NEW s \in SessionId, NEW r \in Role,
             Abstract!Depart(s, r) \/ Abstract!Expire(s)
      PROVE  Abstract!Next
  BY <1>b, <1>e, SameRoles DEF Abstract!Next
<1>f. ASSUME NEW p \in Peer, NEW q \in Peer, Abstract!Tell(q, p)
      PROVE  Abstract!Next
  BY <1>b, <1>f DEF Abstract!Next
<1>d. ASSUME UNCHANGED <<slot, readySent, timer>>, sweep' = "open" <=> sweep = "open",
             \A x \in Peer : /\ at'[x] = "dialing" <=> at[x] = "dialing"
                             /\ at'[x] = "leaving" <=> at[x] = "leaving"
                             /\ Displacing(x)' <=> Displacing(x)
                             /\ Displacing(x) => target'[x] = target[x]
                             /\ at[x] = "leaving" => target'[x] = target[x]
      PROVE  Abstract!Next
  <2>1. Displaced' = Displaced
    BY <1>a, <1>d, DisplacedKept
  <2>2. Owed' = Owed
    BY <1>d, OwedKept
  <2>3. Abstract!Quiet
    BY <1>d, <2>1, <2>2, Invisible
  <2> QED
    BY <1>b, <2>3 DEF Abstract!Next
<1>1. ASSUME NEW p \in Peer, NEW r \in RoleInput, NEW l \in LabelInput,
             JoinRejected(p, r, l)
      PROVE  Abstract!Next
  BY <1>1, <1>a, <1>c, RejectRefuses
<1>2. ASSUME NEW p \in Peer, NEW r \in Role, NEW l \in Label,
             JoinRegister(p, r, l)
      PROVE  Abstract!Next
  <2>1. Abstract!Enter(p, Lower[l], r)
    BY <1>2, RegisterEnters
  <2>2. Lower[l] \in SessionId
    BY HubAssumption DEF HubAssumption
  <2> QED
    BY <1>b, <2>1, <2>2, SameRoles DEF Abstract!Next
<1>3. ASSUME NEW p \in Peer, JoinAnnounce(p)
      PROVE  Abstract!Next
  <2>1. /\ at[p] = "announcing" /\ UNCHANGED <<slot, readySent, timer, sweep, target>>
        /\ at' = [at EXCEPT ![p] = IF target[p] = NoPeer THEN "serving"
                                   ELSE "replacing"]
    BY <1>3 DEF JoinAnnounce, Announce, registry
  <2>2. Displaced' = Displaced
    BY <1>a, <2>1, DisplacedKept DEF TypeOK, Displacing
  <2>3. Owed' = Owed
    BY <1>a, <2>1, OwedKept DEF TypeOK
  <2>4. Abstract!Quiet
    BY <1>a, <2>1, <2>2, <2>3, Invisible DEF TypeOK
  <2> QED
    BY <1>c, <2>4
<1>4. ASSUME NEW p \in Peer, CloseReplaced(p)
      PROVE  Abstract!Next
  <2>0. PICK x \in Peer : x = target[p]
    BY <1>4 DEF CloseReplaced, Handlers, HandlersOK
  <2>1. /\ at[p] = "replacing"
        /\ closeReason' = [closeReason EXCEPT ![x] = FirstReason(x, "replaced")]
        /\ at' = [at EXCEPT ![p] = "serving"]
        /\ target' = [target EXCEPT ![p] = NoPeer]
        /\ UNCHANGED <<slot, readySent, timer, sweep>>
    BY <1>4, <2>0 DEF CloseReplaced, registry
  <2>2. closeReason'[x] # "none"
    BY <1>a, <2>1, FirstReasonType DEF TypeOK, CloseReason
  <2>3. Owed' = Owed
    BY <1>a, <2>1, OwedKept DEF TypeOK
  <2>4. \A q \in Peer : at'[q] = "dialing" <=> at[q] = "dialing"
    BY <1>a, <2>1 DEF TypeOK
  <2>5. \A y \in Peer : y # NoPeer
    BY HubAssumption DEF HubAssumption
  <2>6. x \in Displaced
    BY <2>0, <2>1, DisplacedIs DEF Displacing
  <2>7. ASSUME NEW y \in Peer, y # x
        PROVE  y \in Displaced' <=> y \in Displaced
    <3>1. y \in Displaced' <=>
            \/ timer'[y] \in {"sending", "closing"}
            \/ \E q \in Peer : Displacing(q)' /\ target'[q] = y
      BY <2>5 DEF Displaced, Displacing
    <3>2. ASSUME NEW q \in Peer
          PROVE  /\ Displacing(q)' /\ target'[q] = y
                   <=> Displacing(q) /\ target[q] = y
      BY <1>a, <2>0, <2>1, <2>5, <2>7 DEF TypeOK, Displacing
    <3> QED
      BY <2>1, <3>1, <3>2, DisplacedIs
  <2>8. Abstract!Quiet \/ Abstract!Dismiss(x)
    BY <2>1, <2>2, <2>3, <2>4, <2>6, <2>7, CloseDismisses
  <2> QED
    BY <1>c, <2>1, <2>8
<1>5. ASSUME NEW p \in Peer, Forward(p)
      PROVE  Abstract!Next
  <2>1. /\ at[p] = "serving" /\ UNCHANGED <<slot, readySent, timer, sweep>>
        /\ \/ UNCHANGED <<at, target>>
           \/ /\ at' = [at EXCEPT ![p] = "relaying"]
              /\ target' = [target EXCEPT ![p] = Counterpart(p)]
    BY <1>5 DEF Forward, registry
  <2> QED
    BY <1>a, <1>d, <2>1 DEF TypeOK, Displacing
<1>6. ASSUME NEW p \in Peer, ForwardSend(p)
      PROVE  Abstract!Next
  BY <1>6, <1>a, <1>d DEF ForwardSend, registry, TypeOK, Displacing
<1>7. ASSUME NEW p \in Peer, Leave(p)
      PROVE  Abstract!Next
  <2>1. CASE Holds(p)
    <3>1. PICK s \in SessionId, r \in Role : s = Sid(p) /\ r = role[p]
      BY <1>7, HubAssumption
      DEF Leave, Handlers, HandlersOK, Sid, HubAssumption
    <3>2. Abstract!Depart(s, r)
      BY <1>7, <2>1, <3>1, LeaveDeparts
    <3> QED
      BY <1>e, <3>2
  <2>2. CASE ~Holds(p)
    <3>1. /\ at[p] = "serving" /\ at' = [at EXCEPT ![p] = "gone"]
          /\ UNCHANGED <<slot, readySent, timer, sweep, target>>
      BY <1>7, <2>2 DEF Leave, registry
    <3> QED
      BY <1>a, <1>d, <3>1 DEF TypeOK, Displacing
  <2> QED
    BY <2>1, <2>2
<1>8. ASSUME NEW p \in Peer, LeaveSend(p)
      PROVE  Abstract!Next
  <2>1. Abstract!Tell(target[p], p) /\ target[p] \in Peer
    BY <1>8, <1>a, ByeTells DEF LeaveSend, Handlers, HandlersOK
  <2> QED
    BY <1>f, <2>1
<1>9. ASSUME NEW p \in Peer, timer[p] \in {"armed", "firing", "sending"},
             timer' = [timer EXCEPT ![p] = IF timer[p] = "sending" THEN "closing"
                                           ELSE IF timer[p] = "armed" THEN "firing"
                                           ELSE "done"],
             UNCHANGED <<slot, readySent, at, target, sweep>>
      PROVE  Abstract!Next
  <2>1. Displaced' = Displaced
    BY <1>a, <1>9, DisplacedKept DEF TypeOK, Displacing
  <2>2. Owed' = Owed
    BY <1>9, OwedKept
  <2>3. Abstract!Quiet
    BY <1>9, <2>1, <2>2, Invisible
  <2> QED
    BY <1>c, <2>3
<1>10. ASSUME NEW p \in Peer, LonelyFires(p) \/ ExpireSend(p)
       PROVE  Abstract!Next
  BY <1>9, <1>10 DEF LonelyFires, ExpireSend, registry, handlers
<1>11. ASSUME NEW p \in Peer, ExpireLonely(p)
       PROVE  Abstract!Next
  <2>1. CASE StillLonely(p)
    <3>1. PICK s \in SessionId : s = Sid(p)
      BY <1>11, HubAssumption
      DEF ExpireLonely, Handlers, HandlersOK, Sid, HubAssumption
    <3>2. Abstract!Expire(s)
      BY <1>11, <2>1, <3>1, ExpiryExpires
    <3> QED
      BY <1>e, <3>2 DEF Role
  <2>2. CASE ~StillLonely(p)
    BY <1>9, <1>11, <2>2 DEF ExpireLonely, registry, handlers
  <2> QED
    BY <2>1, <2>2
<1>12. ASSUME NEW p \in Peer, ExpireClose(p)
       PROVE  Abstract!Next
  <2>1. /\ timer[p] = "closing" /\ timer' = [timer EXCEPT ![p] = "done"]
        /\ closeReason' = [closeReason EXCEPT ![p] = FirstReason(p, "no receiver")]
        /\ UNCHANGED <<slot, readySent, at, target, sweep>>
    BY <1>12 DEF ExpireClose, registry, handlers
  <2>2. closeReason'[p] # "none"
    BY <1>a, <2>1, FirstReasonType DEF TypeOK, CloseReason
  <2>3. Owed' = Owed
    BY <2>1, OwedKept
  <2>4. \A y \in Peer : y # NoPeer
    BY HubAssumption DEF HubAssumption
  <2>5. p \in Displaced
    BY <2>1, DisplacedIs
  <2>6. ASSUME NEW y \in Peer, y # p
        PROVE  y \in Displaced' <=> y \in Displaced
    <3>1. y \in Displaced' <=>
            \/ timer'[y] \in {"sending", "closing"}
            \/ \E q \in Peer : Displacing(q)' /\ target'[q] = y
      BY <2>4 DEF Displaced, Displacing
    <3> QED
      BY <1>a, <2>1, <2>6, <3>1, DisplacedIs DEF TypeOK, Displacing
  <2>7. Abstract!Quiet \/ Abstract!Dismiss(p)
    BY <2>1, <2>2, <2>3, <2>5, <2>6, CloseDismisses
  <2> QED
    BY <1>c, <2>7
<1>13. ASSUME NEW p \in Peer, Drain(p)
       PROVE  Abstract!Next
  BY <1>d, <1>13 DEF Drain, registry, handlers, Displacing
<1>14. CASE CloseSweep
  <2>1. /\ sweep = "open" /\ sweep' = "swept"
        /\ slot' = [s \in SessionId |-> [r \in Role |-> NoPeer]]
        /\ readySent' = [s \in SessionId |-> FALSE]
        /\ timer' = Stopped(live) /\ UNCHANGED <<at, target>>
    BY <1>14 DEF CloseSweep, handlers
  <2>2. Displaced' = Displaced
    BY <1>a, <2>1, StoppedType, DisplacedKept DEF Displacing
  <2>3. Owed' = Owed
    BY <2>1, OwedKept
  <2>4. {s \in SessionId : readySent'[s]} = {}
    BY <2>1
  <2>5. Abstract!Reset
    BY <2>1, <2>2, <2>3, <2>4, SameRoles DEF Abstract!Reset, Abstract!Empty
  <2> QED
    BY <1>b, <2>5 DEF Abstract!Next
<1>15. CASE CloseGauge
  BY <1>d, <1>15 DEF CloseGauge, registry, handlers, Displacing
<1>16. CASE UNCHANGED vars
  BY <1>16 DEF vars, Abstract!abstract, Displaced, Owed
<1> QED
  BY <1>1, <1>2, <1>3, <1>4, <1>5, <1>6, <1>7, <1>8, <1>10, <1>11, <1>12,
     <1>13, <1>14, <1>15, <1>16
  DEF Next, Handler, LonelyTimer

\* The registry with its mutex, timers and channels implements the abstract
\* one: what goroutines do between two critical sections never shows in who
\* has which place, who was told of whom, and who is owed a bye or a close.
THEOREM ImplementsPairing == Spec => PairingSafety
<1>1. Init => Abstract!Init
  <2> SUFFICES ASSUME Init PROVE Abstract!Init
    OBVIOUS
  <2>1. /\ Displaced = {} /\ Owed = {}
        /\ {p \in Peer : at[p] # "dialing"} = {}
        /\ {p \in Peer : closeReason[p] # "none"} = {}
        /\ {s \in SessionId : readySent[s]} = {}
        /\ sweep = "open"
    BY DEF Init, Displaced, Owed
  <2>2. slot = [s \in SessionId |-> [r \in Role |-> NoPeer]]
    BY DEF Init
  <2> QED
    BY <2>1, <2>2, SameRoles DEF Abstract!Init, Abstract!Empty
<1> QED
  BY <1>1, RegistryInvariant, RefinementStep, PTL
  DEF Spec, PairingSafety, Abstract!Safety

-----------------------------------------------------------------------------
(* What the abstract registry is worth *)

LEMMA SettledStep ==
  Abstract!Settled /\ [Abstract!Next]_(Abstract!abstract)
    => Abstract!Settled' /\ Abstract!NobodyReturns
<1> DEFINE used == {p \in Peer : at[p] # "dialing"}
           agreed == {s \in SessionId : readySent[s]}
           Goal == Abstract!Settled' /\ Abstract!NobodyReturns
<1> SUFFICES ASSUME Abstract!Settled, [Abstract!Next]_(Abstract!abstract)
             PROVE  Goal
  OBVIOUS
<1>r. Abstract!Role = Role /\ Abstract!Phone \in Role /\ Abstract!Device \in Role
      /\ \A r \in Role : Abstract!Other(r) \in Role /\ Abstract!Other(r) # r
                         /\ \A u \in Role : u = r \/ u = Abstract!Other(r)
  BY DEF Abstract!Role, Abstract!Device, Abstract!Phone, Abstract!Other,
         Role, Device, Phone, Other
<1>0. /\ slot \in [SessionId -> [Role -> Peer \cup {NoPeer}]]
      /\ Displaced \subseteq used
      /\ \A s \in SessionId, r \in Role :
           slot[s][r] # NoPeer => slot[s][r] \in used \ Displaced
      /\ \A s, t \in SessionId : \A r, u \in Role :
           slot[s][r] = slot[t][u] /\ slot[s][r] # NoPeer => s = t /\ r = u
      /\ agreed = {s \in SessionId : \A r \in Role : slot[s][r] # NoPeer}
  BY <1>r DEF Abstract!Settled, Abstract!Somebody
<1>g. ASSUME slot' \in [SessionId -> [Role -> Peer \cup {NoPeer}]],
             Displaced' \subseteq used',
             \A s \in SessionId, r \in Role :
               slot'[s][r] # NoPeer => slot'[s][r] \in used' \ Displaced',
             \A s, t \in SessionId : \A r, u \in Role :
               slot'[s][r] = slot'[t][u] /\ slot'[s][r] # NoPeer => s = t /\ r = u,
             agreed' = {s \in SessionId : \A r \in Role : slot'[s][r] # NoPeer},
             \A s \in SessionId, r \in Role :
               slot'[s][r] \in used => slot'[s][r] = slot[s][r]
      PROVE  Goal
  BY <1>r, <1>g DEF Abstract!Settled, Abstract!NobodyReturns, Abstract!Somebody
<1>n. NoPeer \notin Peer
  BY HubAssumption DEF HubAssumption
<1> HIDE DEF used, agreed, Goal
<1>1. ASSUME NEW p \in Peer, NEW s \in SessionId, NEW r \in Role,
             Abstract!Enter(p, s, r)
      PROVE  Goal
  <2>1. /\ slot' = [slot EXCEPT ![s][r] = p]
        /\ p \notin used /\ used' = used \cup {p}
        /\ agreed' = IF slot[s][Abstract!Other(r)] # NoPeer THEN agreed \cup {s}
                     ELSE agreed \ {s}
        /\ Displaced' = Displaced \cup ({slot[s][r]} \ {NoPeer})
    BY <1>1 DEF Abstract!Enter, Abstract!Somebody, used, agreed
  <2>2. \A t \in SessionId, u \in Role :
          slot'[t][u] = IF t = s /\ u = r THEN p ELSE slot[t][u]
    BY <1>0, <2>1
  <2>3. slot' \in [SessionId -> [Role -> Peer \cup {NoPeer}]]
    BY <1>0, <2>1
  <2>4. agreed' = {t \in SessionId : \A u \in Role : slot'[t][u] # NoPeer}
    BY <1>0, <1>n, <1>r, <2>1, <2>2
  <2> QED
    BY <1>0, <1>g, <1>n, <2>1, <2>2, <2>3, <2>4
<1>2. ASSUME NEW s \in SessionId, NEW r \in Role, Abstract!Free(s, r),
             Displaced' = Displaced \/ Displaced' = Displaced \cup {slot[s][r]}
      PROVE  Goal
  <2>1. /\ slot' = [slot EXCEPT ![s][r] = NoPeer]
        /\ slot[s][r] # NoPeer
        /\ used' = used
        /\ agreed' = agreed \ {s}
    BY <1>2 DEF Abstract!Free, used, agreed
  <2>2. \A t \in SessionId, u \in Role :
          slot'[t][u] = IF t = s /\ u = r THEN NoPeer ELSE slot[t][u]
    BY <1>0, <2>1
  <2>3. slot' \in [SessionId -> [Role -> Peer \cup {NoPeer}]]
    BY <1>0, <2>1
  <2>4. agreed' = {t \in SessionId : \A u \in Role : slot'[t][u] # NoPeer}
    BY <1>0, <2>1, <2>2
  <2> QED
    BY <1>0, <1>2, <1>g, <1>n, <2>1, <2>2, <2>3, <2>4 DEF used
<1>3. ASSUME slot' = slot, agreed' = agreed, used \subseteq used',
             Displaced' \subseteq Displaced
      PROVE  Goal
  BY <1>0, <1>3, <1>g
<1>4. ASSUME NEW s \in SessionId, NEW r \in Role, Abstract!Depart(s, r)
      PROVE  Goal
  BY <1>2, <1>4 DEF Abstract!Depart
<1>5. ASSUME NEW s \in SessionId, Abstract!Expire(s)
      PROVE  Goal
  <2>1. Device \in Role /\ Abstract!Device = Device
    BY DEF Role, Abstract!Device, Device
  <2> QED
    BY <1>2, <1>5, <2>1 DEF Abstract!Expire
<1>6. CASE Abstract!Quiet \/ \E p, q \in Peer : Abstract!Tell(p, q)
  BY <1>3, <1>6 DEF Abstract!Quiet, Abstract!Tell, used, agreed
<1>7. CASE \E p \in Peer : Abstract!Refuse(p) \/ Abstract!Dismiss(p)
  BY <1>3, <1>7 DEF Abstract!Refuse, Abstract!Dismiss, used, agreed
<1>8. CASE Abstract!Reset
  <2>1. /\ slot' = [s \in SessionId |-> [r \in Role |-> NoPeer]]
        /\ used' = used /\ agreed' = {} /\ Displaced' = Displaced
    BY <1>r, <1>8 DEF Abstract!Reset, Abstract!Empty, used, agreed
  <2>2. Abstract!Phone \in Role
    BY <1>r
  <2>3. NoPeer \notin used
    BY <1>n DEF used
  <2> QED
    BY <1>0, <1>g, <2>1, <2>2, <2>3
<1>9. CASE UNCHANGED Abstract!abstract
  BY <1>3, <1>9 DEF Abstract!abstract, used, agreed
<1> QED
  BY <1>1, <1>4, <1>5, <1>6, <1>7, <1>8, <1>9, <1>r DEF Abstract!Next

\* Whoever implements the abstract registry gives a peer one place at most and
\* never a second one, and tells the two of a session of each other exactly
\* while both are there: what Pairing says is enough for that.
THEOREM PairsAreSettled ==
  PairingSafety => []Abstract!Settled /\ Abstract!LostForGood
<1>1. Abstract!Init => Abstract!Settled
  BY HubAssumption
  DEF HubAssumption, Abstract!Init, Abstract!Empty, Abstract!Settled,
      Abstract!Somebody, Abstract!Role
<1> QED
  BY <1>1, SettledStep, PTL DEF PairingSafety, Abstract!Safety, Abstract!LostForGood
=============================================================================
