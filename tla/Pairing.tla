------------------------------ MODULE Pairing ------------------------------
(***************************************************************************)
(* What the pairing registry promises, and nothing of how: no mutex, no     *)
(* channels, no timers, no goroutines.  A peer enters once, in one role of  *)
(* one session; the newest of a role has the place.  Hub implements this    *)
(* module (Hub!PairingSafety, Hub!PairingPromises).                         *)
(***************************************************************************)
CONSTANTS
  Peer,       \* connections, each of which joins at most once
  NoPeer,     \* nobody
  SessionId   \* where peers meet

Device == "device"
Phone  == "phone"
Role   == {Device, Phone}
Other(r) == IF r = Device THEN Phone ELSE Device

VARIABLES
  pair,       \* who has which place of a session
  agreed,     \* the sessions whose two peers were told of each other
  used,       \* peers that have had their one attempt to enter
  displaced,  \* peers that lost their place and are to be asked to leave
  closing,    \* peers that were asked to leave, for whatever reason
  owed,       \* <<p, q>>: q left, and its partner p is to be told
  open        \* the registry was not closed

abstract == <<pair, agreed, used, displaced, closing, owed, open>>

Somebody(p) == {p} \ {NoPeer}

Empty ==
  /\ pair = [s \in SessionId |-> [r \in Role |-> NoPeer]]
  /\ agreed = {}

Init ==
  /\ Empty
  /\ used = {} /\ displaced = {} /\ closing = {} /\ owed = {}
  /\ open = TRUE

\* A peer that does not keep up may be asked to leave at any time; nobody is
\* asked to stay.
MoreClosing == closing \subseteq closing'

\* p takes a place.  Who had it loses it without a word to the partner, and
\* if there is a partner both are told of each other.
Enter(p, s, r) ==
  /\ pair' = [pair EXCEPT ![s][r] = p]
  /\ p \notin used
  /\ used' = used \cup {p}
  /\ agreed' = IF pair[s][Other(r)] # NoPeer THEN agreed \cup {s}
               ELSE agreed \ {s}
  /\ displaced' = displaced \cup Somebody(pair[s][r])
  /\ UNCHANGED <<owed, open>>

\* An attempt that is turned down.
Refuse(p) ==
  /\ p \notin used
  /\ used' = used \cup {p}
  /\ UNCHANGED <<pair, agreed, displaced, owed, open>>

Free(s, r) ==
  /\ pair[s][r] # NoPeer
  /\ pair' = [pair EXCEPT ![s][r] = NoPeer]
  /\ agreed' = agreed \ {s}
  /\ UNCHANGED <<used, open>>

\* A peer leaves its place; the partner, if any, is owed a word.
Depart(s, r) ==
  /\ Free(s, r)
  /\ owed' = owed \cup (Somebody(pair[s][Other(r)]) \X {pair[s][r]})
  /\ UNCHANGED displaced

\* Only a device that is alone can be put out.
Expire(s) ==
  /\ pair[s][Phone] = NoPeer
  /\ Free(s, Device)
  /\ displaced' = displaced \cup {pair[s][Device]}
  /\ UNCHANGED owed

\* p is told that q left.
Tell(p, q) ==
  /\ <<p, q>> \in owed
  /\ owed' = owed \ {<<p, q>>}
  /\ UNCHANGED <<pair, agreed, used, displaced, open>>

\* A displaced peer is asked to leave.
Dismiss(p) ==
  /\ p \in displaced
  /\ p \in closing'
  /\ displaced' = displaced \ {p}
  /\ UNCHANGED <<pair, agreed, used, owed, open>>

\* Everybody loses his place, once.
Reset ==
  /\ open
  /\ open' = FALSE
  /\ Empty'
  /\ UNCHANGED <<used, displaced, owed>>

\* Nothing but somebody being asked to leave, if that.
Quiet == UNCHANGED <<pair, agreed, used, displaced, owed, open>>

Next ==
  /\ MoreClosing
  /\ \/ Quiet
     \/ \E p \in Peer : Refuse(p) \/ Dismiss(p)
     \/ \E p \in Peer, s \in SessionId, r \in Role : Enter(p, s, r)
     \/ \E p, q \in Peer : Tell(p, q)
     \/ \E s \in SessionId : Expire(s)
     \/ \E s \in SessionId, r \in Role : Depart(s, r)
     \/ Reset

Safety == Init /\ [][Next]_abstract

\* What is owed is paid, and who was displaced is asked to leave.
Promises ==
  /\ \A p, q \in Peer : <<p, q>> \in owed ~> <<p, q>> \notin owed
  /\ \A p \in Peer : p \in displaced ~> p \in closing

\* What follows for the clients.  Nobody has two places, or one after he was
\* displaced; who has or had one has entered; and the two of a session were
\* told of each other exactly while both are there.
Settled ==
  /\ pair \in [SessionId -> [Role -> Peer \cup {NoPeer}]]
  /\ displaced \subseteq used
  /\ \A s \in SessionId, r \in Role : Somebody(pair[s][r]) \subseteq used \ displaced
  /\ \A s, t \in SessionId : \A r, u \in Role :
       pair[s][r] = pair[t][u] /\ pair[s][r] # NoPeer => s = t /\ r = u
  /\ agreed = {s \in SessionId : \A r \in Role : pair[s][r] # NoPeer}

\* A place that was lost is not taken again by who lost it.
NobodyReturns ==
  \A s \in SessionId, r \in Role :
    Somebody(pair'[s][r]) \cap used \subseteq Somebody(pair[s][r])

LostForGood == [][NobodyReturns]_abstract
=============================================================================
