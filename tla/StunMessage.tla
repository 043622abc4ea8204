---------------------------- MODULE StunMessage ----------------------------
(***************************************************************************)
(* STUN packets, as the layers around the UDP socket of the relay read and  *)
(* rewrite them (turn/stun.go, turn/anyauth.go), and the credentials that    *)
(* decide about an allocation (turn/auth.go, signaling/credentials.go).     *)
(*                                                                         *)
(* A packet is [cookie, type, tx, realm, len, declared, attrs]: len is the  *)
(* number of bytes that arrived, declared the length its header claims.     *)
(* attrs are the headers a walk would meet if the packet had no end: [at,   *)
(* kind, len, val], at being the offset and len the length it claims.  A    *)
(* value is a tuple of what it says, not of its bytes: <<name>>, a Mac, or  *)
(* <<family, mask, address>>.  Digests are free terms: equal only for equal *)
(* inputs.                                                                 *)
(***************************************************************************)
EXTENDS Integers, Sequences

\* What two bytes of a digest say where a walk reads them as a length.
CONSTANT SpiltLen
ASSUME SpiltAssumption == SpiltLen \in 0 .. 65535

HeaderLen     == 20
IntegritySize == 20
Realm         == "jokertc"
Nothing       == <<>>        \* no address: the empty string of the code

Padded(n) == 4 * ((n + 3) \div 4)

\* offset + advance: where the header after a is
After(a) == a.at + 4 + Padded(a.len)

\* Where the walk would find the headers.  (All but the first conjunct
\* follow from it and from the lengths.)
LaidOut(attrs) ==
  \A i \in DOMAIN attrs :
    /\ attrs[i].at = IF i = 1 THEN HeaderLen ELSE After(attrs[i - 1])
    /\ attrs[i].at \in Nat
    /\ \A j \in 1 .. i - 1 : After(attrs[j]) <= attrs[i].at

IsAttribute(a) ==
  /\ a = [at |-> a.at, kind |-> a.kind, len |-> a.len, val |-> a.val]
  /\ a.len \in Nat
  /\ a.kind = "username" => (a.len = 0 <=> a.val = <<"">>)

IsPacket(m) ==
  /\ m = [cookie |-> m.cookie, type |-> m.type, tx |-> m.tx, realm |-> m.realm,
          len |-> m.len, declared |-> m.declared, attrs |-> m.attrs]
  /\ m.len \in Nat /\ m.declared \in Nat
  /\ DOMAIN m.attrs = 1 .. Len(m.attrs) /\ Len(m.attrs) \in Nat
  /\ \A i \in DOMAIN m.attrs : IsAttribute(m.attrs[i])
  /\ LaidOut(m.attrs)

\* mutant: the header is believed
Claimed(m) == HeaderLen + m.declared
\* The walk ends where the header says or where the packet does.
End(m) == IF HeaderLen + m.declared <= m.len THEN HeaderLen + m.declared ELSE m.len

\* The attributes forEachAttribute calls fn with: it stops for good at the
\* first that does not fit.
Visited(m) ==
  {i \in 1 .. Len(m.attrs) :
     /\ m.len >= HeaderLen
     /\ \A j \in 1 .. i : m.attrs[j].at + 4 + m.attrs[j].len <= End(m)}

Kinds(m, kinds) == {i \in Visited(m) : m.attrs[i].kind \in kinds}
First(S) == CHOOSE i \in S : \A j \in S : i <= j
Last(S)  == CHOOSE i \in S : \A j \in S : i >= j

StunType(m) == IF m.len >= HeaderLen /\ m.cookie THEN m.type ELSE "none"
IsBindingRequest(m)  == StunType(m) = "binding request"
IsBindingResponse(m) == StunType(m) \in {"binding success", "binding error"}

-----------------------------------------------------------------------------
(* The address a response carries *)

\* mutant: the transaction id is left out of the mask
CookieOnly(m, family) == <<"cookie">>
Mask(m, family) ==
  IF family = "IPv4" THEN <<"cookie">> ELSE <<"cookie", m.tx>>

\* What decodeAddress makes of an attribute that has an address, masked or
\* not: unmasking with another mask gives some other address.
Decoded(m, i) ==
  LET a      == m.attrs[i]
      family == a.val[1]
      mask   == IF a.kind = "xor mapped" THEN Mask(m, family) ELSE <<>>
      want   == IF family = "IPv6" THEN 20 ELSE 8
  IN  IF family \notin {"IPv4", "IPv6"} \/ a.len < want THEN Nothing
      ELSE IF a.val[2] = mask THEN <<a.val[3]>>
           ELSE <<[family |-> family, host |-> "garbled"]>>

MappedAddress(m) ==
  LET found == {i \in Kinds(m, {"xor mapped", "mapped"}) : Decoded(m, i) # Nothing}
  IN  IF found = {} THEN Nothing ELSE Decoded(m, First(found))

-----------------------------------------------------------------------------
(* Credentials *)

Key(user, realm, pass) == <<user, realm, pass>>

\* AllowAllAuth: the password is the user name, and there has to be one.
Authenticates(user) == user # ""
\* mutant: any name, no password
NoPassword(user, realm) == Key(user, realm, "")
AuthKey(user, realm) == Key(user, realm, user)

\* credentialFor: the token of the session is both halves.
HandedOut(token) == [user |-> token, pass |-> token]

\* The HMAC over all that is before attribute i, the header saying that the
\* message ends with it.
Mac(key, m, i) ==
  <<key, m.attrs[i].at + 4 + IntegritySize - HeaderLen,
    <<m.type, m.tx, m.realm>>, [j \in 1 .. i - 1 |-> m.attrs[j]]>>

User(m)      == Last(Kinds(m, {"username"}))
Integrity(m) == Last(Kinds(m, {"integrity"}))

Forgeable(m) ==
  /\ Kinds(m, {"username"}) # {} /\ Kinds(m, {"integrity"}) # {}
  /\ m.attrs[User(m)].len # 0
  /\ m.attrs[Integrity(m)].at + 4 + IntegritySize <= m.len

\* mutant: the HMAC over the header as it came
ForgeUnadjusted(m) ==
  IF ~Forgeable(m) THEN m
  ELSE [m EXCEPT !.attrs[Integrity(m)].val =
          [Mac(AuthKey(m.attrs[User(m)].val[1], Realm), m, Integrity(m))
             EXCEPT ![2] = m.declared]]
\* An integrity attribute that is too short is written past its end: the walk
\* then reads bytes of the MAC as the next header, and goes on where that
\* leads it if an attribute begins there that is not written over.  (A MAC
\* that reads as a type the code knows is left out.)
SpillsOver(m, i) ==
  i < Len(m.attrs) /\ After(m.attrs[i]) < m.attrs[i].at + 4 + IntegritySize
Spilt(m, i, mac) ==
  LET header == [at |-> After(m.attrs[i]), kind |-> "spilt", len |-> SpiltLen,
                 val |-> mac]
      found  == {j \in i + 1 .. Len(m.attrs) :
                   /\ m.attrs[j].at = After(header)
                   /\ m.attrs[j].at >= m.attrs[i].at + 4 + IntegritySize}
  IN  SubSeq(m.attrs, 1, i - 1)
        \o <<[m.attrs[i] EXCEPT !.val = mac], header>>
        \o IF found = {} THEN <<>>
           ELSE SubSeq(m.attrs, First(found), Len(m.attrs))

\* forgeIntegrity.
Forge(m) ==
  LET i   == Integrity(m)
      mac == Mac(AuthKey(m.attrs[User(m)].val[1], Realm), m, i)
  IN  IF ~Forgeable(m) THEN m
      ELSE IF SpillsOver(m, i) THEN [m EXCEPT !.attrs = Spilt(m, i, mac)]
      ELSE [m EXCEPT !.attrs[i].val = mac]

-----------------------------------------------------------------------------
(* pion, as the comments of anyauth.go and events.go describe it *)

\* The message is as long as it says and its attributes fill it.
Whole(m) ==
  /\ HeaderLen + m.declared <= m.len
  /\ \/ m.declared = 0
     \/ \E k \in 1 .. Len(m.attrs) : After(m.attrs[k]) = HeaderLen + m.declared

\* A request without integrity gets the challenge; one with it is accepted
\* when its user may have a key and the integrity was made with that key.
Verdict(m) ==
  LET i == First(Kinds(m, {"integrity"}))
      u == First(Kinds(m, {"username"}))
      user == m.attrs[u].val[1]
  IN  IF StunType(m) # "allocate" \/ ~Whole(m) THEN "ignored"
      ELSE IF Kinds(m, {"integrity"}) = {} THEN "challenged"
      ELSE IF /\ Kinds(m, {"username"}) # {} /\ Authenticates(user)
              /\ m.attrs[i].len = IntegritySize
              /\ m.attrs[i].val = Mac(AuthKey(user, m.realm), m, i)
      THEN "accepted" ELSE "refused"

\* The answer to a binding request from a: the address it came from, or an
\* error.
Response(a, tx, type) ==
  LET size == IF a.family = "IPv6" THEN 20 ELSE 8
      mask == IF a.family = "IPv6" THEN <<"cookie", tx>> ELSE <<"cookie">>
      ok   == type = "binding success"
  IN  [cookie |-> TRUE, type |-> type, tx |-> tx, realm |-> "",
       len |-> HeaderLen + (IF ok THEN 4 + size ELSE 0),
       declared |-> IF ok THEN 4 + size ELSE 0,
       attrs |-> IF ok THEN <<[at |-> HeaderLen, kind |-> "xor mapped",
                               len |-> size, val |-> <<a.family, mask, a>>]>>
                 ELSE <<>>]
=============================================================================
