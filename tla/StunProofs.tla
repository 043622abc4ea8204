----------------------------- MODULE StunProofs -----------------------------
(***************************************************************************)
(* Theorems about the UDP listener, for every set of sources and packets    *)
(* and every limit of the table.  The first part is about the walk and the  *)
(* integrity of single packets; the second about the table of attempts.     *)
(***************************************************************************)
EXTENDS StunListener, FiniteSetTheorems, WellFoundedInduction, TLAPS

-----------------------------------------------------------------------------
(* Single packets *)

\* A set of attributes that is not empty has a first one.
LEMMA FirstIn ==
  ASSUME NEW n \in Nat, NEW S \in SUBSET (1 .. n), S # {}
  PROVE  First(S) \in S /\ \A j \in S : First(S) <= j
<1>1. IsWellFoundedOn(OpToRel(<, Nat), Nat)
  BY NatLessThanWellFounded
<1>2. S \subseteq Nat
  OBVIOUS
<1>3. PICK i \in S : \A j \in S : ~(<<j, i>> \in OpToRel(<, Nat))
  BY <1>1, <1>2, WFMin
<1>4. ASSUME NEW j \in S, j < i
      PROVE  FALSE
  <2>1. <<j, i>> \in Nat \X Nat /\ <<j, i>>[1] = j /\ <<j, i>>[2] = i
    BY <1>2
  <2>2. <<j, i>>[1] < <<j, i>>[2]
    BY <1>4, <2>1
  <2>3. <<j, i>> \in OpToRel(<, Nat)
    BY <2>1, <2>2, Zenon DEF OpToRel
  <2> QED
    BY <1>3, <2>3
<1>5. \A j \in S : i <= j
  BY <1>2, <1>4
<1> QED
  BY <1>5 DEF First

LEMMA EndType ==
  ASSUME NEW m, IsPacket(m)
  PROVE  End(m) \in Nat /\ End(m) <= m.len /\ End(m) <= HeaderLen + m.declared
BY DEF IsPacket, End, HeaderLen

\* The walk skips nothing.
LEMMA VisitedType ==
  ASSUME NEW m, IsPacket(m)
  PROVE  /\ Visited(m) \subseteq 1 .. Len(m.attrs)
         /\ \A i \in Visited(m) : 1 .. i \subseteq Visited(m)
<1>1. Len(m.attrs) \in Nat
  BY DEF IsPacket
<1>2. Visited(m) \subseteq 1 .. Len(m.attrs)
  BY DEF Visited
<1>3. ASSUME NEW i \in Visited(m), NEW k \in 1 .. i
      PROVE  k \in Visited(m)
  <2>1. i \in 1 .. Len(m.attrs) /\ k \in 1 .. Len(m.attrs)
    BY <1>1, <1>2
  <2>2. \A j \in 1 .. k : j \in 1 .. i
    BY <2>1
  <2> QED
    BY <2>1, <2>2 DEF Visited
<1> QED
  BY <1>2, <1>3

LEMMA AtType ==
  ASSUME NEW m, IsPacket(m), NEW i \in 1 .. Len(m.attrs)
  PROVE  m.attrs[i].at \in Nat /\ m.attrs[i].len \in Nat
BY DEF IsPacket, LaidOut, IsAttribute

\* A packet that is cut has the same attributes, and its end is not later.
LEMMA CutWalk ==
  ASSUME NEW m, IsPacket(m), NEW n \in 0 .. m.len
  PROVE  /\ IsPacket(Cut(m, n))
         /\ Visited(Cut(m, n)) \subseteq Visited(m)
         /\ \A i \in 1 .. Len(m.attrs) : Decoded(Cut(m, n), i) = Decoded(m, i)
<1> DEFINE c == Cut(m, n)
<1>1. /\ c.attrs = m.attrs /\ c.declared = m.declared /\ c.len = n
      /\ c.tx = m.tx
      /\ c = [cookie |-> m.cookie, type |-> m.type, tx |-> m.tx, realm |-> m.realm,
              len |-> n, declared |-> m.declared, attrs |-> m.attrs]
  BY DEF Cut, IsPacket
<1> HIDE DEF c
<1>2. m.len \in Nat /\ n \in Nat /\ n <= m.len
  BY DEF IsPacket
<1>3. IsPacket(c)
  BY <1>1, <1>2 DEF IsPacket
<1>4. End(c) \in Nat /\ End(m) \in Nat /\ End(c) <= End(m)
  BY <1>1, <1>2 DEF IsPacket, End, HeaderLen
<1>5. Visited(c) \subseteq Visited(m)
  <2> SUFFICES ASSUME NEW i \in Visited(c) PROVE i \in Visited(m)
    OBVIOUS
  <2>1. i \in 1 .. Len(m.attrs) /\ Len(m.attrs) \in Nat
    BY <1>1 DEF Visited, IsPacket
  <2>2. \A j \in 1 .. i : m.attrs[j].at + 4 + m.attrs[j].len <= End(m)
    <3> SUFFICES ASSUME NEW j \in 1 .. i
                 PROVE  m.attrs[j].at + 4 + m.attrs[j].len <= End(m)
      OBVIOUS
    <3>1. m.attrs[j].at \in Nat /\ m.attrs[j].len \in Nat
      BY <2>1, AtType
    <3>2. m.attrs[j].at + 4 + m.attrs[j].len <= End(c)
      BY <1>1 DEF Visited
    <3> QED
      BY <1>4, <3>1, <3>2
  <2>3. m.len >= HeaderLen
    BY <1>1, <1>2 DEF Visited, HeaderLen
  <2> QED
    BY <2>1, <2>2, <2>3 DEF Visited
<1>6. \A i \in 1 .. Len(m.attrs) : Decoded(c, i) = Decoded(m, i)
  BY <1>1 DEF Decoded, Mask
<1> QED
  BY <1>3, <1>5, <1>6 DEF c

LEMMA KindsType ==
  ASSUME NEW m, IsPacket(m), NEW kinds
  PROVE  Kinds(m, kinds) \subseteq Visited(m) /\ Kinds(m, kinds) \subseteq 1 .. Len(m.attrs)
BY VisitedType DEF Kinds

LEMMA OneOnly ==
  ASSUME NEW i \in Int
  PROVE  First({i}) = i /\ Last({i}) = i
<1>1. \A k \in {i} : k = i /\ \A j \in {i} : k <= j /\ k >= j
  OBVIOUS
<1> QED
  BY <1>1 DEF First, Last

\* The address a cut packet gives is the one the whole packet gives, or none:
\* the first attribute it finds is the first of the whole packet.
LEMMA CutAddress ==
  ASSUME NEW m, IsPacket(m), NEW n \in 0 .. m.len
  PROVE  MappedAddress(Cut(m, n)) \in {Nothing, MappedAddress(m)}
<1>1. PICK c : c = Cut(m, n)
  OBVIOUS
<1>2. /\ IsPacket(c) /\ Visited(c) \subseteq Visited(m)
      /\ \A i \in 1 .. Len(m.attrs) : Decoded(c, i) = Decoded(m, i)
      /\ c.attrs = m.attrs
  BY <1>1, CutWalk DEF Cut, IsPacket
<1>3. PICK both : both = {"xor mapped", "mapped"}
  OBVIOUS
<1>4. PICK C : C = {i \in Kinds(c, both) : Decoded(c, i) # Nothing}
  OBVIOUS
<1>5. PICK M : M = {i \in Kinds(m, both) : Decoded(m, i) # Nothing}
  OBVIOUS
<1>6. Len(m.attrs) \in Nat /\ C \subseteq 1 .. Len(m.attrs) /\ M \subseteq 1 .. Len(m.attrs)
  BY <1>2, <1>4, <1>5, KindsType DEF IsPacket
<1>7. C \subseteq M
  BY <1>2, <1>4, <1>5, <1>6 DEF Kinds
<1>8. CASE C = {}
  BY <1>1, <1>3, <1>4, <1>8 DEF MappedAddress
<1>9. CASE C # {}
  <2>1. First(C) \in C /\ \A j \in C : First(C) <= j
    BY <1>6, <1>9, FirstIn
  <2>2. First(M) \in M /\ \A j \in M : First(M) <= j
    BY <1>6, <1>7, <1>9, FirstIn
  <2>3. First(M) <= First(C) /\ First(M) \in Nat /\ First(C) \in Nat
    <3>1. First(M) \in 1 .. Len(m.attrs) /\ First(C) \in 1 .. Len(m.attrs)
      BY <1>6, <2>1, <2>2
    <3>2. First(C) \in M
      BY <1>7, <2>1
    <3> QED
      BY <1>6, <2>2, <3>1, <3>2
  <2>4. First(C) \in Visited(c)
    BY <2>1, <1>4 DEF Kinds
  <2>5. First(M) \in Visited(c)
    BY <1>2, <1>6, <2>2, <2>3, <2>4, VisitedType
  <2>6. First(M) \in C
    BY <1>2, <1>4, <1>5, <1>6, <2>2, <2>5 DEF Kinds
  <2>7. First(M) = First(C)
    BY <2>1, <2>3, <2>6
  <2>8. Decoded(c, First(C)) = Decoded(m, First(M))
    BY <1>2, <1>6, <2>2, <2>7
  <2>9. MappedAddress(c) = Decoded(c, First(C)) /\ MappedAddress(m) = Decoded(m, First(M))
    BY <1>3, <1>4, <1>5, <1>7, <1>9 DEF MappedAddress
  <2> QED
    BY <1>1, <2>8, <2>9
<1> QED
  BY <1>8, <1>9

\* A response carries the address it was made for.
HasFamily(a) == a.family \in {"IPv4", "IPv6"}
LEMMA ResponseAddress ==
  ASSUME NEW a, NEW tx
  PROVE  HasFamily(a) =>
           MappedAddress(Response(a, tx, "binding success")) = <<a>>
<1>1. PICK r : r = Response(a, tx, "binding success")
  OBVIOUS
<1>2. PICK size : size = IF a.family = "IPv6" THEN 20 ELSE 8
  OBVIOUS
<1>3. PICK mask : mask = Mask(r, a.family)
  OBVIOUS
<1>4. /\ r.declared = 4 + size
      /\ r.len = 20 + r.declared
      /\ r.tx = tx
  BY <1>1, <1>2 DEF Response, HeaderLen
<1>5. PICK entry : entry = [at |-> 20, kind |-> "xor mapped", len |-> size,
                              val |-> <<a.family, mask, a>>]
  OBVIOUS
<1>6. a.family \in {"IPv4", "IPv6"} =>
        mask = IF a.family = "IPv6" THEN <<"cookie", tx>> ELSE <<"cookie">>
  BY <1>3, <1>4 DEF Mask
<1>7. a.family \in {"IPv4", "IPv6"} => r.attrs = <<entry>>
  BY <1>1, <1>2, <1>5, <1>6 DEF Response, HeaderLen
<1>8. size \in Nat
  BY <1>2
<1>9. End(r) = 24 + size
  BY <1>4, <1>8 DEF End, HeaderLen
<1>10. ASSUME a.family \in {"IPv4", "IPv6"}
       PROVE  MappedAddress(r) = <<a>>
  <2>1. Len(r.attrs) = 1 /\ r.attrs[1] = entry
    BY <1>7, <1>10
  <2>2. entry.at = 20 /\ entry.len = size /\ entry.kind = "xor mapped"
        /\ entry.val = <<a.family, mask, a>>
    BY <1>5
  <2>3. \A i \in 1 .. Len(r.attrs) : i = 1
    BY <2>1
  <2>4. Visited(r) = {1}
    <3>1. r.len >= HeaderLen /\ 20 + 4 + size <= End(r)
      BY <1>4, <1>8, <1>9 DEF HeaderLen
    <3>2. \A j \in 1 .. 1 : r.attrs[j].at + 4 + r.attrs[j].len <= End(r)
      <4>1. \A j \in 1 .. 1 : j = 1
        OBVIOUS
      <4>2. r.attrs[1].at + 4 + r.attrs[1].len <= End(r)
        BY <2>1, <2>2, <3>1
      <4> QED
        BY <4>1, <4>2
    <3>3. 1 \in Visited(r)
      BY <2>1, <3>1, <3>2 DEF Visited
    <3>4. Visited(r) \subseteq {1}
      BY <2>3 DEF Visited
    <3> QED
      BY <3>3, <3>4
  <2>5. Kinds(r, {"xor mapped", "mapped"}) = {1}
    <3>1. r.attrs[1].kind = "xor mapped"
      BY <2>1, <2>2
    <3>2. 1 \in Kinds(r, {"xor mapped", "mapped"})
      BY <2>4, <3>1 DEF Kinds
    <3>3. Kinds(r, {"xor mapped", "mapped"}) \subseteq {1}
      BY <2>4 DEF Kinds
    <3> QED
      BY <3>2, <3>3
  <2>6. Decoded(r, 1) = <<a>>
    <3>1. PICK val : val = entry.val
      OBVIOUS
    <3>2. val[1] = a.family /\ val[2] = mask /\ val[3] = a
      <4>1. PICK family : family = a.family
        OBVIOUS
      <4>2. val = <<family, mask, a>>
        BY <2>2, <3>1, <4>1
      <4> QED
        BY <4>1, <4>2
    <3>3. ~(size < IF a.family = "IPv6" THEN 20 ELSE 8)
      BY <1>2
    <3>4. val[2] = IF entry.kind = "xor mapped" THEN Mask(r, val[1]) ELSE <<>>
      BY <1>3, <2>2, <3>2
    <3>5. ~(val[1] \notin {"IPv4", "IPv6"} \/ entry.len < IF val[1] = "IPv6" THEN 20 ELSE 8)
      BY <1>10, <2>2, <3>2, <3>3
    <3> QED
      BY <2>1, <3>1, <3>2, <3>4, <3>5 DEF Decoded
  <2>7. {i \in Kinds(r, {"xor mapped", "mapped"}) : Decoded(r, i) # Nothing} = {1}
    <3>1. <<a>> # <<>>
      OBVIOUS
    <3> QED
      BY <2>5, <2>6, <3>1, Zenon DEF Nothing
  <2>8. First({1}) = 1
    BY OneOnly
  <2> QED
    <3>1. PICK S : S = {i \in Kinds(r, {"xor mapped", "mapped"}) : Decoded(r, i) # Nothing}
      OBVIOUS
    <3>2. First(S) = 1 /\ S # {}
      BY <2>7, <2>8, <3>1
    <3>3. MappedAddress(r) = Decoded(r, First(S))
      BY <3>1, <3>2 DEF MappedAddress
    <3> QED
      BY <2>6, <3>2, <3>3
<1> QED
  BY <1>1, <1>10 DEF HasFamily

\* The rewriter changes neither what kind of message it is nor its length.
LEMMA ForgeKeepsHeader ==
  ASSUME NEW m, IsPacket(m)
  PROVE  StunType(Forge(m)) = StunType(m)
BY DEF IsPacket, Forge, StunType

\* What the walk finds in a packet depends on its lengths and on the places of
\* its attributes alone.
LEMMA SameWalk ==
  ASSUME NEW m, IsPacket(m), NEW f,
         f.len = m.len, f.declared = m.declared, Len(f.attrs) = Len(m.attrs),
         \A j \in 1 .. Len(m.attrs) : /\ f.attrs[j].at = m.attrs[j].at
                                      /\ f.attrs[j].len = m.attrs[j].len
                                      /\ f.attrs[j].kind = m.attrs[j].kind
  PROVE  /\ Visited(f) = Visited(m)
         /\ \A kinds : Kinds(f, kinds) = Kinds(m, kinds)
         /\ Whole(f) <=> Whole(m)
<1>1. End(f) = End(m)
  BY DEF End
<1>2. Len(m.attrs) \in Nat
  BY DEF IsPacket
<1>3. Visited(f) = Visited(m)
  <2>1. ASSUME NEW i \in 1 .. Len(m.attrs)
        PROVE  i \in Visited(f) <=> i \in Visited(m)
    <3>1. \A j \in 1 .. i : j \in 1 .. Len(m.attrs)
      BY <1>2
    <3>2. \A j \in 1 .. i : /\ f.attrs[j].at = m.attrs[j].at
                            /\ f.attrs[j].len = m.attrs[j].len
      BY <3>1
    <3> QED
      BY <1>1, <3>2 DEF Visited
  <2> QED
    BY <2>1 DEF Visited
<1>4. Visited(m) \subseteq 1 .. Len(m.attrs)
  BY VisitedType
<1>5. \A kinds : Kinds(f, kinds) = Kinds(m, kinds)
  BY <1>3, <1>4 DEF Kinds
<1>6. Whole(f) <=> Whole(m)
  <2>1. \A j \in 1 .. Len(m.attrs) : After(f.attrs[j]) = After(m.attrs[j])
    BY DEF After
  <2> QED
    BY <2>1 DEF Whole
<1> QED
  BY <1>3, <1>5, <1>6

\* Who signs with the token, as user and with any password, is let in behind
\* the rewriter: it overwrites the integrity alone, with the one pion expects.
LEMMA ForgeOpens ==
  ASSUME NEW m, IsPacket(m), NEW user, Authenticates(user), NEW pass,
         SignedWith(m, user, pass), m.realm = Realm
  PROVE  Verdict(Forge(m)) = "accepted"
<1>1. PICK u \in Kinds(m, {"username"}) :
        Kinds(m, {"username"}) = {u} /\ m.attrs[u].val = <<user>>
  BY DEF SignedWith
<1>2. PICK i \in Kinds(m, {"integrity"}) :
        Kinds(m, {"integrity"}) = {i} /\ m.attrs[i].len = IntegritySize
  BY DEF SignedWith
<1>3. /\ Len(m.attrs) \in Nat
      /\ u \in 1 .. Len(m.attrs) /\ i \in 1 .. Len(m.attrs)
      /\ i \in Visited(m)
      /\ m.attrs[u].kind = "username" /\ m.attrs[i].kind = "integrity"
  BY <1>1, <1>2, KindsType DEF IsPacket, Kinds
<1>4. u # i
  BY <1>3
<1>5. User(m) = u /\ Integrity(m) = i
  <2>1. u \in Int /\ i \in Int
    BY <1>3
  <2>2. Last({u}) = u /\ Last({i}) = i
    BY <2>1, OneOnly
  <2> QED
    BY <1>1, <1>2, <2>2, Zenon DEF User, Integrity
<1>6. Forgeable(m)
  <2>1. m.attrs[u].len # 0
    <3>1. IsAttribute(m.attrs[u])
      BY <1>3 DEF IsPacket
    <3>2. <<user>> # <<"">>
      BY DEF Authenticates
    <3> QED
      BY <1>1, <1>3, <3>1, <3>2 DEF IsAttribute
  <2>2. m.attrs[i].at + 4 + IntegritySize <= m.len
    <3>1. m.attrs[i].at + 4 + m.attrs[i].len <= End(m)
      BY <1>3 DEF Visited
    <3>2. m.attrs[i].at \in Nat /\ End(m) \in Nat /\ End(m) <= m.len /\ m.len \in Nat
      BY <1>3, AtType, EndType DEF IsPacket
    <3> QED
      BY <1>2, <3>1, <3>2 DEF IntegritySize
  <2> QED
    BY <1>1, <1>2, <1>5, <2>1, <2>2 DEF Forgeable
<1>7. PICK mac : mac = Mac(AuthKey(user, Realm), m, i)
  OBVIOUS
<1>8. PICK f : f = Forge(m)
  OBVIOUS
<1>9. ~SpillsOver(m, i)
  <2>1. m.attrs[i].at \in Nat
    BY <1>3, AtType
  <2> QED
    BY <1>2, <2>1 DEF SpillsOver, After, Padded, IntegritySize
<1>10. f = [m EXCEPT !.attrs = [j \in 1 .. Len(m.attrs) |->
                                 IF j = i THEN [m.attrs[i] EXCEPT !.val = mac]
                                 ELSE m.attrs[j]]]
  <2>1. f = [m EXCEPT !.attrs[i].val = mac]
    BY <1>1, <1>5, <1>6, <1>7, <1>8, <1>9 DEF Forge
  <2>2. DOMAIN m.attrs = 1 .. Len(m.attrs)
    BY DEF IsPacket
  <2>3. [m.attrs EXCEPT ![i] = [m.attrs[i] EXCEPT !.val = mac]]
          = [j \in 1 .. Len(m.attrs) |-> IF j = i THEN [m.attrs[i] EXCEPT !.val = mac]
                                          ELSE m.attrs[j]]
    BY <1>3, <2>2
  <2> QED
    BY <2>1, <2>3
<1>11. /\ f.len = m.len /\ f.declared = m.declared /\ f.cookie = m.cookie
       /\ f.type = m.type /\ f.tx = m.tx /\ f.realm = m.realm
       /\ f.attrs = [j \in 1 .. Len(m.attrs) |->
                       IF j = i THEN [m.attrs[i] EXCEPT !.val = mac]
                       ELSE m.attrs[j]]
  BY <1>10 DEF IsPacket
<1>12. m.attrs[i] = [at |-> m.attrs[i].at, kind |-> m.attrs[i].kind,
                     len |-> m.attrs[i].len, val |-> m.attrs[i].val]
  BY <1>3 DEF IsPacket, IsAttribute
<1>13. /\ f.attrs[i] = [at |-> m.attrs[i].at, kind |-> m.attrs[i].kind,
                        len |-> m.attrs[i].len, val |-> mac]
       /\ \A j \in 1 .. Len(m.attrs) : j # i => f.attrs[j] = m.attrs[j]
  BY <1>3, <1>11, <1>12
<1>14. \A j \in 1 .. Len(m.attrs) : /\ f.attrs[j].at = m.attrs[j].at
                                    /\ f.attrs[j].len = m.attrs[j].len
                                    /\ f.attrs[j].kind = m.attrs[j].kind
  BY <1>13
<1>15. Len(f.attrs) = Len(m.attrs)
  BY <1>3, <1>11
<1>16. /\ \A kinds : Kinds(f, kinds) = Kinds(m, kinds)
       /\ Whole(f) <=> Whole(m)
  BY <1>11, <1>14, <1>15, SameWalk
<1>17. StunType(f) = "allocate" /\ Whole(f)
  BY <1>11, <1>16 DEF SignedWith, StunType
<1>18. f.attrs[u].val = <<user>> /\ f.attrs[i].val = mac /\ f.attrs[i].len = IntegritySize
  BY <1>1, <1>2, <1>3, <1>4, <1>13
<1>19. mac = Mac(AuthKey(user, f.realm), f, i)
  <2>1. \A j \in 1 .. i - 1 : j \in 1 .. Len(m.attrs) /\ j # i
    BY <1>3
  <2>2. [j \in 1 .. i - 1 |-> f.attrs[j]] = [j \in 1 .. i - 1 |-> m.attrs[j]]
    BY <1>13, <2>1
  <2> QED
    BY <1>3, <1>7, <1>11, <1>14, <2>2 DEF Mac
<1>20. PICK U, I : U = Kinds(f, {"username"}) /\ I = Kinds(f, {"integrity"})
  OBVIOUS
<1>21. U = {u} /\ I = {i} /\ First(U) = u /\ First(I) = i
  BY <1>1, <1>2, <1>3, <1>16, <1>20, OneOnly
<1>22. f.attrs[u].val[1] = user
  BY <1>18
<1>23. Verdict(f) = "accepted"
  BY <1>17, <1>18, <1>19, <1>20, <1>21, <1>22 DEF Verdict
<1> QED
  BY <1>8, <1>23

\* Without the rewriter, the token opens the relay as user and password.
LEMMA TokenOpens ==
  ASSUME NEW m, IsPacket(m), NEW token, Authenticates(token),
         SignedWith(m, token, token)
  PROVE  Verdict(m) = "accepted"
<1>1. PICK u \in Kinds(m, {"username"}) :
        Kinds(m, {"username"}) = {u} /\ m.attrs[u].val = <<token>>
  BY DEF SignedWith
<1>2. PICK i \in Kinds(m, {"integrity"}) :
        /\ Kinds(m, {"integrity"}) = {i} /\ m.attrs[i].len = IntegritySize
        /\ m.attrs[i].val = Mac(Key(token, m.realm, token), m, i)
  BY DEF SignedWith
<1>3. u \in Int /\ i \in Int
  <2>1. Kinds(m, {"username"}) \subseteq 1 .. Len(m.attrs)
    BY KindsType
  <2>2. Kinds(m, {"integrity"}) \subseteq 1 .. Len(m.attrs)
    BY KindsType
  <2> QED
    BY <2>1, <2>2
<1>4. PICK U, I : U = Kinds(m, {"username"}) /\ I = Kinds(m, {"integrity"})
  OBVIOUS
<1>5. U = {u} /\ I = {i} /\ First(U) = u /\ First(I) = i
  BY <1>1, <1>2, <1>3, <1>4, OneOnly
<1>6. m.attrs[u].val[1] = token
  BY <1>1
<1> QED
  BY <1>1, <1>2, <1>4, <1>5, <1>6 DEF Verdict, AuthKey, SignedWith

\* pion accepts nothing but what was signed with the user's name as password.
LEMMA AcceptedIsSigned ==
  ASSUME NEW m, IsPacket(m), Verdict(m) = "accepted"
  PROVE  \E i \in Kinds(m, {"username"}), j \in Kinds(m, {"integrity"}) :
           LET user == m.attrs[i].val[1]
           IN  /\ user # ""
               /\ m.attrs[j].val = Mac(Key(user, m.realm, user), m, j)
<1>1. PICK U, I : U = Kinds(m, {"username"}) /\ I = Kinds(m, {"integrity"})
  OBVIOUS
<1>2. PICK u, i : u = First(U) /\ i = First(I)
  OBVIOUS
<1>3. /\ U # {} /\ I # {}
      /\ m.attrs[u].val[1] # ""
      /\ m.attrs[i].val = Mac(AuthKey(m.attrs[u].val[1], m.realm), m, i)
  BY <1>1, <1>2 DEF Verdict, Authenticates
<1>4. u \in U /\ i \in I
  <2>1. Len(m.attrs) \in Nat
    BY DEF IsPacket
  <2>2. U \subseteq 1 .. Len(m.attrs) /\ I \subseteq 1 .. Len(m.attrs)
    BY <1>1, KindsType
  <2> QED
    BY <1>2, <1>3, <2>1, <2>2, FirstIn
<1> QED
  BY <1>1, <1>3, <1>4 DEF AuthKey

-----------------------------------------------------------------------------
(* The listener *)

Config == [disableSTUN : BOOLEAN, allowAny : BOOLEAN, log : BOOLEAN]

\* What the reading goroutine holds is a packet and what the layers made of it.
HandOK ==
  \A h \in hand :
    /\ h.from \in Source
    /\ h.msg \in Packet
    /\ h.given = Rewritten(h.msg)
    /\ conf.disableSTUN => ~IsBindingRequest(h.msg)
    /\ IsBindingRequest(h.msg) => arrived[h.from] > 0

\* An answer is one to a request that came from where it goes.
IsAnswer(r) ==
  /\ r = [to |-> r.to, msg |-> r.msg, stage |-> r.stage]
  /\ \E tx : \/ r.msg = Response(r.to, tx, "binding success")
             \/ r.msg = Response(r.to, tx, "binding error")
AnswersOK ==
  \A r \in answers :
    /\ IsAnswer(r)
    /\ r.to \in Source
    /\ r.stage \in {"owed", "sent"}
    /\ r.stage = "sent" => conf.log
    /\ arrived[r.to] > 0

LInv == /\ ListenerTypeOK /\ HandOK /\ AnswersOK /\ AttemptsExact
        /\ DisabledAnswersNothing /\ ReportIsTrue

LEMMA PacketType == ASSUME NEW m \in Packet PROVE IsPacket(m)
BY ListenerAssumption

LEMMA InitLInv == LInit => LInv
<1> SUFFICES ASSUME LInit PROVE LInv
  OBVIOUS
<1>1. Tracked = {}
  BY DEF LInit, Tracked
<1>2. Cardinality(Tracked) = 0
  BY <1>1, FS_EmptySet
<1>3. ListenerTypeOK /\ HandOK /\ AnswersOK
  BY <1>1 DEF LInit, ListenerTypeOK, HandOK, AnswersOK, Reading, Tracked
<1>4. AttemptsExact
  <2>1. \A a \in Source : a \notin Tracked /\ arrived[a] = 0 /\ shown[a] = 0
    BY <1>1 DEF LInit
  <2>2. Cardinality(Tracked) <= MaxTracked
    <3>1. MaxTracked \in Nat
      BY ListenerAssumption
    <3> QED
      BY <1>2, <3>1
  <2> QED
    BY <2>1, <2>2 DEF AttemptsExact
<1>5. DisabledAnswersNothing /\ ReportIsTrue
  BY DEF LInit, DisabledAnswersNothing, ReportIsTrue, Reading, NoLine
<1> QED
  BY <1>3, <1>4, <1>5 DEF LInv

\* The rewriter leaves a binding request one, and makes none.
LEMMA RewrittenKeepsType ==
  ASSUME NEW m \in Packet
  PROVE  IsBindingRequest(Rewritten(m)) <=> IsBindingRequest(m)
BY PacketType, ForgeKeepsHeader DEF Rewritten, IsBindingRequest

\* The table and what it says, over one packet.
LEMMA LogExact ==
  ASSUME LInv, NEW m \in Packet, NEW a \in Source, Read(m, a)
  PROVE  /\ Tracked' \subseteq Source
         /\ attempts' \in [Tracked' -> Nat \ {0}]
         /\ shown' \in [Source -> Nat]
         /\ AttemptsExact'
<1> USE DEF Tracked
<1>1. /\ Tracked \subseteq Source /\ attempts \in [Tracked -> Nat \ {0}]
      /\ shown \in [Source -> Nat] /\ arrived \in [Source -> Nat]
      /\ conf' = conf
  BY DEF LInv, ListenerTypeOK, Read
<1>2. MaxTracked \in Nat /\ IsFiniteSet(Tracked) /\ Cardinality(Tracked) \in Nat
  BY <1>1, ListenerAssumption, FS_Subset, FS_CardinalityType
<1>3. CASE ~Logs(m, a)
  <2>1. attempts' = attempts /\ shown' = shown
    BY <1>3 DEF Read, Log
  <2>2. conf.log => arrived' = arrived
    BY <1>3 DEF Read, Logs
  <2> QED
    BY <1>1, <2>1, <2>2 DEF LInv, AttemptsExact
<1>4. CASE Logs(m, a)
  <2>1. conf.log /\ arrived' = [arrived EXCEPT ![a] = @ + 1]
    BY <1>4 DEF Read, Logs
  <2>2. arrived' \in [Source -> Nat] /\ arrived'[a] = arrived[a] + 1
        /\ \A b \in Source \ {a} : arrived'[b] = arrived[b]
    BY <1>1, <2>1
  <2>3. CASE PastCap(a)
    <3>1. attempts' = attempts /\ shown' = [shown EXCEPT ![a] = @ + 1]
      BY <1>4, <2>3 DEF Read, Log, Count
    <3>2. Cardinality(Tracked) = MaxTracked /\ a \notin Tracked
      BY <1>2, <2>1, <2>3 DEF PastCap, LInv, AttemptsExact
    <3>3. shown' \in [Source -> Nat] /\ shown'[a] = shown[a] + 1
          /\ \A b \in Source \ {a} : shown'[b] = shown[b]
      BY <1>1, <3>1
    <3>4. AttemptsExact'
      BY <1>1, <1>2, <2>1, <2>2, <3>1, <3>2, <3>3 DEF LInv, AttemptsExact
    <3> QED
      BY <1>1, <3>1, <3>3, <3>4
  <2>4. CASE ~PastCap(a) /\ a \in Tracked
    <3>1. Count(a) = attempts[a] + 1 /\ attempts[a] \in Nat \ {0}
      BY <1>1, <2>4 DEF Count, AttemptsFor
    <3>2. /\ attempts' = [b \in Tracked |-> IF b = a THEN attempts[a] + 1 ELSE attempts[b]]
          /\ shown' = shown
      <4>1. Tracked \cup {a} = Tracked
        BY <2>4
      <4>2. Count(a) # 1
        BY <3>1
      <4> QED
        BY <1>4, <2>4, <3>1, <4>1, <4>2 DEF Read, Log
    <3>3. Tracked' = Tracked /\ attempts' \in [Tracked -> Nat \ {0}]
      BY <1>1, <3>1, <3>2
    <3>4. attempts'[a] = attempts[a] + 1 /\ \A b \in Tracked \ {a} : attempts'[b] = attempts[b]
      BY <2>4, <3>2
    <3>5. AttemptsExact'
      BY <1>1, <1>2, <2>1, <2>2, <2>4, <3>2, <3>3, <3>4 DEF LInv, AttemptsExact
    <3> QED
      BY <1>1, <3>2, <3>3, <3>5
  <2>5. CASE ~PastCap(a) /\ a \notin Tracked
    <3>1. Count(a) = 1 /\ Cardinality(Tracked) < MaxTracked
      BY <1>2, <2>5 DEF Count, AttemptsFor, PastCap
    <3>2. /\ attempts' = [b \in Tracked \cup {a} |-> IF b = a THEN 1 ELSE attempts[b]]
          /\ shown' = [shown EXCEPT ![a] = @ + 1]
      BY <1>4, <2>5, <3>1 DEF Read, Log
    <3>3. Tracked' = Tracked \cup {a} /\ attempts' \in [Tracked' -> Nat \ {0}]
      BY <1>1, <3>2
    <3>4. attempts'[a] = 1 /\ \A b \in Tracked : attempts'[b] = attempts[b]
      BY <2>5, <3>2
    <3>5. \A b \in Source \ Tracked : arrived[b] = 0
      BY <1>1, <1>2, <2>1, <3>1 DEF LInv, AttemptsExact
    <3>6. Cardinality(Tracked') = Cardinality(Tracked) + 1
      BY <1>2, <2>5, <3>3, FS_AddElement
    <3>7. shown[a] = 0 /\ shown'[a] = shown[a] + 1 /\ shown' \in [Source -> Nat]
          /\ \A b \in Source \ {a} : shown'[b] = shown[b]
      BY <1>1, <2>1, <2>5, <3>2, <3>5 DEF LInv, AttemptsExact
    <3>8. AttemptsExact'
      BY <1>1, <1>2, <2>1, <2>2, <2>5, <3>1, <3>3, <3>4, <3>5, <3>6, <3>7 DEF LInv, AttemptsExact
    <3> QED
      BY <1>1, <3>3, <3>7, <3>8
  <2> QED
    BY <2>3, <2>4, <2>5
<1> QED
  BY <1>3, <1>4

LEMMA ReadKeeps ==
  ASSUME LInv, NEW m \in Packet, NEW a \in Source, Read(m, a)
  PROVE  LInv'
<1>1. /\ conf' = conf /\ conf \in Config /\ answers' = answers /\ line' = {}
      /\ dropped \in Nat /\ arrived \in [Source -> Nat] /\ hand = {}
  BY DEF LInv, ListenerTypeOK, Read, NoLine, Reading, Config
<1>2. /\ arrived' \in [Source -> Nat]
      /\ \A b \in Source : arrived'[b] >= arrived[b]
      /\ IsBindingRequest(m) => arrived'[a] > 0
      /\ ~IsBindingRequest(m) => arrived' = arrived
  BY <1>1 DEF Read
<1>3. HandOK'
  <2>1. CASE Drops(m)
    BY <1>1, <2>1 DEF Read, HandOK
  <2>2. CASE ~Drops(m)
    <3>1. hand' = {[from |-> a, msg |-> m, given |-> Rewritten(m)]}
      BY <2>2 DEF Read
    <3>2. Rewritten(m)' = Rewritten(m)
      BY <1>1 DEF Rewritten
    <3>3. conf.disableSTUN => ~IsBindingRequest(m)
      BY <2>2 DEF Drops
    <3>4. \A h \in hand' : h.from = a /\ h.msg = m /\ h.given = Rewritten(m)
      BY <3>1
    <3> QED
      BY <1>1, <1>2, <3>2, <3>3, <3>4 DEF HandOK, Rewritten
  <2> QED
    BY <2>1, <2>2
<1>4. AnswersOK'
  BY <1>1, <1>2 DEF LInv, AnswersOK
<1>5. DisabledAnswersNothing'
  <2> SUFFICES ASSUME conf.disableSTUN
               PROVE  /\ answers' = {} /\ \A h \in hand' : ~IsBindingRequest(h.given)
                      /\ (\A b \in Source : arrived'[b] = 0) <=> dropped' = 0
    BY <1>1 DEF DisabledAnswersNothing
  <2>1. /\ answers = {}
        /\ (\A b \in Source : arrived[b] = 0) <=> dropped = 0
    BY DEF LInv, DisabledAnswersNothing
  <2>2. CASE IsBindingRequest(m)
    <3>1. dropped' = dropped + 1 /\ hand' = hand
      BY <2>2 DEF Read, Drops
    <3> QED
      BY <1>1, <1>2, <2>1, <2>2, <3>1
  <2>3. CASE ~IsBindingRequest(m)
    <3>1. dropped' = dropped /\ hand' = {[from |-> a, msg |-> m, given |-> Rewritten(m)]}
      BY <2>3 DEF Read, Drops
    <3>2. \A h \in hand' : h.given = Rewritten(m)
      BY <3>1
    <3>3. \A h \in hand' : ~IsBindingRequest(h.given)
      BY <2>3, <3>2, RewrittenKeepsType
    <3> QED
      BY <1>1, <1>2, <2>1, <2>3, <3>1, <3>3
  <2> QED
    BY <2>2, <2>3
<1>6. ReportIsTrue'
  BY <1>1 DEF ReportIsTrue
<1>7. ListenerTypeOK'
  <2>1. dropped' \in Nat
    BY <1>1 DEF Read
  <2>2. \A h \in hand' : h.from \in Source
    BY <1>3 DEF HandOK
  <2> QED
    BY <1>1, <1>2, <2>1, <2>2, LogExact DEF ListenerTypeOK, LInv, Config
<1> QED
  BY <1>3, <1>4, <1>5, <1>6, <1>7, LogExact DEF LInv

\* Steps that leave the tables and the configuration alone.
LEMMA TablesKept ==
  ASSUME LInv, UNCHANGED <<conf, tables>>,
         hand' \subseteq hand, AnswersOK', ReportIsTrue',
         conf.disableSTUN => answers' = {}
  PROVE  LInv'
<1>1. conf' = conf /\ attempts' = attempts /\ dropped' = dropped
      /\ arrived' = arrived /\ shown' = shown /\ Tracked' = Tracked
  BY DEF tables, Tracked
<1>2. HandOK'
  BY <1>1 DEF LInv, HandOK, Rewritten
<1>3. AttemptsExact'
  BY <1>1 DEF LInv, AttemptsExact
<1>4. DisabledAnswersNothing'
  BY <1>1 DEF LInv, DisabledAnswersNothing
<1>5. ListenerTypeOK'
  BY <1>1, <1>2 DEF LInv, ListenerTypeOK, HandOK, AnswersOK
<1> QED
  BY <1>2, <1>3, <1>4, <1>5 DEF LInv

LEMMA ServeKeeps ==
  ASSUME LInv, NEW h \in hand, Serve(h)
  PROVE  LInv'
<1>1. hand' = {} /\ line' = {} /\ UNCHANGED <<conf, tables>>
  BY DEF Serve, Reading, NoLine
<1>2. arrived' = arrived /\ conf' = conf
  BY <1>1 DEF tables
<1>3. /\ h.from \in Source /\ h.msg \in Packet /\ h.given = Rewritten(h.msg)
      /\ conf.disableSTUN => ~IsBindingRequest(h.msg)
      /\ IsBindingRequest(h.msg) => arrived[h.from] > 0
  BY DEF LInv, HandOK
<1>4. IsBindingRequest(h.given) <=> IsBindingRequest(h.msg)
  BY <1>3, RewrittenKeepsType
<1>5. CASE ~IsBindingRequest(h.given)
  <2>1. answers' = answers
    BY <1>5 DEF Serve
  <2>2. AnswersOK' /\ ReportIsTrue' /\ (conf.disableSTUN => answers' = {})
    BY <1>1, <1>2, <2>1 DEF LInv, AnswersOK, ReportIsTrue, DisabledAnswersNothing
  <2> QED
    BY <1>1, <2>2, TablesKept
<1>6. CASE IsBindingRequest(h.given)
  <2>1. ~conf.disableSTUN /\ arrived[h.from] > 0
    BY <1>3, <1>4, <1>6
  <2>2. PICK type \in {"binding success", "binding error"} :
          answers' = answers \cup
            {[to |-> h.from, msg |-> Response(h.from, h.given.tx, type), stage |-> "owed"]}
    BY <1>6 DEF Serve
  <2>3. PICK r : r = [to |-> h.from, msg |-> Response(h.from, h.given.tx, type), stage |-> "owed"]
    OBVIOUS
  <2>4. r.to = h.from /\ r.msg = Response(h.from, h.given.tx, type) /\ r.stage = "owed"
    BY <2>3
  <2>5. answers' = answers \cup {r} /\ IsAnswer(r)
    BY <2>2, <2>3, <2>4 DEF IsAnswer
  <2>6. AnswersOK'
    BY <1>2, <1>3, <2>1, <2>4, <2>5 DEF LInv, AnswersOK
  <2>7. ReportIsTrue'
    BY <1>1 DEF ReportIsTrue
  <2> QED
    BY <1>1, <2>1, <2>6, <2>7, TablesKept
<1> QED
  BY <1>5, <1>6

LEMMA SendKeeps ==
  ASSUME LInv, NEW r \in answers, Send(r)
  PROVE  LInv'
<1>1. hand' = hand /\ line' = {} /\ UNCHANGED <<conf, tables>>
  BY DEF Send, NoLine
<1>2. arrived' = arrived /\ conf' = conf
  BY <1>1 DEF tables
<1>3. AnswersOK'
  <2>1. CASE answers' = answers \ {r}
    BY <1>2, <2>1 DEF LInv, AnswersOK
  <2>2. CASE conf.log /\ answers' = (answers \ {r}) \cup {[r EXCEPT !.stage = "sent"]}
    <3>1. PICK q : q = [r EXCEPT !.stage = "sent"]
      OBVIOUS
    <3>2. IsAnswer(r) /\ r.to \in Source /\ arrived[r.to] > 0
      BY DEF LInv, AnswersOK
    <3>3. IsAnswer(q) /\ q.to = r.to /\ q.stage = "sent"
      BY <3>1, <3>2 DEF IsAnswer
    <3>4. answers' = (answers \ {r}) \cup {q} /\ conf.log
      BY <2>2, <3>1
    <3> QED
      BY <1>2, <3>2, <3>3, <3>4 DEF LInv, AnswersOK
  <2> QED
    BY <2>1, <2>2 DEF Send
<1>4. ReportIsTrue'
  BY <1>1 DEF ReportIsTrue
<1>5. conf.disableSTUN => answers' = {}
  BY DEF LInv, DisabledAnswersNothing
<1> QED
  BY <1>1, <1>3, <1>4, <1>5, TablesKept

LEMMA ErrorType ==
  ASSUME NEW a, NEW tx
  PROVE  StunType(Response(a, tx, "binding error")) # "binding success"
<1>1. PICK r : r = Response(a, tx, "binding error")
  OBVIOUS
<1>2. r.type = "binding error"
  BY <1>1 DEF Response
<1> QED
  BY <1>1, <1>2 DEF StunType

LEMMA ReportKeeps ==
  ASSUME LInv, NEW r \in answers, Report(r)
  PROVE  LInv'
<1>1. hand' = hand /\ answers' = answers \ {r} /\ UNCHANGED <<conf, tables>>
  BY DEF Report
<1>2. /\ conf' = conf /\ attempts' = attempts /\ arrived' = arrived
      /\ Tracked' = Tracked
  BY <1>1 DEF tables, Tracked
<1>3. AnswersOK'
  BY <1>1, <1>2 DEF LInv, AnswersOK
<1>4. conf.disableSTUN => answers' = {}
  BY DEF LInv, DisabledAnswersNothing
<1>5. IsAnswer(r) /\ r.to \in Source /\ conf.log /\ arrived[r.to] > 0
  BY DEF LInv, AnswersOK, Report
<1>6. ReportIsTrue'
  <2>1. CASE StunType(r.msg) = "binding success"
    <3>1. PICK tx : \/ r.msg = Response(r.to, tx, "binding success")
                    \/ r.msg = Response(r.to, tx, "binding error")
      BY <1>5 DEF IsAnswer
    <3>2. r.msg # Response(r.to, tx, "binding error")
      BY <2>1, ErrorType
    <3>3. MappedAddress(r.msg) = <<r.to>>
      <4>1. HasFamily(r.to)
        BY <1>5, ListenerAssumption DEF HasFamily
      <4> QED
        BY <3>1, <3>2, <4>1, ResponseAddress
    <3>4. PICK l : l = [to |-> r.to, mapped |-> MappedAddress(r.msg),
                        attempts |-> AttemptsFor(r.to)]
      OBVIOUS
    <3>5. line' = {l} /\ l.to = r.to /\ l.mapped = <<r.to>>
          /\ l.attempts = AttemptsFor(r.to)
      BY <2>1, <3>3, <3>4 DEF Report
    <3>6. /\ arrived[r.to] \in Nat /\ MaxTracked \in Nat
          /\ r.to \in Tracked => attempts[r.to] \in Nat \ {0} /\ attempts[r.to] = arrived[r.to]
          /\ r.to \notin Tracked => Cardinality(Tracked) = MaxTracked
      <4>1. /\ arrived \in [Source -> Nat] /\ attempts \in [Tracked -> Nat \ {0}]
            /\ MaxTracked \in Nat
        BY ListenerAssumption DEF LInv, ListenerTypeOK
      <4> QED
        BY <1>5, <4>1 DEF LInv, AttemptsExact
    <3>7. /\ AttemptsFor(r.to) <= arrived[r.to]
          /\ AttemptsFor(r.to) = 0 => Cardinality(Tracked) = MaxTracked
      BY <1>5, <3>6 DEF AttemptsFor
    <3> QED
      BY <1>2, <3>5, <3>7 DEF ReportIsTrue
  <2>2. CASE StunType(r.msg) # "binding success"
    BY <2>2 DEF Report, ReportIsTrue, NoLine
  <2> QED
    BY <2>1, <2>2
<1> QED
  BY <1>1, <1>3, <1>4, <1>6, TablesKept

LEMMA StutterKeepsL == ASSUME LInv, UNCHANGED lvars PROVE LInv'
<1>1. /\ conf' = conf /\ attempts' = attempts /\ dropped' = dropped /\ hand' = hand
      /\ answers' = answers /\ arrived' = arrived /\ shown' = shown /\ line' = line
      /\ Tracked' = Tracked
  BY DEF lvars, Tracked
<1>2. ReportIsTrue' /\ AnswersOK'
  BY <1>1 DEF LInv, ReportIsTrue, AnswersOK
<1>3. conf.disableSTUN => answers' = {}
  BY <1>1 DEF LInv, DisabledAnswersNothing
<1> QED
  BY <1>1, <1>2, <1>3, TablesKept DEF tables

LEMMA ListenerInvariant == LSpec => []LInv
<1>1. ASSUME LInv, [LNext]_lvars
      PROVE  LInv'
  BY <1>1, ReadKeeps, ServeKeeps, SendKeeps, ReportKeeps, StutterKeepsL DEF LNext
<1> QED
  BY <1>1, InitLInv, PTL DEF LSpec

\* The state of the layers has its type (stunlog.go:17-31, stunfilter.go:12-19).
THEOREM ListenerTypes == LSpec => []ListenerTypeOK
<1>1. LInv => ListenerTypeOK
  BY DEF LInv
<1> QED
  BY <1>1, ListenerInvariant, PTL

\* The table of attempts is bounded and exact however many sources send, and
\* hides none of them (stunlog.go:41-55, 78-88).
THEOREM AttemptsAreExact == LSpec => []AttemptsExact
<1>1. LInv => AttemptsExact
  BY DEF LInv
<1> QED
  BY <1>1, ListenerInvariant, PTL

\* With STUN disabled no Binding reaches pion or gets an answer, and the
\* filter's counter shows whether any came (stunfilter.go:30-44).
THEOREM DisabledIsSilent == LSpec => []DisabledAnswersNothing
<1>1. LInv => DisabledAnswersNothing
  BY DEF LInv
<1> QED
  BY <1>1, ListenerInvariant, PTL

\* A logged response names the address it answers (stun.go:65-77,
\* stunlog.go:68-74).
THEOREM ReportsAreTrue == LSpec => []ReportIsTrue
<1>1. LInv => ReportIsTrue
  BY DEF LInv
<1> QED
  BY <1>1, ListenerInvariant, PTL

\* Both together: AnswersAreTrue is what the runs check.
THEOREM AnswersTrue == LSpec => []AnswersAreTrue
BY DisabledIsSilent, ReportsAreTrue, PTL DEF AnswersAreTrue

\* A packet that lost its end is read as the whole one as far as it goes
\* (stun.go:83-109).
THEOREM TruncationIsHarmless == LSpec => []TruncationHarmless
<1>1. LInv => TruncationHarmless
  <2> SUFFICES ASSUME LInv, NEW h \in hand, NEW n \in CutAt \cap (0 .. h.msg.len),
                      NEW c, c = Cut(h.msg, n)
               PROVE  /\ Visited(c) \subseteq Visited(h.msg)
                      /\ \A i \in Visited(c) : c.attrs[i].at + 4 + c.attrs[i].len <= n
                      /\ \A i \in Visited(c) : 1 .. i \subseteq Visited(c)
                      /\ MappedAddress(c) \in {Nothing, MappedAddress(h.msg)}
    BY DEF TruncationHarmless
  <2>1. IsPacket(h.msg)
    BY PacketType DEF LInv, HandOK
  <2>2. IsPacket(c) /\ Visited(c) \subseteq Visited(h.msg)
    BY <2>1, CutWalk
  <2>3. \A i \in Visited(c) : c.attrs[i].at + 4 + c.attrs[i].len <= n
    <3>1. c.len = n
      BY <2>1 DEF Cut, IsPacket
    <3>2. End(c) \in Nat /\ End(c) <= n /\ n \in Nat
      BY <2>1, <2>2, <3>1, EndType DEF IsPacket
    <3> SUFFICES ASSUME NEW i \in Visited(c)
                 PROVE  c.attrs[i].at + 4 + c.attrs[i].len <= n
      OBVIOUS
    <3>3. i \in 1 .. Len(c.attrs) /\ i \in 1 .. i
      BY <2>2, VisitedType DEF IsPacket
    <3>4. c.attrs[i].at \in Nat /\ c.attrs[i].len \in Nat
      BY <2>2, <3>3, AtType
    <3>5. c.attrs[i].at + 4 + c.attrs[i].len <= End(c)
      BY <3>3 DEF Visited
    <3> QED
      BY <3>2, <3>4, <3>5
  <2> QED
    BY <2>1, <2>2, <2>3, VisitedType, CutAddress
<1> QED
  BY <1>1, ListenerInvariant, PTL

\* The credential of a session opens the relay with and without the rewriter,
\* which lets any password in; without it nothing does but a name that is its
\* own password (anyauth.go:36-91, auth.go:26-31, credentials.go:22-31).
THEOREM RelayAdmission == LSpec => []RelayAdmits
<1>1. LInv => RelayAdmits
  <2> SUFFICES ASSUME LInv, NEW h \in hand
               PROVE  /\ \A user, pass \in Token :
                           /\ SignedWith(h.msg, user, pass) /\ h.msg.realm = Realm
                           /\ conf.allowAny \/ pass = user
                           => Verdict(h.given) = "accepted"
                      /\ Verdict(h.given) = "accepted" /\ ~conf.allowAny =>
                           \E i \in Kinds(h.msg, {"username"}), j \in Kinds(h.msg, {"integrity"}) :
                             LET user == h.msg.attrs[i].val[1]
                             IN  /\ user # ""
                                 /\ h.msg.attrs[j].val = Mac(Key(user, h.msg.realm, user), h.msg, j)
                      /\ /\ StunType(h.msg) = "allocate" /\ Whole(h.msg)
                         /\ Kinds(h.msg, {"integrity"}) = {}
                         => Verdict(h.given) = "challenged"
    BY DEF RelayAdmits, HandedOut
  <2>1. IsPacket(h.msg) /\ h.given = IF conf.allowAny THEN Forge(h.msg) ELSE h.msg
    BY PacketType DEF LInv, HandOK, Rewritten
  <2>2. \A user \in Token : Authenticates(user)
    BY ListenerAssumption DEF Authenticates
  <2>3. \A user, pass \in Token :
          /\ SignedWith(h.msg, user, pass) /\ h.msg.realm = Realm
          /\ conf.allowAny \/ pass = user
          => Verdict(h.given) = "accepted"
    BY <2>1, <2>2, ForgeOpens, TokenOpens
  <2>4. ASSUME StunType(h.msg) = "allocate", Whole(h.msg),
               Kinds(h.msg, {"integrity"}) = {}
        PROVE  Verdict(h.given) = "challenged"
    <3>1. h.given = h.msg
      BY <2>1, <2>4 DEF Forge, Forgeable
    <3> QED
      BY <2>4, <3>1 DEF Verdict
  <2> QED
    BY <2>1, <2>3, <2>4, AcceptedIsSigned
<1> QED
  BY <1>1, ListenerInvariant, PTL
=============================================================================
