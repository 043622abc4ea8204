------------------------------- MODULE MCStun -------------------------------
\* Packets of each shape the layers tell apart, whole and cut short.
EXTENDS StunListener, TLC

V4 == [family |-> "IPv4", host |-> "a"]
V6 == [family |-> "IPv6", host |-> "b"]
TwoSources == {V4, V6}
TokenDef == {"token", "other"}

\* A message with these attributes, laid out one after the other.
RECURSIVE Place(_, _)
Place(attrs, at) ==
  IF attrs = <<>> THEN <<>>
  ELSE LET a == [at |-> at] @@ Head(attrs)
       IN  <<a>> \o Place(Tail(attrs), After(a))
Message(type, realm, attrs) ==
  LET placed == Place(attrs, HeaderLen)
      size   == IF attrs = <<>> THEN 0
                ELSE After(placed[Len(attrs)]) - HeaderLen
  IN  [cookie |-> TRUE, type |-> type, tx |-> "tx", realm |-> realm,
       len |-> HeaderLen + size, declared |-> size, attrs |-> placed]

Username(name) == [kind |-> "username", len |-> IF name = "" THEN 0 ELSE 5,
                   val |-> <<name>>]
Other(n) == [kind |-> "other", len |-> n, val |-> <<>>]
NoMac(n) == [kind |-> "integrity", len |-> n, val |-> <<>>]
Address(kind, family, mask) ==
  [kind |-> kind, len |-> IF family = "IPv6" THEN 20 ELSE 8,
   val |-> <<family, mask, [family |-> family, host |-> "x"]>>]

\* signed as a client signs: the attributes before, the MAC, those after
Signed(user, pass, realm, before, after) ==
  LET i == Len(before) + 1
      m == Message("allocate", realm, before \o <<NoMac(20)>> \o after)
  IN  [m EXCEPT !.attrs[i].val = Mac(Key(user, realm, pass), m, i)]

Binding == Message("binding request", "", <<>>)
Tok == "token"
Oth == "other"
Wholes ==
  {Message("binding request", "", <<Username(Tok), NoMac(20)>>),
   Message("binding success", "", <<Address("xor mapped", "IPv4", <<>>)>>),
   Message("binding success", "", <<Other(3), Address("mapped", "IPv6", <<>>),
                                    Address("xor mapped", "IPv4", <<"cookie">>)>>),
   Message("allocate", Realm, <<>>),
   Message("allocate", Realm, <<Username(Tok)>>),
   Message("allocate", Realm, <<Username(Tok), NoMac(0), Other(16)>>),
   Message("allocate", Realm, <<Username(Tok), NoMac(4), Other(16), Username(Oth)>>),
   Signed("", "", Realm, <<Username("")>>, <<>>),
   Signed(Tok, Tok, Realm, <<Username(Oth), Username(Tok)>>, <<>>),
   Signed(Tok, Tok, Realm, <<Username(Tok)>>, <<NoMac(20)>>)}
  \cup {Signed(user, pass, realm, <<Other(1), Username(user)>>, after) :
          user \in {Tok}, pass \in {Tok, Oth}, realm \in {Realm, "else"},
          after \in {<<>>, <<Other(4)>>}}

CutShort == {Cut(m, n) : m \in Wholes, n \in {19, 24, 36}}
Overstated == {[m EXCEPT !.declared = @ + 4] : m \in Wholes}
Understated == {[m EXCEPT !.declared = @ - 4] : m \in {x \in Wholes : x.declared > 0}}

PacketDef == {Binding, [Binding EXCEPT !.cookie = FALSE]} \cup Wholes
  \cup Overstated \cup Understated \cup {m \in CutShort : m.len <= HeaderLen + m.declared}
=============================================================================
