---------------------------- MODULE StunListener ----------------------------
(***************************************************************************)
(* The UDP listener of the relay: the three layers turn.New stacks on the   *)
(* socket (logger, Binding filter, any-credential rewriter), read by pion's  *)
(* one reading goroutine, while pion's answers are written back through the  *)
(* same layers (turn/stunlog.go, stunfilter.go, anyauth.go).  The table of   *)
(* attempts is shared by both directions, behind a mutex.                   *)
(*                                                                         *)
(* pion is modelled from how the layers use it: it answers binding requests  *)
(* with success or error, some time later, and decides about allocations.   *)
(* Left out: errors of the socket's ReadFrom, which pass through untouched,  *)
(* and packets that are no answer to a binding, which WriteTo only forwards. *)
(***************************************************************************)
EXTENDS StunMessage, FiniteSets

CONSTANTS
  Source,      \* addresses: [family, host]
  Packet,      \* what may arrive from any of them
  MaxTracked,  \* maxTrackedSources
  Token,       \* the TURN tokens of sessions (newTurnToken)
  MaxRequests, \* bound: binding requests per source
  CutAt        \* bound: where a packet may lose its end, for one property

ASSUME ListenerAssumption ==
  /\ MaxTracked \in Nat /\ MaxRequests \in Nat
  /\ IsFiniteSet(Source)
  /\ \A a \in Source : a.family \in {"IPv4", "IPv6"}
  /\ "" \notin Token
  /\ \A m \in Packet : IsPacket(m)

VARIABLES
  conf,      \* the fields of Config that choose the layers
  attempts,  \* the table: a function of the sources it has
  dropped,   \* stunFilterConn.dropped
  hand,      \* what the reading goroutine gives pion: [from, msg, given]
  answers,   \* answers pion owes or is writing: [to, msg, stage]
  \* history: per source, the binding requests that came off the socket and
  \* the info lines they got; the line about a success this step logged
  arrived, shown, line

tables == <<attempts, dropped, arrived, shown>>
lvars == <<conf, attempts, dropped, hand, answers, arrived, shown, line>>

Reading == {}      \* the goroutine has no packet
NoLine == {}

LInit ==
  /\ conf \in [disableSTUN : BOOLEAN, allowAny : BOOLEAN, log : BOOLEAN]
  /\ attempts = [a \in {} |-> 0]
  /\ dropped = 0
  /\ answers = {}
  /\ arrived = [a \in Source |-> 0]
  /\ shown = [a \in Source |-> 0]
  /\ hand = Reading
  /\ line = NoLine

Tracked == DOMAIN attempts

\* mutant: the table has no limit
Unlimited(a) == FALSE
\* count: a source past the cap is not entered
PastCap(a) == Cardinality(Tracked) >= MaxTracked /\ a \notin Tracked

\* attemptsFor: a source that is not in the table has none
AttemptsFor(a) == IF a \in Tracked THEN attempts[a] ELSE 0

\* mutant: the count before this request
CountBefore(a) == IF PastCap(a) THEN 1 ELSE AttemptsFor(a)
\* what count returns
Count(a) == IF PastCap(a) THEN 1 ELSE AttemptsFor(a) + 1

\* The logger sees every binding request, the filtered ones too: it is the
\* innermost layer.
\* mutant: the filter is inside the logger
LogOutside(m, a) == conf.log /\ ~conf.disableSTUN /\ IsBindingRequest(m)
Logs(m, a) == conf.log /\ IsBindingRequest(m)

Log(m, a) ==
  IF Logs(m, a)
  THEN /\ attempts' = IF PastCap(a) THEN attempts
                      ELSE [b \in Tracked \cup {a} |->
                              IF b = a THEN Count(a) ELSE attempts[b]]
       /\ shown' = IF Count(a) = 1 THEN [shown EXCEPT ![a] = @ + 1] ELSE shown
  ELSE UNCHANGED <<attempts, shown>>

\* mutant: the filter takes what is not a request too
DropsResponses(m) == conf.disableSTUN /\ IsBindingResponse(m)
Drops(m) == conf.disableSTUN /\ IsBindingRequest(m)

\* What pion gets of a packet that was not dropped.
Rewritten(m) == IF conf.allowAny THEN Forge(m) ELSE m

\* One packet through all layers, or up to the filter.
Read(m, a) ==
  /\ hand = Reading
  /\ IsBindingRequest(m) => arrived[a] < MaxRequests
  /\ arrived' = IF IsBindingRequest(m) THEN [arrived EXCEPT ![a] = @ + 1]
                ELSE arrived
  /\ Log(m, a)
  /\ IF Drops(m) THEN dropped' = dropped + 1 /\ UNCHANGED hand
     ELSE /\ hand' = {[from |-> a, msg |-> m, given |-> Rewritten(m)]}
          /\ UNCHANGED dropped
  /\ line' = NoLine
  /\ UNCHANGED <<conf, answers>>

\* pion handles the packet before it reads the next one; a binding request
\* gets an answer, at once or later.
Serve(h) ==
  /\ h \in hand
  /\ hand' = Reading
  /\ IF IsBindingRequest(h.given)
     THEN \E type \in {"binding success", "binding error"} :
            answers' = answers \cup
              {[to |-> h.from, msg |-> Response(h.from, h.given.tx, type),
                stage |-> "owed"]}
     ELSE UNCHANGED answers
  /\ line' = NoLine
  /\ UNCHANGED <<conf, tables>>

\* WriteTo: the answer goes out, or fails, which is only a warning.
Send(r) ==
  /\ r \in answers /\ r.stage = "owed"
  /\ \/ answers' = answers \ {r}
     \/ /\ conf.log
        /\ answers' = (answers \ {r}) \cup {[r EXCEPT !.stage = "sent"]}
  /\ line' = NoLine
  /\ UNCHANGED <<conf, tables, hand>>

\* The line about it, with the attempts as they are by then.
Report(r) ==
  /\ r \in answers /\ r.stage = "sent"
  /\ answers' = answers \ {r}
  /\ line' = IF StunType(r.msg) = "binding success"
             THEN {[to |-> r.to, mapped |-> MappedAddress(r.msg),
                    attempts |-> AttemptsFor(r.to)]}
             ELSE NoLine
  /\ UNCHANGED <<conf, tables, hand>>

LNext ==
  \/ \E m \in Packet, a \in Source : Read(m, a)
  \/ \E h \in hand : Serve(h)
  \/ \E r \in answers : Send(r) \/ Report(r)

LSpec == LInit /\ [][LNext]_lvars

-----------------------------------------------------------------------------
(* Properties *)

ListenerTypeOK ==
  /\ conf \in [disableSTUN : BOOLEAN, allowAny : BOOLEAN, log : BOOLEAN]
  /\ Tracked \subseteq Source
  /\ attempts \in [Tracked -> Nat \ {0}]
  /\ dropped \in Nat
  /\ arrived \in [Source -> Nat]
  /\ shown \in [Source -> Nat]
  /\ \A h \in hand : h.from \in Source
  /\ \A r \in answers : r.to \in Source /\ r.stage \in {"owed", "sent"}

\* The port is open to anyone, and the table does not grow with the traffic.
\* What it counts is exact, dropped requests included, and a tracked source is
\* at info once; a source that sent and is not counted found the table full and
\* is at info every time, so none is hidden.
AttemptsExact ==
  conf.log =>
    /\ Cardinality(Tracked) <= MaxTracked
    /\ \A a \in Source :
         IF a \in Tracked THEN attempts[a] = arrived[a] /\ shown[a] = 1
         ELSE /\ arrived[a] > 0 => Cardinality(Tracked) = MaxTracked
              /\ shown[a] = arrived[a]

\* With STUN disabled pion gets no binding request, so it answers none, and
\* the counter of the filter knows of those that came.
DisabledAnswersNothing ==
  conf.disableSTUN =>
    /\ answers = {} /\ \A h \in hand : ~IsBindingRequest(h.given)
    /\ (\A a \in Source : arrived[a] = 0) <=> dropped = 0

\* The line about a response names the address the request came from, and
\* counts it, unless the table was full.
ReportIsTrue ==
  \A l \in line :
    /\ l.mapped = <<l.to>>
    /\ l.attempts <= arrived[l.to]
    /\ l.attempts = 0 => Cardinality(Tracked) = MaxTracked

\* What the listener answers, and what it says of its answers, is true.
AnswersAreTrue == DisabledAnswersNothing /\ ReportIsTrue

\* A packet whose attributes say user and pass, once each.
SignedWith(m, user, pass) ==
  LET names == Kinds(m, {"username"})
      macs  == Kinds(m, {"integrity"})
  IN  /\ StunType(m) = "allocate" /\ Whole(m)
      /\ \E u \in names : names = {u} /\ m.attrs[u].val = <<user>>
      /\ \E i \in macs : /\ macs = {i}
                         /\ m.attrs[i].len = IntegritySize
                         /\ m.attrs[i].val = Mac(Key(user, m.realm, pass), m, i)

\* The credential the hub hands out for a session opens the relay, whichever
\* layers there are, and with the rewriter so does any password; without it
\* only what was signed with the user's name does.  The first request, which
\* has no integrity, gets its challenge all the same.
RelayAdmits ==
  \A h \in hand :
    /\ \A user, pass \in Token :
         /\ SignedWith(h.msg, user, pass) /\ h.msg.realm = Realm
         /\ conf.allowAny \/ pass = HandedOut(user).pass
         => Verdict(h.given) = "accepted"
    /\ Verdict(h.given) = "accepted" /\ ~conf.allowAny =>
         \E i \in Kinds(h.msg, {"username"}), j \in Kinds(h.msg, {"integrity"}) :
           LET user == h.msg.attrs[i].val[1]
           IN  /\ user # ""
               /\ h.msg.attrs[j].val = Mac(Key(user, h.msg.realm, user), h.msg, j)
    /\ /\ StunType(h.msg) = "allocate" /\ Whole(h.msg)
       /\ Kinds(h.msg, {"integrity"}) = {}
       => Verdict(h.given) = "challenged"

Cut(m, n) == [m EXCEPT !.len = n]

\* A packet that lost its end is read as the whole one as far as it goes: the
\* walk stays within the bytes there are, finds no attribute the whole packet
\* does not have and skips none, and no other address is taken for the mapped
\* one.
TruncationHarmless ==
  \A h \in hand : \A n \in CutAt \cap (0 .. h.msg.len) :
    LET c == Cut(h.msg, n)
    IN  /\ Visited(c) \subseteq Visited(h.msg)
        /\ \A i \in Visited(c) : c.attrs[i].at + 4 + c.attrs[i].len <= n
        /\ \A i \in Visited(c) : 1 .. i \subseteq Visited(c)
        /\ MappedAddress(c) \in {Nothing, MappedAddress(h.msg)}
=============================================================================
