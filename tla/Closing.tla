------------------------------ MODULE Closing ------------------------------
(***************************************************************************)
(* What Hub.Close is to the rest of the process: connections come and go,   *)
(* Close waits until none is left, and once it has returned a connection    *)
(* may still come late.  No registry, no sockets and no goroutines of a     *)
(* connection.  Signaling implements this module (ClosingSafety), and it is *)
(* what Lifecycle knows of the hub (HubSafety).                             *)
(***************************************************************************)
CONSTANT Peer

VARIABLES
  inside,     \* connections between wg.Add and wg.Done
  gone,       \* connections that have ended
  phase       \* of Close

closing == <<inside, gone, phase>>

Init ==
  /\ inside = {} /\ gone = {}
  /\ phase = "open"

\* A connection comes once, at any time.
Come(p) ==
  /\ p \notin inside \cup gone
  /\ inside' = inside \cup {p}
  /\ UNCHANGED <<gone, phase>>

\* It ends.  The last one releases Close, if Close waits already.
End(p) ==
  /\ p \in inside
  /\ inside' = inside \ {p}
  /\ gone' = gone \cup {p}
  /\ \/ UNCHANGED phase
     \/ phase = "closing" /\ inside = {p} /\ phase' = "released"

Close ==
  /\ phase = "open"
  /\ phase' = "closing"
  /\ UNCHANGED <<inside, gone>>

\* Close returns only while nobody is inside, released or not.
Return ==
  /\ phase \in {"closing", "released"}
  /\ inside = {}
  /\ phase' = "closed"
  /\ UNCHANGED <<inside, gone>>

\* It was released and somebody has come before it ran again.  That is the end
\* of the process: nothing is said of its connections any more.
Panic ==
  /\ phase = "released"
  /\ inside # {}
  /\ phase' = "panicked"
  /\ inside' \subseteq inside
  /\ gone \subseteq gone'

\* The process ends, and with it every connection, also one still to come.
Stop ==
  /\ phase = "closed"
  /\ inside' = {}
  /\ gone \cup inside \subseteq gone'
  /\ UNCHANGED phase

Next ==
  \/ \E p \in Peer : Come(p) \/ End(p)
  \/ Close \/ Return \/ Panic \/ Stop

Safety == Init /\ [][phase # "panicked" /\ Next]_closing

\* Once Close is called, every connection that is inside, or comes, ends.
Promise ==
  \A p \in Peer :
    p \in inside /\ phase # "open" ~> p \notin inside \/ phase = "panicked"
=============================================================================
