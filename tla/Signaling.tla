----------------------------- MODULE Signaling -----------------------------
(***************************************************************************)
(* The /ws endpoint: the goroutines of signaling/conn.go around the         *)
(* registry of Hub.  A connection p has a handler (handleConn: it reads the *)
(* socket and makes every call into the hub) and, once joined, a writer     *)
(* (writeLoop: it takes frames off out[p] and writes them).  They share a   *)
(* context and the socket.  Hub.Close cancels a server-wide context, whose  *)
(* AfterFunc hook closes each socket, and waits on a WaitGroup.             *)
(*                                                                         *)
(* Every step is a step of Hub or leaves Hub's variables alone, so what is  *)
(* proved of Hub holds here.                                               *)
(*                                                                         *)
(* The socket is coder/websocket over TCP, known from how conn.go uses it:  *)
(* Read and Write return when their context ends and the socket is then     *)
(* closed; Close and CloseNow return within a bounded time.  A client may   *)
(* stop reading for as long as it likes: a Write then returns only when its *)
(* context ends or the socket is closed.                                    *)
(***************************************************************************)
EXTENDS Hub

CONSTANT Pings   \* cfg.PingInterval > 0

ASSUME PingsAssumption == Pings \in BOOLEAN

VARIABLES
  handler,    \* where handleConn is
  writer,     \* where writeLoop is
  cancelled,  \* the connection context has been cancelled
  link,       \* the socket, and whether its client reads
  wg,         \* Hub.wg's counter
  stage       \* how far Hub.Close has come before its sweep

conns == <<handler, writer, cancelled, link, wg, stage>>
svars == <<live, slot, readySent, lonely, mu, gauge, role, label, out,
           closeReason, at, target, signals, timer, sweep, remaining,
           handler, writer, cancelled, link, wg, stage>>

\* places between wg.Add and wg.Done
Entered == {"awaiting", "joining", "rejecting", "reading", "stopping",
            "hanging up", "leaving", "returning"}
HandlerPlace == Entered \cup {"none", "accepted", "done"}
WriterPlace  == {"none", "selecting", "writing", "pinging", "flushing",
                 "last words", "hanging up", "done"}
Link  == {"none", "up", "stalled", "down"}
Stage == {"open", "cancelled", "waiting", "released", "waited", "panicked"}

SInit ==
  /\ Init
  /\ handler = [p \in Peer |-> "none"]
  /\ writer = [p \in Peer |-> "none"]
  /\ cancelled = [p \in Peer |-> FALSE]
  /\ link = [p \in Peer |-> "none"]
  /\ wg = 0
  /\ stage = "open"

Go(p, from, to) ==
  /\ handler[p] = from
  /\ handler' = [handler EXCEPT ![p] = to]

Write(p, from, to) ==
  /\ writer[p] = from
  /\ writer' = [writer EXCEPT ![p] = to]

Cancel(p)   == cancelled' = [cancelled EXCEPT ![p] = TRUE]
HangUp(p)   == link' = [link EXCEPT ![p] = "down"]
Dead(p)     == cancelled[p] \/ link[p] = "down"

-----------------------------------------------------------------------------
(* handleConn *)

\* websocket.Accept has succeeded.  The HTTP server still accepts requests
\* while Close runs.
Accept(p) ==
  /\ Go(p, "none", "accepted")
  /\ link' = [link EXCEPT ![p] = "up"]
  /\ UNCHANGED <<vars, writer, cancelled, wg, stage>>

\* mutant: the handler is not counted
EnterUncounted(p) ==
  /\ Go(p, "accepted", "awaiting")
  /\ UNCHANGED <<vars, writer, cancelled, link, wg, stage>>
\* wg.Add, and the hook on baseCtx.
Enter(p) ==
  /\ Go(p, "accepted", "awaiting")
  /\ wg' = wg + 1
  /\ UNCHANGED <<vars, writer, cancelled, link, stage>>

\* awaitJoin has read a join frame and calls hub.join.
ReadJoin(p) ==
  /\ Go(p, "awaiting", "joining")
  /\ link[p] # "down"
  /\ UNCHANGED <<vars, writer, cancelled, link, wg, stage>>

\* The first frame is not a join, or there is none within joinTimeout, or the
\* socket is closed.
AwaitFails(p) ==
  /\ Go(p, "awaiting", "rejecting")
  /\ UNCHANGED <<vars, writer, cancelled, link, wg, stage>>

\* hub.join, up to its return.
Join(p) ==
  /\ handler[p] = "joining"
  /\ \/ /\ \/ \E r \in Role, l \in Label : JoinRegister(p, r, l)
           \/ JoinAnnounce(p)
           \/ CloseReplaced(p)
        /\ UNCHANGED conns
     \/ /\ \E r \in RoleInput, l \in LabelInput : JoinRejected(p, r, l)
        /\ Go(p, "joining", "rejecting")
        /\ UNCHANGED <<writer, cancelled, link, wg, stage>>

\* mutant: the loops start before the displaced peer is closed
StartEarly(p) ==
  /\ at[p] \in {"serving", "replacing"}
  /\ Go(p, "joining", "reading")
  /\ Write(p, "none", "selecting")
  /\ UNCHANGED <<vars, cancelled, link, wg, stage>>
\* join has returned a peer: the writer starts, the read loop begins.
StartLoops(p) ==
  /\ at[p] = "serving"
  /\ Go(p, "joining", "reading")
  /\ Write(p, "none", "selecting")
  /\ UNCHANGED <<vars, cancelled, link, wg, stage>>

\* readLoop has read an offer, an answer or a candidate: forward.
ReadSignal(p) ==
  /\ handler[p] = "reading"
  /\ link[p] # "down"
  /\ Forward(p)
  /\ UNCHANGED conns

RelaySignal(p) ==
  /\ handler[p] = "reading"
  /\ ForwardSend(p)
  /\ UNCHANGED conns

\* readLoop returns, and the handler cancels the context.  On an error because
\* the context ended, the library has closed the socket.
ReadBye(p) ==
  /\ at[p] = "serving" /\ link[p] # "down"
  /\ Go(p, "reading", "stopping")
  /\ Cancel(p)
  /\ UNCHANGED <<vars, writer, link, wg, stage>>

\* mutant: a closed socket does not end the read
ReadUntilCancelled(p) ==
  /\ at[p] = "serving" /\ cancelled[p]
  /\ Go(p, "reading", "stopping")
  /\ HangUp(p)
  /\ UNCHANGED <<vars, writer, cancelled, wg, stage>>
ReadFails(p) ==
  /\ at[p] = "serving" /\ Dead(p)
  /\ Go(p, "reading", "stopping")
  /\ Cancel(p) /\ HangUp(p)
  /\ UNCHANGED <<vars, writer, wg, stage>>

\* mutant: the handler does not wait for the writer
WriterForgotten(p) ==
  /\ Go(p, "stopping", "hanging up")
  /\ UNCHANGED <<vars, writer, cancelled, link, wg, stage>>
\* <-writerDone
WriterEnded(p) ==
  /\ writer[p] = "done"
  /\ Go(p, "stopping", "hanging up")
  /\ UNCHANGED <<vars, writer, cancelled, link, wg, stage>>

\* mutant: the read loop leaves the close to the writer
LeaveOpen(p) ==
  /\ Go(p, "hanging up", "leaving")
  /\ UNCHANGED <<vars, writer, cancelled, link, wg, stage>>
\* ws.Close, which every connection that joined gets from its handler.
CloseSocket(p) ==
  /\ Go(p, "hanging up", "leaving")
  /\ HangUp(p)
  /\ UNCHANGED <<vars, writer, cancelled, wg, stage>>

\* defer s.leave(p)
LeaveHub(p) ==
  /\ handler[p] = "leaving"
  /\ Leave(p) \/ LeaveSend(p)
  /\ UNCHANGED conns

\* ws.Close of a connection that did not join.
RejectSocket(p) ==
  /\ Go(p, "rejecting", "returning")
  /\ HangUp(p)
  /\ UNCHANGED <<vars, writer, cancelled, wg, stage>>

\* mutant: leave is not deferred
ReturnRegistered(p) ==
  /\ handler[p] \in {"returning", "leaving"}
  /\ Go(p, handler[p], "done")
  /\ Cancel(p)
  /\ wg' = wg - 1
  /\ stage' = IF stage = "waiting" /\ wg = 1 THEN "released" ELSE stage
  /\ UNCHANGED <<vars, writer, link>>
\* stop, cancel, and wg.Done, which wakes Close when it was the last one.
Return(p) ==
  /\ \/ handler[p] = "returning"
     \/ handler[p] = "leaving" /\ at[p] = "gone"
  /\ Go(p, handler[p], "done")
  /\ Cancel(p)
  /\ wg' = wg - 1
  /\ stage' = IF stage = "waiting" /\ wg = 1 THEN "released" ELSE stage
  /\ UNCHANGED <<vars, writer, link>>

-----------------------------------------------------------------------------
(* writeLoop and flushAndClose.  The writer ends with a cancel. *)

\* mutant: it does not
EndQuietly(p, from) ==
  /\ Write(p, from, "done")
  /\ UNCHANGED cancelled
EndWriter(p, from) ==
  /\ Write(p, from, "done")
  /\ Cancel(p)

WriterStops(p) ==
  /\ cancelled[p]
  /\ EndWriter(p, "selecting")
  /\ UNCHANGED <<vars, handler, link, wg, stage>>

WriterTakes(p) ==
  /\ Drain(p)
  /\ \/ Write(p, "selecting", "writing")
     \/ Write(p, "flushing", "last words")
  /\ UNCHANGED <<handler, cancelled, link, wg, stage>>

\* The client reads.
WriteReturns(p) ==
  /\ link[p] = "up"
  /\ \/ Write(p, "writing", "selecting")
     \/ Write(p, "last words", "flushing")
  /\ UNCHANGED <<vars, handler, cancelled, link, wg, stage>>

\* mutant: the write is given a context that nothing ends
WriteOutlastsContext(p) ==
  /\ link[p] = "down"
  /\ EndWriter(p, "writing")
  /\ UNCHANGED <<vars, handler, link, wg, stage>>
WriteFails(p) ==
  /\ Dead(p)
  /\ EndWriter(p, "writing")
  /\ HangUp(p)
  /\ UNCHANGED <<vars, handler, wg, stage>>

\* mutant: the flush has the patience of an ordinary write
FlushWaits(p) ==
  /\ link[p] = "down"
  /\ EndWriter(p, "last words")
  /\ UNCHANGED <<vars, handler, link, wg, stage>>
\* closeGrace is over, or the socket is closed: CloseNow.
FlushFails(p) ==
  /\ EndWriter(p, "last words")
  /\ HangUp(p)
  /\ UNCHANGED <<vars, handler, wg, stage>>

\* A round trip bounded by PingTimeout.
PingStarts(p) ==
  /\ Pings
  /\ Write(p, "selecting", "pinging")
  /\ UNCHANGED <<vars, handler, cancelled, link, wg, stage>>

Pong(p) ==
  /\ link[p] = "up"
  /\ Write(p, "pinging", "selecting")
  /\ UNCHANGED <<vars, handler, cancelled, link, wg, stage>>

PingFails(p) ==
  /\ EndWriter(p, "pinging")
  /\ UNCHANGED <<vars, handler, link, wg, stage>>

\* mutant: the close request is not heard
HearsNothing(p) == FALSE /\ UNCHANGED svars
\* The registry has asked for the close.
WriterCloses(p) ==
  /\ closeReason[p] # "none"
  /\ Write(p, "selecting", "flushing")
  /\ UNCHANGED <<vars, handler, cancelled, link, wg, stage>>

\* Nothing is left in the channel: ws.Close begins, and ends.
FlushEnds(p) ==
  /\ out[p] = <<>>
  /\ Write(p, "flushing", "hanging up")
  /\ UNCHANGED <<vars, handler, cancelled, link, wg, stage>>

WriterHangsUp(p) ==
  /\ EndWriter(p, "hanging up")
  /\ HangUp(p)
  /\ UNCHANGED <<vars, handler, wg, stage>>

-----------------------------------------------------------------------------
(* The client, the shutdown hook, and Close *)

ClientStalls(p) ==
  /\ link[p] = "up"
  /\ link' = [link EXCEPT ![p] = "stalled"]
  /\ UNCHANGED <<vars, handler, writer, cancelled, wg, stage>>

ClientResumes(p) ==
  /\ link[p] = "stalled"
  /\ link' = [link EXCEPT ![p] = "up"]
  /\ UNCHANGED <<vars, handler, writer, cancelled, wg, stage>>

\* It closes the socket, or the network does.
ClientGoes(p) ==
  /\ link[p] \in {"up", "stalled"}
  /\ HangUp(p)
  /\ UNCHANGED <<vars, handler, writer, cancelled, wg, stage>>

\* mutant: nobody closes the sockets at shutdown
NoHook(p) == FALSE /\ UNCHANGED svars
\* context.AfterFunc(baseCtx, CloseNow), from Enter until the handler's stop
HookFires(p) ==
  /\ stage # "open"
  /\ handler[p] \in Entered
  /\ link[p] # "down"
  /\ HangUp(p)
  /\ UNCHANGED <<vars, handler, writer, cancelled, wg, stage>>

CloseCancels ==
  /\ Shutdown
  /\ stage = "open"
  /\ stage' = "cancelled"
  /\ UNCHANGED <<vars, handler, writer, cancelled, link, wg>>

\* wg.Wait: returns at once on a zero counter, else waits for the Done that
\* makes it zero.
CloseWaits ==
  /\ stage = "cancelled"
  /\ stage' = IF wg = 0 THEN "waited" ELSE "waiting"
  /\ UNCHANGED <<vars, handler, writer, cancelled, link, wg>>

\* Wait runs again.  A counter that is not zero any more is a misuse of the
\* WaitGroup: the runtime panics and the process is gone.
CloseWakes ==
  /\ stage = "released"
  /\ stage' = IF wg = 0 THEN "waited" ELSE "panicked"
  /\ UNCHANGED <<vars, handler, writer, cancelled, link, wg>>

CloseEnds ==
  /\ stage = "waited"
  /\ CloseSweep \/ CloseGauge
  /\ UNCHANGED conns

-----------------------------------------------------------------------------
HandlerSteps(p) ==
  \/ Enter(p) \/ AwaitFails(p) \/ Join(p) \/ StartLoops(p)
  \/ RelaySignal(p) \/ ReadFails(p) \/ WriterEnded(p) \/ CloseSocket(p)
  \/ LeaveHub(p) \/ RejectSocket(p) \/ Return(p)

WriterSteps(p) ==
  \/ WriterStops(p) \/ WriterTakes(p) \/ WriteReturns(p) \/ WriteFails(p)
  \/ FlushFails(p) \/ PingStarts(p) \/ Pong(p) \/ PingFails(p)
  \/ WriterCloses(p) \/ FlushEnds(p) \/ WriterHangsUp(p)

ClientSteps(p) ==
  \/ Accept(p) \/ ReadJoin(p) \/ ReadSignal(p) \/ ReadBye(p)
  \/ ClientStalls(p) \/ ClientResumes(p) \/ ClientGoes(p)

\* the process has not panicked
Alive == stage # "panicked"

SNext ==
  /\ Alive
  /\ \/ \E p \in Peer :
          \/ HandlerSteps(p) \/ WriterSteps(p) \/ ClientSteps(p)
          \/ HookFires(p)
          \/ LonelyTimer(p) /\ UNCHANGED conns
     \/ CloseCancels \/ CloseWaits \/ CloseWakes \/ CloseEnds

SSpec == SInit /\ [][SNext]_svars

(***************************************************************************)
(* Fairness: goroutines run, while there is a process; awaitJoin is bounded *)
(* by joinTimeout, a ping by PingTimeout, the hook by the scheduler.  Steps *)
(* that contend are taken if they can be taken again and again: Go's select *)
(* picks among its ready cases at random, and so does a Read whose context  *)
(* has ended; closeGrace bounds the flush as a whole, however many frames   *)
(* it finds; and the mutex is handed to whoever has waited for it for a     *)
(* millisecond.  Each of Contended is taken once or twice, so fairness to   *)
(* any is fairness to each.  A Write to a client that does not read is not  *)
(* bound to return, a client is bound to nothing, and nobody is bound to    *)
(* call Close; once called, it runs.                                        *)
(***************************************************************************)
Contended(p) ==
  WriterStops(p) \/ WriterCloses(p) \/ FlushFails(p) \/ ReadFails(p) \/ LeaveHub(p)

ConnectionRuns(p) ==
  /\ WF_svars(Alive /\ HandlerSteps(p))
  /\ WF_svars(Alive /\ writer[p] # "selecting" /\ WriterSteps(p))
  /\ SF_svars(Alive /\ Contended(p))
  /\ WF_svars(Alive /\ HookFires(p))
  /\ SF_svars(Alive /\ LonelyTimer(p) /\ UNCHANGED conns)

CloseRuns == WF_svars(CloseWaits) /\ WF_svars(CloseWakes) /\ WF_svars(CloseEnds)

SFairness == CloseRuns /\ \A p \in Peer : ConnectionRuns(p)

SFairSpec == SSpec /\ SFairness

\* A client that reads now and then lets a Write return: only one that never
\* reads again can hold it.
SlowSpec == SFairSpec /\ \A p \in Peer : SF_svars(WriteReturns(p))

-----------------------------------------------------------------------------
(* Properties *)

\* Types of the variables this module adds; the WaitGroup never goes below
\* zero, which would be a panic.
STypeOK ==
  /\ handler \in [Peer -> HandlerPlace]
  /\ writer \in [Peer -> WriterPlace]
  /\ cancelled \in [Peer -> BOOLEAN]
  /\ link \in [Peer -> Link]
  /\ wg \in Nat
  /\ stage \in Stage

\* "writeLoop is the sole owner of the socket's write side": while it is at
\* work the handler neither writes nor closes the socket, and the hub has not
\* heard that the peer left.
SoleWriter ==
  \A p \in Peer :
    writer[p] \notin {"none", "done"} =>
      handler[p] \in {"reading", "stopping"} /\ at[p] \in {"serving", "relaying"}

\* A handler that returned has left no socket open, no writer running and
\* nothing in the registry, whichever of the two loops ended first, whoever
\* closed the socket and however far the join had come.
NothingLeftBehind ==
  \A p \in Peer :
    handler[p] = "done" =>
      /\ link[p] = "down"
      /\ writer[p] \in {"none", "done"}
      /\ at[p] \in {"dialing", "gone"}
      /\ ~Holds(p)

\* When leave has emptied a slot and is about to send bye, the socket of the
\* peer that leaves is closed and its writer has ended: its counterpart hears
\* bye only when nothing can come from it any more.
SlotOutlivesSocket ==
  \A p \in Peer : at[p] = "leaving" => link[p] = "down" /\ writer[p] = "done"

\* When Close's Wait returns, every handler it counted has returned: nothing
\* that entered before it is still running, and nothing is counted twice.
WaitIsComplete ==
  [][stage # "waited" /\ stage' = "waited" =>
       \A p \in Peer : handler[p] \notin Entered]_svars

\* When Close has returned and the handlers that came too late for its Wait
\* are done, the registry is empty and no session is counted.
ShutdownLeavesNothing ==
  /\ sweep = "closed"
  /\ \A p \in Peer : handler[p] \in {"none", "accepted", "done"}
  => live = {} /\ gauge = 0

\* What the handler of p may wait for: nobody is there, the client, the
\* writer, or the mutex.
HandlerWaits(p) ==
  \/ handler[p] \in {"none", "done"}
  \/ handler[p] = "reading" /\ at[p] = "serving" /\ ~Dead(p)
  \/ handler[p] = "stopping" /\ writer[p] # "done"
  \/ handler[p] = "leaving" /\ at[p] = "serving" /\ mu # NoPeer

\* What the writer of p may wait for: its select, or a client that does not
\* read, as long as neither the context nor the socket has ended.
WriterWaits(p) ==
  \/ writer[p] \in {"none", "selecting", "done"}
  \/ writer[p] = "writing" /\ link[p] # "up" /\ ~Dead(p)

\* When one of the contended steps of p is there to be taken.
Ripe(p) ==
  \/ writer[p] = "selecting" /\ (cancelled[p] \/ closeReason[p] # "none")
  \/ writer[p] = "last words"
  \/ handler[p] = "reading" /\ at[p] = "serving" /\ Dead(p)
  \/ handler[p] = "leaving" /\ at[p] = "leaving"
  \/ handler[p] = "leaving" /\ at[p] = "serving" /\ mu = NoPeer

\* When the hook has yet to close the socket of p.
Hooked(p) == stage # "open" /\ handler[p] \in Entered /\ link[p] # "down"

WaitJustified(p) ==
  Alive =>
    /\ HandlerWaits(p) \/ ENABLED <<Alive /\ HandlerSteps(p)>>_svars
    /\ \/ WriterWaits(p)
       \/ ENABLED <<Alive /\ writer[p] # "selecting" /\ WriterSteps(p)>>_svars
    /\ Ripe(p) => ENABLED <<Alive /\ Contended(p)>>_svars
    /\ Hooked(p) => ENABLED <<Alive /\ HookFires(p)>>_svars
    /\ TimerDue(p)
         => ENABLED <<Alive /\ LonelyTimer(p) /\ UNCHANGED conns>>_svars

\* The goroutines of a connection wait for nothing else: no place in
\* handleConn, writeLoop or flushAndClose waits for the other goroutine in a
\* circle, for a frame in a channel, for a client after the context ended, or
\* for a Close that waits for them.
WaitsAreJustified == \A p \in Peer : WaitJustified(p)

\* What ends a connection: its read loop has ended, its socket is closed, or
\* Close has been called since it entered.
Ending(p) ==
  \/ handler[p] = "stopping"
  \/ handler[p] # "none" /\ link[p] = "down"
  \/ handler[p] \in Entered /\ stage # "open"

\* (Liveness.)  A connection that is being ended leaves the registry and
\* returns: neither a write to a client that does not read, nor a ping, nor
\* the flush, nor the mutex holds it.
EndedConnectionReturns ==
  \A p \in Peer : Ending(p) ~> handler[p] = "done" \/ stage = "panicked"

\* A client that reads is closed once the registry asked for it, even if it
\* sends for ever and answers every ping.  (The run has neither signals nor
\* pings; the theorem CloseRequestsAreHeard does not depend on either.)
CloseRequestIsHeard ==
  \A p \in Peer :
    closeReason[p] # "none" /\ link[p] = "up"
      ~> link[p] # "up" \/ stage = "panicked"

\* A ping that is not answered ends the connection: the client need not close
\* it, and may stay silent for ever.
SilentClientIsClosed ==
  \A p \in Peer :
    writer[p] = "pinging" /\ link[p] = "stalled"
      ~> link[p] # "stalled" \/ stage = "panicked"

\* Close returns, whatever the clients do.
CloseReturns == stage = "cancelled" ~> sweep = "closed" \/ stage = "panicked"

-----------------------------------------------------------------------------
(* What Close is to the server: see Closing *)

Phase == CASE stage \in {"cancelled", "waiting"} -> "closing"
           [] stage = "waited"                  -> "closed"
           [] OTHER                             -> stage

Wait == INSTANCE Closing WITH
  inside <- {p \in Peer : handler[p] \in Entered},
  gone   <- {p \in Peer : handler[p] = "done"},
  phase  <- Phase

\* A connection is counted once, from wg.Add to the end of its handler, and
\* whatever comes and goes meanwhile Close does not get past its Wait while
\* one is counted, nor does the WaitGroup panic but when one has come since
\* the last of them released it.
ClosingSafety == Wait!Safety

\* Every connection that Close finds, or that comes later, ends.
ClosingPromise == Wait!Promise

-----------------------------------------------------------------------------
(* What the documents say and the code does not do *)

\* "A peer that fills it is not keeping up and gets closed": once a close was
\* requested the socket is closed.  A writer inside ws.Write to a client that
\* stopped reading never comes back to hear the request.
SlowPeerIsClosed ==
  \A p \in Peer :
    closeReason[p] = "send buffer full" ~> link[p] = "down"

\* "Close cancels every live connection and waits for their goroutines": the
\* handler of a connection that was accepted before Close was called has
\* returned when Close has.  One that had not reached wg.Add is not waited for.
CloseWaitsForAll ==
  \A p \in Peer :
    [](handler[p] # "none" /\ stage = "open"
         => [](sweep = "closed" => handler[p] = "done"))
=============================================================================
