----------------------------- MODULE RequestMux ------------------------------
(***************************************************************************)
(* relay/multiplexer.go and its one user, handleMCPForward in              *)
(* relay/server.go: HTTP handlers register a request id, send the request  *)
(* over a WebSocket and wait; the goroutine that reads the socket          *)
(* completes the id when an mcp_response frame arrives.                    *)
(*                                                                         *)
(* The mutex protects only the map `pending`.  Complete and Cancel remove  *)
(* the id under the lock and touch the channel after they released it, so  *)
(* each of them is two or three steps here, and every other goroutine may  *)
(* run in between.  Channel operations follow the Go memory model: a send  *)
(* on a closed channel and a second close panic, which kills the relay.    *)
(*                                                                         *)
(* The id is a fresh UUID per handler (server.go:621), so a handler, its   *)
(* request id and its channel are one and the same value r.                *)
(***************************************************************************)
CONSTANTS Reqs,     \* the forward handlers, each with its request id
          Readers,  \* goroutines that call Complete (one per socket)
          Bodies,   \* response bodies a peer may send
          None      \* no body, no request, no status yet

ASSUME NoneAssumption == /\ None \notin Bodies
                         /\ None \notin Reqs
                         /\ None \notin {"200", "202", "502", "504", "aborted"}

VARIABLES
  pc,        \* where handler r is in handleMCPForward
  status,    \* HTTP status that handler r wrote
  reply,     \* the body that handler r returned with a 200
  timer,     \* time.After in Wait: "off", "running", "fired"
  pending,   \* the ids in RequestMultiplexer.pending
  buf,       \* the one-place buffer of r's channel
  closed,    \* r's channel has been closed
  rpc,       \* where reader d is in Complete
  rid,       \* the id whose channel reader d holds
  rbody,     \* the body that reader d is about to send
  panicked   \* a channel operation panicked

vars == <<pc, status, reply, timer, pending, buf, closed, rpc, rid, rbody,
          panicked>>

handlerVars == <<pc, status, reply, timer>>
readerVars  == <<rpc, rid, rbody>>

HandlerSteps == {"start", "sending", "waiting", "cancel502", "close502",
                 "cancel504", "close504", "done"}

Cancelling == {"cancel502", "cancel504"}
Closing    == {"close502", "close504"}

TypeOK ==
  /\ pc \in [Reqs -> HandlerSteps]
  /\ status \in [Reqs -> {"200", "202", "502", "504", "aborted", None}]
  /\ reply \in [Reqs -> Bodies \cup {None}]
  /\ timer \in [Reqs -> {"off", "running", "fired"}]
  /\ pending \in SUBSET Reqs
  /\ buf \in [Reqs -> Bodies \cup {None}]
  /\ closed \in [Reqs -> BOOLEAN]
  /\ rpc \in [Readers -> {"ready", "send", "close"}]
  /\ rid \in [Readers -> Reqs \cup {None}]
  /\ rbody \in [Readers -> Bodies \cup {None}]
  /\ panicked \in BOOLEAN

Init ==
  /\ pc = [r \in Reqs |-> "start"]
  /\ status = [r \in Reqs |-> None]
  /\ reply = [r \in Reqs |-> None]
  /\ timer = [r \in Reqs |-> "off"]
  /\ pending = {}
  /\ buf = [r \in Reqs |-> None]
  /\ closed = [r \in Reqs |-> FALSE]
  /\ rpc = [d \in Readers |-> "ready"]
  /\ rid = [d \in Readers |-> None]
  /\ rbody = [d \in Readers |-> None]
  /\ panicked = FALSE

-----------------------------------------------------------------------------
(* close(ch): a channel is closed once; the second close panics.           *)
CloseChannel(r) ==
  /\ closed' = [closed EXCEPT ![r] = TRUE]
  /\ panicked' = (panicked \/ closed[r])

(* Fault: the channel is made without its one-place buffer.                *)
TrySendUnbuffered(r, b) ==
  /\ buf' = [buf EXCEPT ![r] = IF @ = None /\ pc[r] = "waiting" THEN b ELSE @]
  /\ panicked' = (panicked \/ closed[r])

(* select { case ch <- body: default: }: never blocks, drops the body when *)
(* the buffer is full, panics when the channel is closed.                  *)
TrySend(r, b) ==
  /\ buf' = [buf EXCEPT ![r] = IF @ = None /\ ~closed[r] THEN b ELSE @]
  /\ panicked' = (panicked \/ closed[r])

-----------------------------------------------------------------------------
(* The forward handler.                                                    *)

Register(r) ==
  /\ pc[r] = "start"
  /\ pending' = pending \cup {r}
  /\ pc' = [pc EXCEPT ![r] = "sending"]
  /\ UNCHANGED <<status, reply, timer, buf, closed, readerVars, panicked>>

(* Fault: the handler returns its 502 and leaves the id in the map.        *)
SendFailsNoCancel(r) ==
  /\ pc[r] = "sending"
  /\ pc' = [pc EXCEPT ![r] = "done"]
  /\ status' = [status EXCEPT ![r] = "502"]
  /\ UNCHANGED <<reply, timer, pending, buf, closed, readerVars, panicked>>

(* conn.Send returned an error.  The peer may have got the frame all the   *)
(* same, so an answer can still race the Cancel that follows.              *)
SendFails(r) ==
  /\ pc[r] = "sending"
  /\ pc' = [pc EXCEPT ![r] = "cancel502"]
  /\ UNCHANGED <<status, reply, timer, pending, buf, closed, readerVars,
                 panicked>>

(* Another goroutine is writing to the same socket: WriteMessage panics,   *)
(* net/http recovers the panic of its handler, and nobody cancels the id.  *)
SendPanics(r) ==
  /\ pc[r] = "sending"
  /\ pc' = [pc EXCEPT ![r] = "done"]
  /\ status' = [status EXCEPT ![r] = "aborted"]
  /\ UNCHANGED <<reply, timer, pending, buf, closed, readerVars, panicked>>

(* X-Relay-Async: 202 at once, and nobody will ever read the channel.      *)
ReturnAsync(r) ==
  /\ pc[r] = "sending"
  /\ pc' = [pc EXCEPT ![r] = "done"]
  /\ status' = [status EXCEPT ![r] = "202"]
  /\ UNCHANGED <<reply, timer, pending, buf, closed, readerVars, panicked>>

StartWait(r) ==
  /\ pc[r] = "sending"
  /\ pc' = [pc EXCEPT ![r] = "waiting"]
  /\ timer' = [timer EXCEPT ![r] = "running"]
  /\ UNCHANGED <<status, reply, pending, buf, closed, readerVars, panicked>>

TimerFires(r) ==
  /\ timer[r] = "running"
  /\ pc[r] = "waiting"
  /\ timer' = [timer EXCEPT ![r] = "fired"]
  /\ UNCHANGED <<pc, status, reply, pending, buf, closed, readerVars, panicked>>

(* Wait's select, receive case, with a value: 200.                         *)
WaitReceives(r) ==
  /\ pc[r] = "waiting"
  /\ buf[r] # None
  /\ reply' = [reply EXCEPT ![r] = buf[r]]
  /\ buf' = [buf EXCEPT ![r] = None]
  /\ pc' = [pc EXCEPT ![r] = "done"]
  /\ status' = [status EXCEPT ![r] = "200"]
  /\ UNCHANGED <<timer, pending, closed, readerVars, panicked>>

(* Fault: a timed-out forward does not cancel its id.                      *)
WaitFailsNoCancel(r) ==
  /\ pc[r] = "waiting"
  /\ timer[r] = "fired" \/ (closed[r] /\ buf[r] = None)
  /\ pc' = [pc EXCEPT ![r] = "done"]
  /\ status' = [status EXCEPT ![r] = "504"]
  /\ UNCHANGED <<reply, timer, pending, buf, closed, readerVars, panicked>>

(* Fault: Wait receives without a timer.                                   *)
WaitFailsNoTimer(r) ==
  /\ pc[r] = "waiting"
  /\ closed[r] /\ buf[r] = None
  /\ pc' = [pc EXCEPT ![r] = "cancel504"]
  /\ UNCHANGED <<status, reply, timer, pending, buf, closed, readerVars,
                 panicked>>

(* Wait returns ok = FALSE: its timer fired, or the channel is closed and  *)
(* empty.  When both cases of the select are ready Go picks either.        *)
WaitFails(r) ==
  /\ pc[r] = "waiting"
  /\ timer[r] = "fired" \/ (closed[r] /\ buf[r] = None)
  /\ pc' = [pc EXCEPT ![r] = "cancel504"]
  /\ UNCHANGED <<status, reply, timer, pending, buf, closed, readerVars,
                 panicked>>

(* Fault: the error paths write a status of their own.                     *)
FinishInternalError(r, from) ==
  /\ pc' = [pc EXCEPT ![r] = "done"]
  /\ status' = [status EXCEPT ![r] = "500"]

(* The handler writes its error status and returns.                        *)
Finish(r, from) ==
  /\ pc' = [pc EXCEPT ![r] = "done"]
  /\ status' = [status EXCEPT ![r] =
                  IF from \in {"cancel502", "close502"} THEN "502" ELSE "504"]

(* Cancel's critical section.                                              *)
CancelHit(r) ==
  /\ pc[r] \in Cancelling
  /\ r \in pending
  /\ pending' = pending \ {r}
  /\ pc' = [pc EXCEPT ![r] = IF @ = "cancel502" THEN "close502" ELSE "close504"]
  /\ UNCHANGED <<status, reply, timer, buf, closed, readerVars, panicked>>

(* Somebody else completed the id first: Cancel leaves the channel alone.  *)
CancelMiss(r) ==
  /\ pc[r] \in Cancelling
  /\ r \notin pending
  /\ Finish(r, pc[r])
  /\ UNCHANGED <<reply, timer, pending, buf, closed, readerVars, panicked>>

(* Cancel after the unlock.                                                *)
CancelClose(r) ==
  /\ pc[r] \in Closing
  /\ CloseChannel(r)
  /\ Finish(r, pc[r])
  /\ UNCHANGED <<reply, timer, pending, buf, readerVars>>

-----------------------------------------------------------------------------
(* The socket reader.  The peer answers whatever id it has seen, as often  *)
(* as it likes; Complete for an id that is not pending changes nothing.    *)

(* Fault: Complete looks the id up and leaves it in the map.               *)
CompleteClaimKeeps(d, r, b) ==
  /\ rpc[d] = "ready"
  /\ r \in pending
  /\ rpc' = [rpc EXCEPT ![d] = "send"]
  /\ rid' = [rid EXCEPT ![d] = r]
  /\ rbody' = [rbody EXCEPT ![d] = b]
  /\ UNCHANGED <<handlerVars, pending, buf, closed, panicked>>

CompleteClaim(d, r, b) ==
  /\ rpc[d] = "ready"
  /\ r \in pending
  /\ pending' = pending \ {r}
  /\ rpc' = [rpc EXCEPT ![d] = "send"]
  /\ rid' = [rid EXCEPT ![d] = r]
  /\ rbody' = [rbody EXCEPT ![d] = b]
  /\ UNCHANGED <<handlerVars, buf, closed, panicked>>

CompleteSend(d) ==
  /\ rpc[d] = "send"
  /\ TrySend(rid[d], rbody[d])
  /\ rpc' = [rpc EXCEPT ![d] = "close"]
  /\ UNCHANGED <<handlerVars, pending, closed, rid, rbody>>

CompleteClose(d) ==
  /\ rpc[d] = "close"
  /\ CloseChannel(rid[d])
  /\ rpc' = [rpc EXCEPT ![d] = "ready"]
  /\ rid' = [rid EXCEPT ![d] = None]
  /\ rbody' = [rbody EXCEPT ![d] = None]
  /\ UNCHANGED <<handlerVars, pending, buf>>

-----------------------------------------------------------------------------
BeforeWait(r) == \/ Register(r)
                 \/ SendFails(r)
                 \/ SendPanics(r)
                 \/ ReturnAsync(r)
                 \/ StartWait(r)

AfterSend(r) == \/ WaitReceives(r)
                \/ WaitFails(r)
                \/ CancelHit(r)
                \/ CancelMiss(r)
                \/ CancelClose(r)

Reader(d) == \/ \E r \in Reqs, b \in Bodies : CompleteClaim(d, r, b)
             \/ CompleteSend(d)
             \/ CompleteClose(d)

Next == \/ \E r \in Reqs : BeforeWait(r) \/ AfterSend(r) \/ TimerFires(r)
        \/ \E d \in Readers : Reader(d)

(* A handler that is past its Send keeps running and a started timer       *)
(* fires.  Nothing is assumed of the Send itself, which has no deadline    *)
(* and may block for good, of the peer, who may never answer, or of the    *)
(* readers, who may be preempted forever in the middle of Complete.        *)
Fairness == \A r \in Reqs : WF_vars(AfterSend(r)) /\ WF_vars(TimerFires(r))

Spec == Init /\ [][Next]_vars /\ Fairness

-----------------------------------------------------------------------------
(* Properties.                                                             *)

(* No interleaving of Complete, Cancel and Wait closes a channel twice or  *)
(* sends on a closed one: the map under the mutex hands each channel to a  *)
(* single closer (multiplexer.go Complete and Cancel after the unlock).    *)
NoPanic == ~panicked

(* The `default:` branch of Complete never drops an answer it has claimed: *)
(* a reader about to send always finds the one-place buffer empty.         *)
ReplyKept == \A d \in Readers : rpc[d] = "send" => buf[rid[d]] = None

(* A client sees 504 only after its own timer fired.  Wait also returns    *)
(* FALSE on a channel that is closed and empty; Complete fills the buffer  *)
(* before it closes, so a handler that still waits never meets that case.  *)
OnlyRealTimeouts ==
  \A r \in Reqs : status[r] = "504" \/ pc[r] \in {"cancel504", "close504"}
                    => timer[r] = "fired"

(* An id outlives its handler in `pending` only for X-Relay-Async, where   *)
(* nobody removes it but the answer, and after a panic in Send: every      *)
(* other way out of handleMCPForward has taken the id out of the map.      *)
OnlyAsyncLeaks ==
  \A r \in pending : pc[r] = "done" => status[r] \in {"202", "aborted"}

(* A forward whose Send has returned ends with a status, whatever the peer *)
(* and the readers do: Wait is bounded by its timer, and neither Cancel    *)
(* nor a channel operation of the handler blocks.                          *)
ForwardEnds ==
  \A r \in Reqs : pc[r] \notin {"start", "sending"} ~> pc[r] = "done"

-----------------------------------------------------------------------------
(* The multiplexer implements ReplyOnce.  A slot is settled in the         *)
(* critical section that removes the id: by the reader, whose answer then  *)
(* travels through rbody and buf to reply, or by the handler's Cancel.     *)

Held(r) == {d \in Readers : rpc[d] = "send" /\ rid[d] = r}

Accepted(r) == IF reply[r] # None THEN reply[r]
               ELSE IF buf[r] # None THEN buf[r]
               ELSE IF Held(r) # {} THEN rbody[CHOOSE d \in Held(r) : TRUE]
               ELSE None

SlotOf(r) == IF pc[r] = "start" THEN "unused"
             ELSE IF r \in pending THEN "open"
             ELSE IF Accepted(r) = None THEN "revoked"
             ELSE "answered"

OutcomeOf(r) == IF status[r] = None THEN "undecided"
                ELSE IF status[r] = "200" THEN "taken"
                ELSE IF status[r] \in {"202", "aborted"} THEN "detached"
                ELSE "gaveUp"

Promise == INSTANCE ReplyOnce
  WITH slot    <- [r \in Reqs |-> SlotOf(r)],
       answer  <- [r \in Reqs |-> Accepted(r)],
       outcome <- [r \in Reqs |-> OutcomeOf(r)],
       got     <- reply

(* Every forward gets the first answer accepted for its own id, or none:   *)
(* an answer is never delivered twice, never to another request, and never *)
(* after the request was cancelled (the multiplexer as a whole).           *)
ImplementsReplyOnce == Promise!Spec

-----------------------------------------------------------------------------
(* The inductive invariant behind NoPanic and the rest: a channel is in    *)
(* the map, in the hands of one reader, in the hands of its own canceller, *)
(* or closed for good, and never in two of these places.                   *)

HeldByReader(r) == \E d \in Readers : rpc[d] # "ready" /\ rid[d] = r

(* An id in the map: nobody has touched its channel yet.                   *)
PendingUntouched ==
  \A r \in pending : /\ ~closed[r]
                     /\ buf[r] = None
                     /\ reply[r] = None
                     /\ ~HeldByReader(r)
                     /\ pc[r] \notin {"start", "close502", "close504"}
                     /\ status[r] \in {None, "202", "aborted"}

(* A handler that has not registered has no channel.                       *)
UnregisteredUntouched ==
  \A r \in Reqs : pc[r] = "start" =>
    ~closed[r] /\ buf[r] = None /\ ~HeldByReader(r)

(* Between its unlock and its close, a reader is alone with the channel.   *)
ReaderAlone ==
  \A d \in Readers : rpc[d] # "ready" =>
    /\ rid[d] \in Reqs
    /\ rbody[d] \in Bodies
    /\ ~closed[rid[d]]
    /\ pc[rid[d]] \notin Closing
    /\ rpc[d] = "send" => buf[rid[d]] = None /\ reply[rid[d]] = None
    /\ \A e \in Readers : rpc[e] # "ready" /\ rid[e] = rid[d] => e = d

(* Between its unlock and its close, so is a canceller.                    *)
CancellerAlone ==
  \A r \in Reqs : pc[r] \in Closing =>
    ~closed[r] /\ buf[r] = None /\ ~HeldByReader(r)

(* What a handler that waits can find: an open channel, or the answer.     *)
WaitingFed ==
  \A r \in Reqs : pc[r] \in {"sending", "waiting"} =>
    /\ closed[r] => buf[r] # None
    /\ r \notin pending /\ buf[r] = None => Held(r) # {}

(* The handler's own variables follow its program counter.                 *)
HandlerCoherent ==
  \A r \in Reqs :
    /\ status[r] = None <=> pc[r] # "done"
    /\ reply[r] # None <=> status[r] = "200"
    /\ pc[r] \in {"cancel504", "close504"} \/ status[r] = "504"
         => timer[r] = "fired"

(* All of it: the reason why no channel operation of Complete or Cancel    *)
(* can panic, in every reachable state.                                    *)
IInv == /\ TypeOK
        /\ NoPanic
        /\ PendingUntouched
        /\ UnregisteredUntouched
        /\ ReaderAlone
        /\ CancellerAlone
        /\ WaitingFed
        /\ HandlerCoherent
==============================================================================
