------------------------------ MODULE McpRelay -------------------------------
(***************************************************************************)
(* The MCP side of the relay: the sessions of McpSessions, composed with   *)
(* the forwards that use them (handleMCPForward) and the answers that come *)
(* back (dispatchMCPInbound).  The multiplexer of a session is taken from  *)
(* RequestMux in the form of ReplyOnce: claim, take and give up are atomic *)
(* here.  What becomes of a callback does not touch the relay, so its      *)
(* delivery is left to McpSessions.                                        *)
(***************************************************************************)
EXTENDS McpSessions

VARIABLES
  fpc,       \* where forward f is in handleMCPForward
  fconn,     \* the session that forward f looked up
  fstatus,   \* the HTTP status of forward f
  pend,      \* ids in the pending map of their session's multiplexer
  answer,    \* the session over which f's accepted answer arrived
  seen       \* requests that have reached an instance

forwardVars == <<fpc, fconn, fstatus, pend, answer, seen>>
vars == <<sessionVars, forwardVars>>

Statuses == {"400", "503", "502", "202", "200", "504", "aborted"}

ASSUME StatusAssumption == None \notin Statuses

TypeOK ==
  /\ SessionTypeOK
  /\ fpc \in [Fwds -> {"idle", "found", "registered", "sending", "waiting", "done"}]
  /\ fconn \in [Fwds -> Conns \cup {None}]
  /\ fstatus \in [Fwds -> Statuses \cup {None}]
  /\ pend \in SUBSET Fwds
  /\ answer \in [Fwds -> Conns \cup {None}]
  /\ seen \in [Instances -> SUBSET Fwds]

Init ==
  /\ SessionInit
  /\ fpc = [f \in Fwds |-> "idle"]
  /\ fconn = [f \in Fwds |-> None]
  /\ fstatus = [f \in Fwds |-> None]
  /\ pend = {}
  /\ answer = [f \in Fwds |-> None]
  /\ seen = [i \in Instances |-> {}]

-----------------------------------------------------------------------------
(* What WriteMessage can return: an error only when the socket is closed   *)
(* or the peer has gone; nil as long as the kernel takes the bytes.  A     *)
(* request is one write of one frame: when it has arrived, nil.            *)
WriteCanFail(c)    == link[c] = "down" \/ stage[c] = "gone"
WriteCanSucceed(c) == stage[c] # "gone"

-----------------------------------------------------------------------------
(* handleMCPForward.                                                       *)

(* GetMCP: the handler keeps the session it found, whatever happens to the *)
(* map afterwards.                                                         *)
LookUp(f, i) ==
  /\ fpc[f] = "idle"
  /\ IF mcp[i] = None
       THEN /\ fpc' = [fpc EXCEPT ![f] = "done"]
            /\ fstatus' = [fstatus EXCEPT ![f] = "503"]
            /\ UNCHANGED fconn
       ELSE /\ fpc' = [fpc EXCEPT ![f] = "found"]
            /\ fconn' = [fconn EXCEPT ![f] = mcp[i]]
            /\ UNCHANGED fstatus
  /\ UNCHANGED <<sessionVars, pend, answer, seen>>

(* Fault: every error of a forward is an internal error.                   *)
ReturnInternalError(f, status) ==
  /\ fpc' = [fpc EXCEPT ![f] = "done"]
  /\ fstatus' = [fstatus EXCEPT ![f] = IF status \in {"400", "502"} THEN "500" ELSE status]

Return(f, status) ==
  /\ fpc' = [fpc EXCEPT ![f] = "done"]
  /\ fstatus' = [fstatus EXCEPT ![f] = status]

(* io.ReadAll(r.Body) fails.                                               *)
BodyFails(f) ==
  /\ fpc[f] = "found"
  /\ Return(f, "400")
  /\ UNCHANGED <<sessionVars, fconn, pend, answer, seen>>

RegisterId(f) ==
  /\ fpc[f] = "found"
  /\ fpc' = [fpc EXCEPT ![f] = "registered"]
  /\ pend' = pend \cup {f}
  /\ UNCHANGED <<sessionVars, fconn, fstatus, answer, seen>>

SendStarts(f) ==
  /\ fpc[f] = "registered"
  /\ fpc' = [fpc EXCEPT ![f] = "sending"]
  /\ BeginWrite(fconn[f], f)
  /\ link' = [link EXCEPT ![fconn[f]] = IF Alone(fconn[f]) THEN @ ELSE "down"]
  /\ UNCHANGED <<stage, age, mcp, monitorVars, callbackVars, fconn, fstatus, pend, answer,
                 seen>>

(* The panic of a concurrent write ends the handler (net/http recovers it) *)
(* and leaves the id in the pending map.                                   *)
SendPanics(f) ==
  /\ fpc[f] = "registered"
  /\ ~Alone(fconn[f])
  /\ Return(f, "aborted")
  /\ UNCHANGED <<sessionVars, fconn, pend, answer, seen>>

(* The request reaches the instance before WriteMessage returns.           *)
RequestArrives(f) ==
  /\ fpc[f] = "sending"
  /\ link[fconn[f]] # "down"
  /\ seen' = [seen EXCEPT ![InstanceOf[fconn[f]]] = @ \cup {f}]
  /\ UNCHANGED <<sessionVars, fpc, fconn, fstatus, pend, answer>>

(* Send returns nil: the request is on its way.  With X-Relay-Async the    *)
(* handler returns 202, otherwise it waits.                                *)
SendSucceeds(f) ==
  /\ fpc[f] = "sending"
  /\ WriteCanSucceed(fconn[f]) \/ f \in seen[InstanceOf[fconn[f]]]
  /\ EndWrite(fconn[f], f)
  /\ seen' = IF link[fconn[f]] = "down" THEN seen
             ELSE [seen EXCEPT ![InstanceOf[fconn[f]]] = @ \cup {f}]
  /\ \/ Return(f, "202")
     \/ /\ fpc' = [fpc EXCEPT ![f] = "waiting"]
        /\ UNCHANGED fstatus
  /\ UNCHANGED <<stage, link, age, mcp, monitorVars, callbackVars, fconn, pend, answer>>

SendFails(f) ==
  /\ fpc[f] = "sending"
  /\ WriteCanFail(fconn[f]) /\ f \notin seen[InstanceOf[fconn[f]]]
  /\ EndWrite(fconn[f], f)
  /\ Return(f, "502")
  /\ pend' = pend \ {f}
  /\ UNCHANGED <<stage, link, age, mcp, monitorVars, callbackVars, fconn, answer, seen>>

TakeAnswer(f) ==
  /\ fpc[f] = "waiting"
  /\ answer[f] # None
  /\ Return(f, "200")
  /\ UNCHANGED <<sessionVars, fconn, pend, answer, seen>>

WaitTimesOut(f) ==
  /\ fpc[f] = "waiting"
  /\ Return(f, "504")
  /\ pend' = pend \ {f}
  /\ UNCHANGED <<sessionVars, fconn, answer, seen>>

-----------------------------------------------------------------------------
(* Fault: all sessions share one multiplexer.                              *)
McpResponseAnySession(c, f) ==
  /\ Readable(c)
  /\ f \in seen[InstanceOf[c]]
  /\ age' = [age EXCEPT ![c] = 0]
  /\ IF f \in pend
       THEN pend' = pend \ {f} /\ answer' = [answer EXCEPT ![f] = c]
       ELSE UNCHANGED <<pend, answer>>
  /\ UNCHANGED <<stage, link, writing, mcp, monitorVars, callbackVars, fpc, fconn, fstatus,
                 seen>>

(* mcp_response for a request the instance has seen, possibly through an   *)
(* earlier session.  Complete looks only into this session's multiplexer.  *)
McpResponse(c, f) ==
  /\ Readable(c)
  /\ f \in seen[InstanceOf[c]]
  /\ age' = [age EXCEPT ![c] = 0]
  /\ IF f \in pend /\ fconn[f] = c
       THEN pend' = pend \ {f} /\ answer' = [answer EXCEPT ![f] = c]
       ELSE UNCHANGED <<pend, answer>>
  /\ UNCHANGED <<stage, link, writing, mcp, monitorVars, callbackVars, fpc, fconn, fstatus,
                 seen>>

-----------------------------------------------------------------------------
Forward(f) == \/ \E i \in Instances : LookUp(f, i)
              \/ BodyFails(f)
              \/ RegisterId(f)
              \/ SendStarts(f)
              \/ SendPanics(f)
              \/ RequestArrives(f)
              \/ SendSucceeds(f)
              \/ SendFails(f)
              \/ TakeAnswer(f)
              \/ WaitTimesOut(f)

Next == /\ ~crashed
        /\ \/ Relay /\ UNCHANGED forwardVars
           \/ \E f \in Fwds : Forward(f)
           \/ \E c \in Conns, f \in Fwds : McpResponse(c, f)

(* A waiting handler takes an answer that is there or times out.           *)
Answers(f) == TakeAnswer(f) \/ WaitTimesOut(f)

Spec == /\ Init
        /\ [][Next]_vars
        /\ \A f \in Fwds : WF_vars(~crashed /\ Answers(f))

-----------------------------------------------------------------------------
(* Properties.                                                             *)

(* A client gets the answer that arrived over the very session its request *)
(* was sent on, of an instance that has got the request: two sessions of   *)
(* one instance do not mix up their multiplexers, whatever the map says by *)
(* the time of the answer.                                                 *)
AnswerOnSameSession ==
  \A f \in Fwds : fstatus[f] = "200" =>
    answer[f] = fconn[f] /\ f \in seen[InstanceOf[fconn[f]]]

(* A finished forward leaves its id in the map only when it was            *)
(* asynchronous or its Send panicked, also when its session has ended.     *)
PendingDrained ==
  \A f \in pend : fpc[f] = "done" => fstatus[f] \in {"202", "aborted"}

(* When a session ends its unanswered forwards are not told.  They time    *)
(* out, even when the instance comes back and answers over a new session.  *)
OrphanedForwardsTimeOut ==
  \A f \in Fwds :
    (fpc[f] = "waiting" /\ answer[f] = None /\ stage[fconn[f]] = "gone")
      ~> (fstatus[f] = "504" \/ crashed)

(* The slot of a forward is settled when its id leaves the map: by the     *)
(* answer, or by the handler that gives up.                                *)
SlotOf(f) == IF f \in pend THEN "open"
             ELSE IF answer[f] # None THEN "answered"
             ELSE IF fstatus[f] \in {"502", "504"} THEN "revoked"
             ELSE "unused"

OutcomeOf(f) == IF fstatus[f] \in {None, "400", "503"} THEN "undecided"
                ELSE IF fstatus[f] = "200" THEN "taken"
                ELSE IF fstatus[f] \in {"202", "aborted"} THEN "detached"
                ELSE "gaveUp"

Promise == INSTANCE ReplyOnce
  WITH Reqs    <- Fwds,
       Bodies  <- Conns,
       slot    <- [f \in Fwds |-> SlotOf(f)],
       outcome <- [f \in Fwds |-> OutcomeOf(f)],
       got     <- [f \in Fwds |-> IF fstatus[f] = "200" THEN answer[f] ELSE None]

(* The forwards and the answers of all sessions together keep what one     *)
(* multiplexer promises: a forward takes the one answer that its own       *)
(* session's multiplexer accepted for it, and none that comes after it has *)
(* given up, whatever sessions replace, evict or end one another meanwhile.*)
ForwardsImplementReplyOnce == Promise!Spec

(* "StartHeartbeatMonitor pings live connections and evicts stale          *)
(* sessions" (heartbeat.go:14): a ping does not end the relay.             *)
RelaySurvives == ~crashed
=============================================================================
