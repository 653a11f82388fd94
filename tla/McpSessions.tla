---------------------------- MODULE McpSessions -----------------------------
(***************************************************************************)
(* Connector sessions of the relay: handleMCPConnect, Hub.mcp, the         *)
(* heartbeat monitor and the callbacks that tell Control about instances.  *)
(*                                                                         *)
(* Hub.mcp is keyed by instance_id, a Conn is one WebSocket session: an    *)
(* instance that reconnects has two sessions until the relay notices that  *)
(* the old socket is dead.  Nothing serialises the writes to one socket    *)
(* and no write has a deadline, so a Send is two steps and may never end.  *)
(***************************************************************************)
EXTENDS Naturals, FiniteSets

CONSTANTS
  Conns,              \* WebSocket sessions, each used once
  Instances,          \* instance ids
  InstanceOf,         \* the instance_id that a session connects with
  Fwds,               \* forward handlers, which write to the sockets too
  StaleTicks,         \* defaultStaleThreshold / defaultHeartbeatInterval
  ControlCallback,    \* ServerConfig.ControlCallback is configured
  CallbacksMayFail,   \* a callback's HTTP request may be lost
  None

ASSUME InstanceOfAssumption == InstanceOf \in [Conns -> Instances]
ASSUME SwitchAssumption == ControlCallback \in BOOLEAN /\ CallbacksMayFail \in BOOLEAN
ASSUME NoneAssumption == None \notin Conns
ASSUME StaleTicksAssumption == StaleTicks \in Nat

VARIABLES
  stage,     \* where session c's handler is in handleMCPConnect
  link,      \* the peer of session c: "up", "silent" or "down"
  age,       \* ticks since conn.LastSeen, capped at StaleTicks + 1
  writing,   \* goroutines inside ws.WriteMessage of session c
  mcp,       \* Hub.mcp
  hb,        \* where the heartbeat goroutine is
  tickDue,   \* ticker.C holds a tick
  pingList,  \* sessions that pingAll has still to ping
  crashed,   \* a panic outside the HTTP handlers ended the process
  callback,  \* callback[c][e]: "unsent", "inflight", "late" or "settled"
  control    \* what Control was told last of an instance

handlerVars  == <<stage, link, age, writing>>
monitorVars  == <<hb, tickDue, pingList, crashed>>
callbackVars == <<callback, control>>
sessionVars  == <<handlerVars, mcp, monitorVars, callbackVars>>

Events == {"connected", "disconnect", "heartbeat_timeout"}
Stages == {"new", "registered", "greet", "greeting", "reading", "leaving", "gone"}

SessionTypeOK ==
  /\ stage \in [Conns -> Stages]
  /\ link \in [Conns -> {"up", "silent", "down"}]
  /\ age \in [Conns -> 0..(StaleTicks + 1)]
  /\ writing \in [Conns -> SUBSET (Fwds \cup {"greeting", "ping"})]
  /\ mcp \in [Instances -> Conns \cup {None}]
  /\ hb \in {"idle", "swept", "ping", "pinging"}
  /\ tickDue \in BOOLEAN
  /\ pingList \in SUBSET Conns
  /\ crashed \in BOOLEAN
  /\ callback \in [Conns -> [Events -> {"unsent", "inflight", "late", "settled"}]]
  /\ control \in [Instances -> {"unknown", "online", "offline"}]

SessionInit ==
  /\ stage = [c \in Conns |-> "new"]
  /\ link = [c \in Conns |-> "up"]
  /\ age = [c \in Conns |-> 0]
  /\ writing = [c \in Conns |-> {}]
  /\ mcp = [i \in Instances |-> None]
  /\ hb = "idle"
  /\ tickDue = FALSE
  /\ pingList = {}
  /\ crashed = FALSE
  /\ callback = [c \in Conns |-> [e \in Events |-> "unsent"]]
  /\ control = [i \in Instances |-> "unknown"]

-----------------------------------------------------------------------------
(* ws.WriteMessage: gorilla/websocket allows one writer at a time.  A      *)
(* second one panics, or slips past the unsynchronised check and garbles   *)
(* the stream, which the peer answers by closing it.                       *)

Alone(c) == writing[c] = {}

BeginWrite(c, w) == writing' = [writing EXCEPT ![c] = @ \cup {w}]
EndWrite(c, w)   == writing' = [writing EXCEPT ![c] = @ \ {w}]

(* A goroutine started by `go cb.Notify...`, if a callback is configured   *)
(* (and, for "connected", a PublicBaseURL, as it is taken to be here).     *)
Post(c, e) ==
  callback' = IF ControlCallback THEN [callback EXCEPT ![c][e] = "inflight"]
              ELSE callback

-----------------------------------------------------------------------------
(* handleMCPConnect.                                                       *)

(* Upgrade, then Hub.RegisterMCP, which replaces the entry of any earlier  *)
(* session of the instance without a word to it.                           *)
RegisterMCP(c) ==
  /\ stage[c] = "new"
  /\ stage' = [stage EXCEPT ![c] = "registered"]
  /\ age' = [age EXCEPT ![c] = 0]
  /\ mcp' = [mcp EXCEPT ![InstanceOf[c]] = c]
  /\ UNCHANGED <<link, writing, monitorVars, callbackVars>>

NotifyConnected(c) ==
  /\ stage[c] = "registered"
  /\ stage' = [stage EXCEPT ![c] = "greet"]
  /\ Post(c, "connected")
  /\ UNCHANGED <<link, age, writing, mcp, monitorVars, control>>

(* conn.Send(mcp_connected).                                               *)
GreetingStarts(c) ==
  /\ stage[c] = "greet"
  /\ stage' = [stage EXCEPT ![c] = "greeting"]
  /\ BeginWrite(c, "greeting")
  /\ link' = [link EXCEPT ![c] = IF Alone(c) THEN @ ELSE "down"]
  /\ UNCHANGED <<age, mcp, monitorVars, callbackVars>>

(* Its error is ignored.                                                   *)
GreetingEnds(c) ==
  /\ stage[c] = "greeting"
  /\ stage' = [stage EXCEPT ![c] = "reading"]
  /\ EndWrite(c, "greeting")
  /\ UNCHANGED <<link, age, mcp, monitorVars, callbackVars>>

(* Fault: the deferred function forgets UnregisterMCP.                     *)
UnregisterMCPForgotten(c) ==
  /\ \/ stage[c] = "reading" /\ link[c] = "down"
     \/ stage[c] = "greet" /\ ~Alone(c)
  /\ stage' = [stage EXCEPT ![c] = "leaving"]
  /\ UNCHANGED <<link, age, writing, mcp, monitorVars, callbackVars>>

(* The read loop ends with an error, or the greeting panics; the deferred  *)
(* function begins: Hub.UnregisterMCP(instanceID) deletes the entry of the *)
(* instance, whichever session it belongs to.                              *)
UnregisterMCP(c) ==
  /\ \/ stage[c] = "reading" /\ link[c] = "down"
     \/ stage[c] = "greet" /\ ~Alone(c)
  /\ stage' = [stage EXCEPT ![c] = "leaving"]
  /\ mcp' = [mcp EXCEPT ![InstanceOf[c]] = None]
  /\ UNCHANGED <<link, age, writing, monitorVars, callbackVars>>

(* The rest of the deferred function: the callback, and ws.Close.          *)
NotifyDisconnected(c) ==
  /\ stage[c] = "leaving"
  /\ stage' = [stage EXCEPT ![c] = "gone"]
  /\ Post(c, "disconnect")
  /\ UNCHANGED <<link, age, writing, mcp, monitorVars, control>>

-----------------------------------------------------------------------------
(* Frames from the peer: Hub.Touch, then dispatchMCPInbound.               *)

Readable(c) == stage[c] = "reading" /\ link[c] = "up"

(* Fault: Touch puts the session back into the map.                        *)
TouchReregisters(c) ==
  /\ Readable(c)
  /\ age' = [age EXCEPT ![c] = 0]
  /\ mcp' = [mcp EXCEPT ![InstanceOf[c]] = c]
  /\ UNCHANGED <<stage, link, writing, monitorVars, callbackVars>>

(* pong, heartbeat, unknown and malformed frames: only the Touch.          *)
Touch(c) ==
  /\ Readable(c)
  /\ age' = [age EXCEPT ![c] = 0]
  /\ UNCHANGED <<stage, link, writing, mcp, monitorVars, callbackVars>>

(* The peer or the network.  A silent peer keeps its socket open and sends *)
(* nothing: a hung process, a sleeping laptop, a dropped route.            *)
PeerCloses(c) ==
  /\ stage[c] \notin {"new", "leaving", "gone"}
  /\ link[c] # "down"
  /\ link' = [link EXCEPT ![c] = "down"]
  /\ UNCHANGED <<stage, age, writing, mcp, monitorVars, callbackVars>>

PeerGoesSilent(c) ==
  /\ stage[c] \notin {"new", "leaving", "gone"}
  /\ link[c] = "up"
  /\ link' = [link EXCEPT ![c] = "silent"]
  /\ UNCHANGED <<stage, age, writing, mcp, monitorVars, callbackVars>>

PeerWakes(c) ==
  /\ link[c] = "silent"
  /\ link' = [link EXCEPT ![c] = "up"]
  /\ UNCHANGED <<stage, age, writing, mcp, monitorVars, callbackVars>>

-----------------------------------------------------------------------------
(* The heartbeat goroutine.                                                *)

(* The handler is neither in a Send nor in ReadMessage.                    *)
MidHandler(c) == stage[c] \in {"registered", "greet", "leaving"}

InFlight(c, e) == callback[c][e] \in {"inflight", "late"}

(* defaultHeartbeatInterval goes by.  The ticker's channel holds one tick  *)
(* and drops the others when the goroutine is late.  The HTTP client gives *)
(* a callback 15 seconds: it can outlive one tick but not two.  A handler   *)
(* that is between two statements does not stay there for 30 seconds.      *)
Tick ==
  /\ \A c \in Conns : ~MidHandler(c)
  /\ \A c \in Conns, e \in Events : callback[c][e] # "late"
  /\ tickDue' = TRUE
  /\ age' = [c \in Conns |-> IF stage[c] = "new" \/ age[c] > StaleTicks
                               THEN age[c] ELSE age[c] + 1]
  /\ callback' = [c \in Conns |-> [e \in Events |->
                    IF callback[c][e] = "inflight" THEN "late" ELSE callback[c][e]]]
  /\ UNCHANGED <<stage, link, writing, mcp, hb, pingList, crashed, control>>

Stale == {c \in Conns : mcp[InstanceOf[c]] = c /\ age[c] > StaleTicks}

(* Fault: the sweep reports what it does not delete.                       *)
SweepStaleKeeps ==
  /\ hb = "idle" /\ tickDue
  /\ tickDue' = FALSE
  /\ hb' = "swept"
  /\ callback' = [c \in Conns |->
                    IF ControlCallback /\ c \in Stale
                      THEN [callback[c] EXCEPT !["heartbeat_timeout"] = "inflight"]
                      ELSE callback[c]]
  /\ UNCHANGED <<handlerVars, mcp, pingList, crashed, control>>

(* Fault: the monitor is started without onMCPOffline.                     *)
SweepStaleSilently ==
  /\ hb = "idle" /\ tickDue
  /\ tickDue' = FALSE
  /\ hb' = "swept"
  /\ mcp' = [i \in Instances |-> IF mcp[i] \in Stale THEN None ELSE mcp[i]]
  /\ UNCHANGED <<handlerVars, pingList, crashed, callbackVars>>

(* sweepStale and its onMCPOffline calls.  The socket stays open and the   *)
(* session's handler is not told.                                          *)
SweepStale ==
  /\ hb = "idle" /\ tickDue
  /\ tickDue' = FALSE
  /\ hb' = "swept"
  /\ mcp' = [i \in Instances |-> IF mcp[i] \in Stale THEN None ELSE mcp[i]]
  /\ callback' = [c \in Conns |->
                    IF ControlCallback /\ c \in Stale
                      THEN [callback[c] EXCEPT !["heartbeat_timeout"] = "inflight"]
                      ELSE callback[c]]
  /\ UNCHANGED <<handlerVars, pingList, crashed, control>>

(* pingAll copies the sessions of the map, and pings them one by one.      *)
PingAll ==
  /\ hb = "swept"
  /\ hb' = "ping"
  /\ pingList' = {mcp[i] : i \in Instances} \ {None}
  /\ UNCHANGED <<handlerVars, mcp, tickDue, crashed, callbackVars>>

PingStarts(c) ==
  /\ hb = "ping" /\ c \in pingList
  /\ hb' = "pinging"
  /\ pingList' = pingList \ {c}
  /\ BeginWrite(c, "ping")
  /\ link' = [link EXCEPT ![c] = IF Alone(c) THEN @ ELSE "down"]
  /\ UNCHANGED <<stage, age, mcp, tickDue, crashed, callbackVars>>

(* Nobody recovers a panic of this goroutine: the relay process ends.      *)
PingPanics(c) ==
  /\ hb = "ping" /\ c \in pingList /\ ~Alone(c)
  /\ crashed' = TRUE
  /\ UNCHANGED <<handlerVars, mcp, hb, tickDue, pingList, callbackVars>>

(* Fault: a ping that could be sent counts as a sign of life.              *)
PingEndsTouches(c) ==
  /\ hb = "pinging" /\ "ping" \in writing[c]
  /\ hb' = "ping"
  /\ EndWrite(c, "ping")
  /\ age' = [age EXCEPT ![c] = 0]
  /\ UNCHANGED <<stage, link, mcp, tickDue, pingList, crashed, callbackVars>>

(* Nil or an error, the goroutine goes on with the next session.           *)
PingEnds(c) ==
  /\ hb = "pinging" /\ "ping" \in writing[c]
  /\ hb' = "ping"
  /\ EndWrite(c, "ping")
  /\ UNCHANGED <<stage, link, age, mcp, tickDue, pingList, crashed, callbackVars>>

PingAllEnds ==
  /\ hb = "ping" /\ pingList = {}
  /\ hb' = "idle"
  /\ UNCHANGED <<handlerVars, mcp, tickDue, pingList, crashed, callbackVars>>

-----------------------------------------------------------------------------
(* Callbacks are independent goroutines: they reach Control in any order,  *)
(* and an error of the request is dropped.                                 *)

Deliver(c, e) ==
  /\ InFlight(c, e)
  /\ callback' = [callback EXCEPT ![c][e] = "settled"]
  /\ control' = [control EXCEPT ![InstanceOf[c]] =
                   IF e = "connected" THEN "online" ELSE "offline"]
  /\ UNCHANGED <<handlerVars, mcp, monitorVars>>

Lose(c, e) ==
  /\ CallbacksMayFail
  /\ InFlight(c, e)
  /\ callback' = [callback EXCEPT ![c][e] = "settled"]
  /\ UNCHANGED <<handlerVars, mcp, monitorVars, control>>

-----------------------------------------------------------------------------
Handler(c) == \/ RegisterMCP(c)
              \/ NotifyConnected(c)
              \/ GreetingStarts(c)
              \/ GreetingEnds(c)
              \/ UnregisterMCP(c)
              \/ NotifyDisconnected(c)

Peer(c) == PeerCloses(c) \/ PeerGoesSilent(c) \/ PeerWakes(c)

Monitor == \/ SweepStale
           \/ PingAll
           \/ \E c \in Conns : PingStarts(c) \/ PingPanics(c) \/ PingEnds(c)
           \/ PingAllEnds

Relay == \/ \E c \in Conns : Handler(c) \/ Touch(c) \/ Peer(c)
         \/ Tick
         \/ Monitor

Callbacks == \E c \in Conns, e \in Events : Deliver(c, e) \/ Lose(c, e)

SessionNext == ~crashed /\ (Relay \/ Callbacks)

(* Time passes, the scheduler runs the heartbeat goroutine and the         *)
(* handlers, and a callback arrives or fails within the timeout of its     *)
(* HTTP client.  Whether a Send returns is not assumed of anybody.         *)
Fairness == /\ WF_sessionVars(~crashed /\ Tick)
            /\ WF_sessionVars(~crashed /\ SweepStale)
            /\ \A c \in Conns : WF_sessionVars(~crashed /\ MidHandler(c) /\ Handler(c))
            /\ WF_sessionVars(~crashed /\ Callbacks)

SessionSpec == SessionInit /\ [][SessionNext]_sessionVars /\ Fairness

-----------------------------------------------------------------------------
(* Properties.                                                             *)

SessionsOf(i) == {c \in Conns : InstanceOf[c] = i}

(* Hub.mcp never points at a session whose handler has unregistered: a     *)
(* forward may find an instance offline, never a session that nobody reads *)
(* any more.  RegisterMCP, UnregisterMCP and sweepStale of two sessions of *)
(* one instance run in any order.                                          *)
NoGhostSession ==
  \A i \in Instances : mcp[i] # None =>
    /\ InstanceOf[mcp[i]] = i
    /\ stage[mcp[i]] \in {"registered", "greet", "greeting", "reading"}

(* An instance with no entry, once connected and with no handler on its    *)
(* way out, has been reported: sweepStale calls onMCPOffline for what it   *)
(* evicts, and every handler reports its own end.                          *)
NobodyVanishesUnreported ==
  ControlCallback => \A i \in Instances :
    (/\ mcp[i] = None
     /\ \E c \in SessionsOf(i) : stage[c] # "new"
     /\ \A c \in SessionsOf(i) : stage[c] # "leaving")
    => \E c \in SessionsOf(i), e \in Events \ {"connected"} :
         callback[c][e] # "unsent"

(* What ends for a session has ended for good.  A session that has lost    *)
(* its entry (to a newer session, to the sweep, or to the UnregisterMCP of *)
(* an older one) never gets it back, however many frames it sends: Touch   *)
(* does not register, only a new connection does.  And news that Control   *)
(* has got or missed, of its connect, its end or its eviction, is not sent *)
(* again, although both the sweep and the handler report offline.          *)
EndsAreFinal ==
  [][\A c \in Conns :
       /\ stage[c] # "new" /\ mcp[InstanceOf[c]] # c => mcp'[InstanceOf[c]] # c
       /\ \A e \in Events : callback[c][e] = "settled" => callback'[c][e] = "settled"
    ]_sessionVars

(* As long as pingAll keeps returning, an instance that stays silent loses *)
(* its entry; the premise is needed because a ping may block for good.     *)
SilentEvicted ==
  []<>(hb = "idle") =>
    \A c \in Conns :
      (mcp[InstanceOf[c]] = c /\ link[c] = "silent")
        ~> (mcp[InstanceOf[c]] # c \/ link[c] # "silent")

(* "Hub tracks live relay connections keyed by instance_id" (hub.go:27): a *)
(* connected session that speaks, the only one its instance has left and   *)
(* never evicted for silence, can be found in the map.                     *)
LiveSessionReachable ==
  \A c \in Conns :
    (/\ stage[c] = "reading" /\ link[c] = "up"
     /\ callback[c]["heartbeat_timeout"] = "unsent"
     /\ \A d \in SessionsOf(InstanceOf[c]) \ {c} : stage[d] \in {"new", "gone"})
    => mcp[InstanceOf[c]] = c

(* "ControlCallback notifies Control when MCP relay instances connect or   *)
(* disconnect" (control_callback.go:14): when every callback has arrived   *)
(* and no handler is about to send one, Control agrees with the relay.     *)
ControlAgrees ==
  \A i \in Instances :
    (\A c \in SessionsOf(i) :
       /\ stage[c] \in {"new", "greet", "greeting", "reading", "gone"}
       /\ \A e \in Events : ~InFlight(c, e))
    => (control[i] = "online" <=> mcp[i] # None)
=============================================================================
