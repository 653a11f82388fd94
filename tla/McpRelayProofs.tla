--------------------------- MODULE McpRelayProofs ---------------------------
(***************************************************************************)
(* Invariants of the connector sessions, and of the relay composed of the  *)
(* sessions and the forwards, for any number of sessions, instances and    *)
(* forwards.  First the sessions: each lemma goes through the actions one  *)
(* by one; they are stated for a step of the relay or of a callback, so    *)
(* that they also serve for the session part of McpRelay's steps.          *)
(***************************************************************************)
EXTENDS McpRelay, TLAPS

USE InstanceOfAssumption, NoneAssumption, StaleTicksAssumption, SwitchAssumption
USE DEF Stages, Events, handlerVars, monitorVars, callbackVars, SessionsOf

SessionInv == SessionTypeOK /\ NoGhostSession /\ NobodyVanishesUnreported

SessionStep == Relay \/ Callbacks

(* No session has connected and nothing was reported.                      *)
LEMMA InitSessionInv == SessionInit => SessionInv
<1> SUFFICES ASSUME SessionInit PROVE SessionInv
  OBVIOUS
<1>1. SessionTypeOK
  <2>1. 0 \in 0..(StaleTicks + 1)
    OBVIOUS
  <2>2. callback \in [Conns -> [Events -> {"unsent", "inflight", "late", "settled"}]]
    BY DEF SessionInit
  <2>3. age \in [Conns -> 0..(StaleTicks + 1)]
    BY <2>1 DEF SessionInit
  <2> QED BY <2>2, <2>3 DEF SessionInit, SessionTypeOK
<1>2. NoGhostSession
  BY DEF SessionInit, NoGhostSession
<1>3. NobodyVanishesUnreported
  BY DEF SessionInit, NobodyVanishesUnreported
<1> QED BY <1>1, <1>2, <1>3 DEF SessionInv

(* Types: the age stays capped, the map holds sessions or None.            *)
LEMMA SessionTypeStep ==
  ASSUME SessionTypeOK, SessionStep
  PROVE  SessionTypeOK'
<1> USE DEF SessionTypeOK
<1>1. ASSUME NEW c \in Conns, Handler(c) PROVE SessionTypeOK'
  <2>1. CASE RegisterMCP(c)
    BY <2>1 DEF RegisterMCP
  <2>2. CASE NotifyConnected(c)
    BY <2>2 DEF NotifyConnected, Post
  <2>3. CASE GreetingStarts(c)
    BY <2>3 DEF GreetingStarts, BeginWrite
  <2>4. CASE GreetingEnds(c)
    BY <2>4 DEF GreetingEnds, EndWrite
  <2>5. CASE UnregisterMCP(c)
    BY <2>5 DEF UnregisterMCP
  <2>6. CASE NotifyDisconnected(c)
    BY <2>6 DEF NotifyDisconnected, Post
  <2> QED BY <1>1, <2>1, <2>2, <2>3, <2>4, <2>5, <2>6 DEF Handler
<1>2. ASSUME NEW c \in Conns, Touch(c) \/ Peer(c) PROVE SessionTypeOK'
  <2>1. CASE Touch(c)
    BY <2>1 DEF Touch
  <2>2. CASE PeerCloses(c)
    BY <2>2 DEF PeerCloses
  <2>3. CASE PeerGoesSilent(c)
    BY <2>3 DEF PeerGoesSilent
  <2>4. CASE PeerWakes(c)
    BY <2>4 DEF PeerWakes
  <2> QED BY <1>2, <2>1, <2>2, <2>3, <2>4 DEF Peer
<1>3. CASE Tick
  BY <1>3 DEF Tick
<1>4. CASE Monitor
  <2>1. CASE SweepStale
    BY <2>1 DEF SweepStale, Stale
  <2>2. CASE PingAll
    BY <2>2 DEF PingAll
  <2>3. ASSUME NEW c \in Conns, PingStarts(c) \/ PingPanics(c) \/ PingEnds(c)
        PROVE  SessionTypeOK'
    <3>1. CASE PingStarts(c)
      BY <3>1 DEF PingStarts, BeginWrite
    <3>2. CASE PingPanics(c)
      BY <3>2 DEF PingPanics
    <3>3. CASE PingEnds(c)
      BY <3>3 DEF PingEnds, EndWrite
    <3> QED BY <2>3, <3>1, <3>2, <3>3
  <2>4. CASE PingAllEnds
    BY <2>4 DEF PingAllEnds
  <2> QED BY <1>4, <2>1, <2>2, <2>3, <2>4 DEF Monitor
<1>5. CASE Callbacks
  <2>1. PICK c \in Conns, e \in Events : Deliver(c, e) \/ Lose(c, e)
    BY <1>5 DEF Callbacks
  <2>2. CASE Deliver(c, e)
    BY <2>2 DEF Deliver
  <2>3. CASE Lose(c, e)
    BY <2>3 DEF Lose
  <2> QED BY <2>1, <2>2, <2>3
<1> HIDE DEF SessionTypeOK
<1> QED BY <1>1, <1>2, <1>3, <1>4, <1>5 DEF SessionStep, Relay

(* Only RegisterMCP puts a session into the map, and the only step that    *)
(* makes a session leave clears the entry of its instance.                 *)
LEMMA NoGhostStep ==
  ASSUME SessionTypeOK, NoGhostSession, SessionStep
  PROVE  NoGhostSession'
<1> USE DEF SessionTypeOK, NoGhostSession
<1>1. ASSUME NEW c \in Conns, Handler(c) PROVE NoGhostSession'
  <2>1. CASE RegisterMCP(c)
    BY <2>1 DEF RegisterMCP
  <2>2. CASE NotifyConnected(c)
    BY <2>2 DEF NotifyConnected, Post
  <2>3. CASE GreetingStarts(c)
    BY <2>3 DEF GreetingStarts, BeginWrite
  <2>4. CASE GreetingEnds(c)
    BY <2>4 DEF GreetingEnds, EndWrite
  <2>5. CASE UnregisterMCP(c)
    BY <2>5 DEF UnregisterMCP
  <2>6. CASE NotifyDisconnected(c)
    BY <2>6 DEF NotifyDisconnected, Post
  <2> QED BY <1>1, <2>1, <2>2, <2>3, <2>4, <2>5, <2>6 DEF Handler
<1>2. ASSUME NEW c \in Conns, Touch(c) \/ Peer(c) PROVE NoGhostSession'
  <2>1. CASE Touch(c)
    BY <2>1 DEF Touch
  <2>2. CASE PeerCloses(c)
    BY <2>2 DEF PeerCloses
  <2>3. CASE PeerGoesSilent(c)
    BY <2>3 DEF PeerGoesSilent
  <2>4. CASE PeerWakes(c)
    BY <2>4 DEF PeerWakes
  <2> QED BY <1>2, <2>1, <2>2, <2>3, <2>4 DEF Peer
<1>3. CASE Tick
  BY <1>3 DEF Tick
<1>4. CASE Monitor
  <2>1. CASE SweepStale
    BY <2>1 DEF SweepStale, Stale
  <2>2. CASE PingAll
    BY <2>2 DEF PingAll
  <2>3. ASSUME NEW c \in Conns, PingStarts(c) \/ PingPanics(c) \/ PingEnds(c)
        PROVE  NoGhostSession'
    <3>1. CASE PingStarts(c)
      BY <3>1 DEF PingStarts, BeginWrite
    <3>2. CASE PingPanics(c)
      BY <3>2 DEF PingPanics
    <3>3. CASE PingEnds(c)
      BY <3>3 DEF PingEnds, EndWrite
    <3> QED BY <2>3, <3>1, <3>2, <3>3
  <2>4. CASE PingAllEnds
    BY <2>4 DEF PingAllEnds
  <2> QED BY <1>4, <2>1, <2>2, <2>3, <2>4 DEF Monitor
<1>5. CASE Callbacks
  <2>1. PICK c \in Conns, e \in Events : Deliver(c, e) \/ Lose(c, e)
    BY <1>5 DEF Callbacks
  <2>2. CASE Deliver(c, e)
    BY <2>2 DEF Deliver
  <2>3. CASE Lose(c, e)
    BY <2>3 DEF Lose
  <2> QED BY <2>1, <2>2, <2>3
<1> HIDE DEF SessionTypeOK, NoGhostSession
<1> QED BY <1>1, <1>2, <1>3, <1>4, <1>5 DEF SessionStep, Relay

(* An entry is cleared by the sweep, which posts the callback at once, or  *)
(* by a handler, which stays "leaving" until it has posted its own.        *)
LEMMA NobodyVanishesStep ==
  ASSUME SessionTypeOK, NoGhostSession, NobodyVanishesUnreported, SessionStep
  PROVE  NobodyVanishesUnreported'
<1> USE DEF SessionTypeOK, NobodyVanishesUnreported
<1>0. ASSUME UNCHANGED <<stage, mcp, callback>> PROVE NobodyVanishesUnreported'
  BY <1>0
<1>1. ASSUME NEW c \in Conns, Handler(c) PROVE NobodyVanishesUnreported'
  <2>1. CASE RegisterMCP(c)
    BY <2>1 DEF RegisterMCP
  <2>2. CASE NotifyConnected(c)
    <3>1. \A d \in Conns, e \in Events : callback[d][e] # "unsent" => callback'[d][e] # "unsent"
      BY <2>2 DEF NotifyConnected, Post
    <3>2. \A d \in Conns : /\ stage'[d] # "new" <=> stage[d] # "new"
                         /\ stage'[d] = "leaving" <=> stage[d] = "leaving"
      BY <2>2 DEF NotifyConnected
    <3> QED BY <2>2, <3>1, <3>2 DEF NotifyConnected
  <2>3. CASE GreetingStarts(c)
    BY <2>3 DEF GreetingStarts, BeginWrite
  <2>4. CASE GreetingEnds(c)
    BY <2>4 DEF GreetingEnds, EndWrite
  <2>5. CASE UnregisterMCP(c)
    BY <2>5 DEF UnregisterMCP
  <2>6. CASE NotifyDisconnected(c)
    BY <2>6 DEF NotifyDisconnected, Post
  <2> QED BY <1>1, <2>1, <2>2, <2>3, <2>4, <2>5, <2>6 DEF Handler
<1>2. ASSUME NEW c \in Conns, Touch(c) \/ Peer(c) PROVE NobodyVanishesUnreported'
  <2>1. CASE Touch(c)
    BY <1>0, <2>1 DEF Touch
  <2>2. CASE PeerCloses(c)
    BY <1>0, <2>2 DEF PeerCloses
  <2>3. CASE PeerGoesSilent(c)
    BY <1>0, <2>3 DEF PeerGoesSilent
  <2>4. CASE PeerWakes(c)
    BY <1>0, <2>4 DEF PeerWakes
  <2> QED BY <1>2, <2>1, <2>2, <2>3, <2>4 DEF Peer
<1>3. CASE Tick
  BY <1>3 DEF Tick
<1>4. CASE Monitor
  <2>1. CASE SweepStale
    <3>1. \A d \in Conns, e \in Events : callback[d][e] # "unsent" => callback'[d][e] # "unsent"
      BY <2>1 DEF SweepStale
    <3>2. ASSUME ControlCallback, NEW c \in Stale
          PROVE  callback'[c]["heartbeat_timeout"] # "unsent"
      BY <2>1, <3>2 DEF SweepStale, Stale
    <3>3. \A i \in Instances : mcp[i] \in Stale => mcp[i] \in Conns /\ InstanceOf[mcp[i]] = i
      BY DEF NoGhostSession, Stale
    <3>4. stage' = stage /\ \A i \in Instances : mcp'[i] = None => mcp[i] = None \/ mcp[i] \in Stale
      BY <2>1 DEF SweepStale
    <3>5. ASSUME ControlCallback, NEW i \in Instances, mcp'[i] = None,
                 \E c \in SessionsOf(i) : stage[c] # "new",
                 \A c \in SessionsOf(i) : stage[c] # "leaving"
          PROVE  \E c \in SessionsOf(i), e \in Events \ {"connected"} : callback'[c][e] # "unsent"
      <4>1. CASE mcp[i] = None
        <5>1. PICK c \in SessionsOf(i), e \in Events \ {"connected"} :
                callback[c][e] # "unsent"
          BY <3>5, <4>1
        <5> QED BY <3>1, <5>1
      <4>2. CASE mcp[i] \in Stale
        BY <3>2, <3>3, <3>5, <4>2
      <4> QED BY <3>4, <3>5, <4>1, <4>2
    <3> QED BY <3>4, <3>5
  <2>2. CASE PingAll
    BY <2>2 DEF PingAll
  <2>3. ASSUME NEW c \in Conns, PingStarts(c) \/ PingPanics(c) \/ PingEnds(c)
        PROVE  NobodyVanishesUnreported'
    <3>1. CASE PingStarts(c)
      BY <3>1 DEF PingStarts, BeginWrite
    <3>2. CASE PingPanics(c)
      BY <3>2 DEF PingPanics
    <3>3. CASE PingEnds(c)
      BY <3>3 DEF PingEnds, EndWrite
    <3> QED BY <2>3, <3>1, <3>2, <3>3
  <2>4. CASE PingAllEnds
    BY <2>4 DEF PingAllEnds
  <2> QED BY <1>4, <2>1, <2>2, <2>3, <2>4 DEF Monitor
<1>5. CASE Callbacks
  <2>1. PICK c \in Conns, e \in Events : Deliver(c, e) \/ Lose(c, e)
    BY <1>5 DEF Callbacks
  <2>2. \A d \in Conns, x \in Events : callback[d][x] # "unsent" => callback'[d][x] # "unsent"
    <3>1. CASE Deliver(c, e)
      BY <3>1 DEF Deliver
    <3>2. CASE Lose(c, e)
      BY <3>2 DEF Lose
    <3> QED BY <2>1, <3>1, <3>2
  <2>3. UNCHANGED <<stage, mcp>>
    BY <2>1 DEF Deliver, Lose
  <2> QED BY <2>2, <2>3
<1> HIDE DEF SessionTypeOK, NobodyVanishesUnreported
<1> QED BY <1>1, <1>2, <1>3, <1>4, <1>5 DEF SessionStep, Relay

(* Every step of the sessions preserves the invariant.                     *)
LEMMA NextSessionInv == ASSUME SessionInv, [SessionNext]_sessionVars PROVE SessionInv'
<1>1. CASE SessionStep
  BY <1>1, SessionTypeStep, NoGhostStep, NobodyVanishesStep DEF SessionInv
<1>2. CASE UNCHANGED sessionVars
  BY <1>2 DEF sessionVars, SessionInv, SessionTypeOK, NoGhostSession,
              NobodyVanishesUnreported
<1> QED BY <1>1, <1>2 DEF SessionNext, SessionStep

(* The invariant holds in every reachable state.                           *)
LEMMA SessionInvariance == SessionSpec => []SessionInv
BY InitSessionInv, NextSessionInv, PTL DEF SessionSpec

(* Sessions, the map, the monitor and the callbacks keep their types.      *)
THEOREM SessionTypeCorrect == SessionSpec => []SessionTypeOK
<1>1. SessionInv => SessionTypeOK
  BY DEF SessionInv
<1> QED BY <1>1, SessionInvariance, PTL

(* However many sessions connect, leave and are evicted, in whatever       *)
(* order, Hub.mcp never holds a session whose handler has unregistered.    *)
THEOREM NoGhosts == SessionSpec => []NoGhostSession
<1>1. SessionInv => NoGhostSession
  BY DEF SessionInv
<1> QED BY <1>1, SessionInvariance, PTL

(* An instance that is not in the map was reported offline at least once.  *)
THEOREM VanishedAreReported == SessionSpec => []NobodyVanishesUnreported
<1>1. SessionInv => NobodyVanishesUnreported
  BY DEF SessionInv
<1> QED BY <1>1, SessionInvariance, PTL

(* The news that has been sent of a session, and how far its handler is.   *)
ReportsInOrder ==
  \A c \in Conns :
    /\ callback[c]["connected"] # "unsent" => stage[c] \notin {"new", "registered"}
    /\ callback[c]["disconnect"] # "unsent" => stage[c] = "gone"
    /\ callback[c]["heartbeat_timeout"] # "unsent" =>
         stage[c] # "new" /\ mcp[InstanceOf[c]] # c

(* Each statement that posts runs once for a session: the handler passes   *)
(* it, or the sweep finds no entry any more.                               *)
LEMMA ReportsStep ==
  ASSUME SessionTypeOK, NoGhostSession, ReportsInOrder, SessionStep
  PROVE  ReportsInOrder'
<1> USE DEF SessionTypeOK, ReportsInOrder
<1>1. ASSUME NEW c \in Conns, Handler(c) PROVE ReportsInOrder'
  <2>1. CASE RegisterMCP(c)
    BY <2>1 DEF RegisterMCP
  <2>2. CASE NotifyConnected(c)
    BY <2>2 DEF NotifyConnected, Post
  <2>3. CASE GreetingStarts(c)
    BY <2>3 DEF GreetingStarts, BeginWrite
  <2>4. CASE GreetingEnds(c)
    BY <2>4 DEF GreetingEnds, EndWrite
  <2>5. CASE UnregisterMCP(c)
    BY <2>5 DEF UnregisterMCP
  <2>6. CASE NotifyDisconnected(c)
    BY <2>6 DEF NotifyDisconnected, Post
  <2> QED BY <1>1, <2>1, <2>2, <2>3, <2>4, <2>5, <2>6 DEF Handler
<1>2. CASE Tick
  <2>1. \A c \in Conns, e \in Events : callback'[c][e] # "unsent" => callback[c][e] # "unsent"
    BY <1>2 DEF Tick
  <2> QED BY <1>2, <2>1 DEF Tick
<1>3. CASE SweepStale
  <2>1. \A c \in Conns :
          /\ callback'[c]["connected"] = callback[c]["connected"]
          /\ callback'[c]["disconnect"] = callback[c]["disconnect"]
          /\ c \notin Stale => callback'[c]["heartbeat_timeout"] = callback[c]["heartbeat_timeout"]
    BY <1>3 DEF SweepStale
  <2>2. \A c \in Stale : stage[c] # "new" /\ mcp'[InstanceOf[c]] # c
    BY <1>3 DEF SweepStale, Stale, NoGhostSession
  <2>3. \A c \in Conns : mcp[InstanceOf[c]] # c => mcp'[InstanceOf[c]] # c
    BY <1>3 DEF SweepStale
  <2> QED BY <1>3, <2>1, <2>2, <2>3 DEF SweepStale
<1>4. CASE Callbacks
  <2>1. PICK c \in Conns, e \in Events : Deliver(c, e) \/ Lose(c, e)
    BY <1>4 DEF Callbacks
  <2>2. callback' = [callback EXCEPT ![c][e] = "settled"] /\ callback[c][e] # "unsent"
    BY <2>1 DEF Deliver, Lose, InFlight
  <2>3. \A d \in Conns, x \in Events : callback'[d][x] # "unsent" => callback[d][x] # "unsent"
    BY <2>2
  <2>4. UNCHANGED <<stage, mcp>>
    BY <2>1 DEF Deliver, Lose
  <2> QED BY <2>3, <2>4
<1>5. CASE UNCHANGED <<stage, mcp, callback>>
  BY <1>5
<1> QED
  BY <1>1, <1>2, <1>3, <1>4, <1>5 DEF SessionStep, Relay, Touch, Peer, PeerCloses,
     PeerGoesSilent, PeerWakes, Monitor, PingAll, PingStarts, PingPanics, PingEnds,
     PingAllEnds

(* Only RegisterMCP writes a session into the map, and a session registers *)
(* once: an entry that is lost stays lost, whatever frames arrive, and no  *)
(* news of it is sent twice.                                               *)
THEOREM EndsStayFinal == SessionSpec => EndsAreFinal
<1> DEFINE Keeps == \A c \in Conns :
             /\ stage[c] # "new" /\ mcp[InstanceOf[c]] # c => mcp'[InstanceOf[c]] # c
             /\ \A e \in Events : callback[c][e] = "settled" => callback'[c][e] = "settled"
<1>1. ASSUME SessionTypeOK, NoGhostSession, ReportsInOrder, SessionStep PROVE Keeps
  <2> USE DEF SessionTypeOK, ReportsInOrder
  <2>1. ASSUME NEW c \in Conns, Handler(c) PROVE Keeps
    <3>1. CASE RegisterMCP(c)
      BY <3>1 DEF RegisterMCP
    <3>2. CASE NotifyConnected(c)
      <4>1. callback[c]["connected"] = "unsent"
        BY <1>1, <3>2 DEF NotifyConnected
      <4>2. callback' \in {callback, [callback EXCEPT ![c]["connected"] = "inflight"]}
        BY <3>2 DEF NotifyConnected, Post
      <4>3. \A d \in Conns, e \in Events :
              callback'[d][e] = callback[d][e] \/ (d = c /\ e = "connected")
        BY <1>1, <4>2
      <4> QED BY <3>2, <4>1, <4>3 DEF NotifyConnected
    <3>3. CASE UnregisterMCP(c)
      BY <3>3 DEF UnregisterMCP
    <3>4. CASE NotifyDisconnected(c)
      <4>1. callback[c]["disconnect"] = "unsent"
        BY <1>1, <3>4 DEF NotifyDisconnected
      <4>2. callback' \in {callback, [callback EXCEPT ![c]["disconnect"] = "inflight"]}
        BY <3>4 DEF NotifyDisconnected, Post
      <4>3. \A d \in Conns, e \in Events :
              callback'[d][e] = callback[d][e] \/ (d = c /\ e = "disconnect")
        BY <1>1, <4>2
      <4> QED BY <3>4, <4>1, <4>3 DEF NotifyDisconnected
    <3>5. CASE UNCHANGED <<mcp, callback>>
      BY <3>5
    <3> QED BY <2>1, <3>1, <3>2, <3>3, <3>4, <3>5 DEF Handler, GreetingStarts, GreetingEnds
  <2>2. CASE SweepStale
    <3>1. \A c \in Conns : mcp[InstanceOf[c]] # c => mcp'[InstanceOf[c]] # c
      BY <2>2 DEF SweepStale
    <3>2. ASSUME NEW c \in Conns, NEW e \in Events, callback[c][e] = "settled"
          PROVE  callback'[c][e] = "settled"
      <4>1. CASE c \in Stale
        <5>1. e # "heartbeat_timeout"
          <6> SUFFICES ASSUME e = "heartbeat_timeout" PROVE FALSE
            OBVIOUS
          <6>1. callback[c]["heartbeat_timeout"] # "unsent"
            BY <3>2
          <6>2. mcp[InstanceOf[c]] = c
            BY <4>1 DEF Stale
          <6> QED BY <1>1, <6>1, <6>2
        <5> QED BY <2>2, <3>2, <5>1 DEF SweepStale
      <4>2. CASE c \notin Stale
        BY <2>2, <3>2, <4>2 DEF SweepStale
      <4> QED BY <4>1, <4>2
    <3> QED BY <3>1, <3>2
  <2>3. CASE Tick
    BY <2>3 DEF Tick
  <2>4. CASE Callbacks
    <3>1. PICK c \in Conns, e \in Events : Deliver(c, e) \/ Lose(c, e)
      BY <2>4 DEF Callbacks
    <3>2. callback' = [callback EXCEPT ![c][e] = "settled"] /\ UNCHANGED mcp
      BY <3>1 DEF Deliver, Lose
    <3> QED BY <3>2
  <2>5. CASE UNCHANGED <<mcp, callback>>
    BY <2>5
  <2> QED BY <1>1, <2>1, <2>2, <2>3, <2>4, <2>5 DEF SessionStep, Relay, Touch, Peer,
        PeerCloses, PeerGoesSilent, PeerWakes, Monitor, PingAll, PingStarts,
        PingPanics, PingEnds, PingAllEnds
<1>2. SessionInv /\ ReportsInOrder /\ [SessionNext]_sessionVars => [Keeps]_sessionVars
  BY <1>1 DEF SessionInv, SessionNext, SessionStep
<1>3. SessionInit => ReportsInOrder
  BY DEF SessionInit, ReportsInOrder
<1>4. SessionInv /\ ReportsInOrder /\ [SessionNext]_sessionVars => ReportsInOrder'
  <2>1. ASSUME UNCHANGED sessionVars, ReportsInOrder PROVE ReportsInOrder'
    BY <2>1 DEF sessionVars, ReportsInOrder
  <2> QED BY <2>1, ReportsStep DEF SessionInv, SessionNext, SessionStep
<1> QED BY <1>2, <1>3, <1>4, SessionInvariance, PTL DEF SessionSpec, EndsAreFinal

-----------------------------------------------------------------------------
(***************************************************************************)
(* Invariants of the composed relay, for any number of sessions, instances *)
(* and forwards.  A step is a step of the sessions, for which the lemmas   *)
(* above do the work, a step of a forward, or an answer.                   *)
(***************************************************************************)
HIDE DEF Stages, Events, handlerVars, monitorVars, callbackVars, SessionsOf

(* Where an accepted answer comes from, and when an id can be in the map.  *)
AnswerSound ==
  \A f \in Fwds : answer[f] # None =>
    /\ answer[f] = fconn[f]
    /\ f \in seen[InstanceOf[fconn[f]]]
    /\ fpc[f] \notin {"idle", "found"}
    /\ f \notin pend

PendingSound ==
  \A f \in pend : /\ fpc[f] \notin {"idle", "found"}
                  /\ fpc[f] = "done" => fstatus[f] \in {"202", "aborted"}

TakenSound == \A f \in Fwds : fstatus[f] = "200" => answer[f] # None

ForwardInv == AnswerSound /\ PendingSound /\ TakenSound

RelayInv == TypeOK /\ SessionInv /\ ForwardInv

(* No forward has begun: nothing is registered or answered.                *)
LEMMA InitRelayInv == Init => RelayInv
<1> SUFFICES ASSUME Init PROVE RelayInv
  OBVIOUS
<1>1. SessionInv
  BY InitSessionInv DEF Init
<1>2. TypeOK
  BY <1>1 DEF Init, TypeOK, SessionInv
<1>3. AnswerSound
  BY DEF Init, AnswerSound
<1>4. PendingSound
  BY DEF Init, PendingSound
<1>5. TakenSound
  BY StatusAssumption DEF Init, TakenSound, Statuses
<1> QED BY <1>1, <1>2, <1>3, <1>4, <1>5 DEF RelayInv, ForwardInv

(* Forwards and answers do not touch what the session invariants are about.*)
LEMMA SessionPartStable ==
  ASSUME SessionInv, SessionTypeOK', UNCHANGED <<stage, mcp, callback>>
  PROVE  SessionInv'
BY DEF SessionInv, NoGhostSession, NobodyVanishesUnreported, SessionsOf

(* A forward that looks up a session has not registered its id.            *)
LEMMA LookUpInv ==
  ASSUME RelayInv, NEW f \in Fwds, NEW i \in Instances, LookUp(f, i)
  PROVE  RelayInv'
<1> USE DEF RelayInv, ForwardInv, sessionVars, handlerVars, monitorVars, callbackVars
<1>1. SessionTypeOK'
  BY DEF TypeOK, SessionTypeOK, LookUp
<1>2. SessionInv'
  <2>1. UNCHANGED <<stage, mcp, callback>>
    BY DEF LookUp
  <2> QED BY <1>1, <2>1, SessionPartStable
<1>3. TypeOK'
  <2>1. mcp[i] \in Conns \cup {None}
    BY DEF TypeOK, SessionTypeOK
  <2> QED BY <1>1, <2>1 DEF TypeOK, LookUp, Statuses
<1>4. AnswerSound'
  BY DEF TypeOK, SessionTypeOK, AnswerSound, PendingSound, LookUp
<1>5. PendingSound'
  BY DEF TypeOK, AnswerSound, PendingSound, LookUp
<1>6. TakenSound'
  BY DEF TypeOK, TakenSound, LookUp
<1> QED BY <1>2, <1>3, <1>4, <1>5, <1>6

(* A forward that cannot read its body has not registered its id.          *)
LEMMA BodyFailsInv ==
  ASSUME RelayInv, NEW f \in Fwds, BodyFails(f)
  PROVE  RelayInv'
<1> USE DEF RelayInv, ForwardInv, sessionVars, handlerVars, monitorVars, callbackVars
<1>1. SessionTypeOK'
  BY DEF TypeOK, SessionTypeOK, BodyFails, Return
<1>2. SessionInv'
  <2>1. UNCHANGED <<stage, mcp, callback>>
    BY DEF BodyFails, Return
  <2> QED BY <1>1, <2>1, SessionPartStable
<1>3. TypeOK'
  BY <1>1 DEF TypeOK, BodyFails, Return, Statuses
<1>4. AnswerSound'
  BY DEF TypeOK, SessionTypeOK, AnswerSound, PendingSound, BodyFails, Return
<1>5. PendingSound'
  BY DEF TypeOK, AnswerSound, PendingSound, BodyFails, Return
<1>6. TakenSound'
  BY DEF TypeOK, TakenSound, BodyFails, Return
<1> QED BY <1>2, <1>3, <1>4, <1>5, <1>6

(* The id enters the map while its forward is under way, with no answer.   *)
LEMMA RegisterIdInv ==
  ASSUME RelayInv, NEW f \in Fwds, RegisterId(f)
  PROVE  RelayInv'
<1> USE DEF RelayInv, ForwardInv, sessionVars, handlerVars, monitorVars, callbackVars
<1>1. SessionTypeOK'
  BY DEF TypeOK, SessionTypeOK, RegisterId
<1>2. SessionInv'
  <2>1. UNCHANGED <<stage, mcp, callback>>
    BY DEF RegisterId
  <2> QED BY <1>1, <2>1, SessionPartStable
<1>3. TypeOK'
  BY <1>1 DEF TypeOK, RegisterId
<1>4. AnswerSound'
  BY DEF TypeOK, SessionTypeOK, AnswerSound, PendingSound, RegisterId
<1>5. PendingSound'
  BY DEF TypeOK, AnswerSound, PendingSound, RegisterId
<1>6. TakenSound'
  BY DEF TypeOK, TakenSound, RegisterId
<1> QED BY <1>2, <1>3, <1>4, <1>5, <1>6

(* Sending changes the socket, not the pending map.                        *)
LEMMA SendStartsInv ==
  ASSUME RelayInv, NEW f \in Fwds, SendStarts(f)
  PROVE  RelayInv'
<1> USE DEF RelayInv, ForwardInv, sessionVars, handlerVars, monitorVars, callbackVars
<1>1. SessionTypeOK'
  BY DEF TypeOK, SessionTypeOK, SendStarts, BeginWrite
<1>2. SessionInv'
  <2>1. UNCHANGED <<stage, mcp, callback>>
    BY DEF SendStarts, BeginWrite
  <2> QED BY <1>1, <2>1, SessionPartStable
<1>3. TypeOK'
  BY <1>1 DEF TypeOK, SendStarts, BeginWrite
<1>4. AnswerSound'
  BY DEF TypeOK, SessionTypeOK, AnswerSound, PendingSound, SendStarts, BeginWrite
<1>5. PendingSound'
  BY DEF TypeOK, AnswerSound, PendingSound, SendStarts, BeginWrite
<1>6. TakenSound'
  BY DEF TypeOK, TakenSound, SendStarts, BeginWrite
<1> QED BY <1>2, <1>3, <1>4, <1>5, <1>6

(* A panic ends the forward as aborted and leaves the id.                  *)
LEMMA SendPanicsInv ==
  ASSUME RelayInv, NEW f \in Fwds, SendPanics(f)
  PROVE  RelayInv'
<1> USE DEF RelayInv, ForwardInv, sessionVars, handlerVars, monitorVars, callbackVars
<1>1. SessionTypeOK'
  BY DEF TypeOK, SessionTypeOK, SendPanics, Return
<1>2. SessionInv'
  <2>1. UNCHANGED <<stage, mcp, callback>>
    BY DEF SendPanics, Return
  <2> QED BY <1>1, <2>1, SessionPartStable
<1>3. TypeOK'
  BY <1>1 DEF TypeOK, SendPanics, Return, Statuses
<1>4. AnswerSound'
  BY DEF TypeOK, SessionTypeOK, AnswerSound, PendingSound, SendPanics, Return
<1>5. PendingSound'
  BY DEF TypeOK, AnswerSound, PendingSound, SendPanics, Return
<1>6. TakenSound'
  BY DEF TypeOK, TakenSound, SendPanics, Return
<1> QED BY <1>2, <1>3, <1>4, <1>5, <1>6

(* The instance gets the request while its forward is in Send.             *)
LEMMA RequestArrivesInv ==
  ASSUME RelayInv, NEW f \in Fwds, RequestArrives(f)
  PROVE  RelayInv'
<1> USE DEF RelayInv, ForwardInv, sessionVars, handlerVars, monitorVars, callbackVars
<1>1. SessionTypeOK'
  BY DEF TypeOK, SessionTypeOK, RequestArrives
<1>2. SessionInv'
  <2>1. UNCHANGED <<stage, mcp, callback>>
    BY DEF RequestArrives
  <2> QED BY <1>1, <2>1, SessionPartStable
<1>3. TypeOK'
  BY <1>1 DEF TypeOK, RequestArrives, Statuses
<1>4. AnswerSound'
  BY DEF TypeOK, SessionTypeOK, AnswerSound, PendingSound, RequestArrives
<1>5. PendingSound'
  BY DEF TypeOK, AnswerSound, PendingSound, RequestArrives
<1>6. TakenSound'
  BY DEF TypeOK, TakenSound, RequestArrives
<1> QED BY <1>2, <1>3, <1>4, <1>5, <1>6

(* The request reaches the instance; an asynchronous id stays in the map.  *)
LEMMA SendSucceedsInv ==
  ASSUME RelayInv, NEW f \in Fwds, SendSucceeds(f)
  PROVE  RelayInv'
<1> USE DEF RelayInv, ForwardInv, sessionVars, handlerVars, monitorVars, callbackVars
<1>1. SessionTypeOK'
  BY DEF TypeOK, SessionTypeOK, SendSucceeds, EndWrite, Return
<1>2. SessionInv'
  <2>1. UNCHANGED <<stage, mcp, callback>>
    BY DEF SendSucceeds, EndWrite, Return
  <2> QED BY <1>1, <2>1, SessionPartStable
<1>3. TypeOK'
  BY <1>1 DEF TypeOK, SendSucceeds, EndWrite, Return, Statuses
<1>4. AnswerSound'
  BY DEF TypeOK, SessionTypeOK, AnswerSound, PendingSound, SendSucceeds, EndWrite, Return
<1>5. PendingSound'
  BY DEF TypeOK, AnswerSound, PendingSound, SendSucceeds, EndWrite, Return
<1>6. TakenSound'
  BY DEF TypeOK, TakenSound, SendSucceeds, EndWrite, Return
<1> QED BY <1>2, <1>3, <1>4, <1>5, <1>6

(* A forward whose Send failed has cancelled its id.                       *)
LEMMA SendFailsInv ==
  ASSUME RelayInv, NEW f \in Fwds, SendFails(f)
  PROVE  RelayInv'
<1> USE DEF RelayInv, ForwardInv, sessionVars, handlerVars, monitorVars, callbackVars
<1>1. SessionTypeOK'
  BY DEF TypeOK, SessionTypeOK, SendFails, EndWrite, Return
<1>2. SessionInv'
  <2>1. UNCHANGED <<stage, mcp, callback>>
    BY DEF SendFails, EndWrite, Return
  <2> QED BY <1>1, <2>1, SessionPartStable
<1>3. TypeOK'
  BY <1>1 DEF TypeOK, SendFails, EndWrite, Return, Statuses
<1>4. AnswerSound'
  BY DEF TypeOK, SessionTypeOK, AnswerSound, PendingSound, SendFails, EndWrite, Return
<1>5. PendingSound'
  BY DEF TypeOK, AnswerSound, PendingSound, SendFails, EndWrite, Return
<1>6. TakenSound'
  BY DEF TypeOK, TakenSound, SendFails, EndWrite, Return
<1> QED BY <1>2, <1>3, <1>4, <1>5, <1>6

(* By AnswerSound the answer taken is of this session.                     *)
LEMMA TakeAnswerInv ==
  ASSUME RelayInv, NEW f \in Fwds, TakeAnswer(f)
  PROVE  RelayInv'
<1> USE DEF RelayInv, ForwardInv, sessionVars, handlerVars, monitorVars, callbackVars
<1>1. SessionTypeOK'
  BY DEF TypeOK, SessionTypeOK, TakeAnswer, Return
<1>2. SessionInv'
  <2>1. UNCHANGED <<stage, mcp, callback>>
    BY DEF TakeAnswer, Return
  <2> QED BY <1>1, <2>1, SessionPartStable
<1>3. TypeOK'
  BY <1>1 DEF TypeOK, TakeAnswer, Return, Statuses
<1>4. AnswerSound'
  BY DEF TypeOK, SessionTypeOK, AnswerSound, PendingSound, TakeAnswer, Return
<1>5. PendingSound'
  BY DEF TypeOK, AnswerSound, PendingSound, TakeAnswer, Return
<1>6. TakenSound'
  BY DEF TypeOK, TakenSound, TakeAnswer, Return
<1> QED BY <1>2, <1>3, <1>4, <1>5, <1>6

(* A forward that times out has cancelled its id.                          *)
LEMMA WaitTimesOutInv ==
  ASSUME RelayInv, NEW f \in Fwds, WaitTimesOut(f)
  PROVE  RelayInv'
<1> USE DEF RelayInv, ForwardInv, sessionVars, handlerVars, monitorVars, callbackVars
<1>1. SessionTypeOK'
  BY DEF TypeOK, SessionTypeOK, WaitTimesOut, Return
<1>2. SessionInv'
  <2>1. UNCHANGED <<stage, mcp, callback>>
    BY DEF WaitTimesOut, Return
  <2> QED BY <1>1, <2>1, SessionPartStable
<1>3. TypeOK'
  BY <1>1 DEF TypeOK, WaitTimesOut, Return, Statuses
<1>4. AnswerSound'
  BY DEF TypeOK, SessionTypeOK, AnswerSound, PendingSound, WaitTimesOut, Return
<1>5. PendingSound'
  BY DEF TypeOK, AnswerSound, PendingSound, WaitTimesOut, Return
<1>6. TakenSound'
  BY DEF TypeOK, TakenSound, WaitTimesOut, Return
<1> QED BY <1>2, <1>3, <1>4, <1>5, <1>6

(* An answer is claimed only from the multiplexer of its own session.      *)
LEMMA McpResponseInv ==
  ASSUME RelayInv, NEW c \in Conns, NEW f \in Fwds, McpResponse(c, f)
  PROVE  RelayInv'
<1> USE DEF RelayInv, ForwardInv, sessionVars, handlerVars, monitorVars, callbackVars
<1>1. SessionTypeOK'
  BY DEF TypeOK, SessionTypeOK, McpResponse, Readable
<1>2. SessionInv'
  <2>1. UNCHANGED <<stage, mcp, callback>>
    BY DEF McpResponse, Readable
  <2> QED BY <1>1, <2>1, SessionPartStable
<1>3. TypeOK'
  BY <1>1 DEF TypeOK, McpResponse, Readable
<1>4. AnswerSound'
  BY DEF TypeOK, SessionTypeOK, AnswerSound, PendingSound, McpResponse, Readable
<1>5. PendingSound'
  BY DEF TypeOK, AnswerSound, PendingSound, McpResponse, Readable
<1>6. TakenSound'
  BY DEF TypeOK, TakenSound, McpResponse, Readable
<1> QED BY <1>2, <1>3, <1>4, <1>5, <1>6

(* Every step of the relay preserves the invariant.                        *)
LEMMA NextRelayInv == ASSUME RelayInv, [Next]_vars PROVE RelayInv'
<1>1. CASE Relay /\ UNCHANGED forwardVars
  <2>1. SessionInv'
    BY <1>1, SessionTypeStep, NoGhostStep, NobodyVanishesStep
       DEF RelayInv, SessionInv, SessionStep
  <2> QED BY <1>1, <2>1 DEF RelayInv, SessionInv, TypeOK, ForwardInv, AnswerSound,
               PendingSound, TakenSound, forwardVars
<1>2. ASSUME NEW f \in Fwds, Forward(f) PROVE RelayInv'
  BY <1>2, LookUpInv, BodyFailsInv, RegisterIdInv, SendStartsInv, SendPanicsInv,
     RequestArrivesInv, SendSucceedsInv, SendFailsInv, TakeAnswerInv, WaitTimesOutInv DEF Forward
<1>3. ASSUME NEW c \in Conns, NEW f \in Fwds, McpResponse(c, f) PROVE RelayInv'
  BY <1>3, McpResponseInv
<1>4. CASE UNCHANGED vars
  <2>1. SessionInv'
    BY <1>4 DEF vars, sessionVars, handlerVars, monitorVars, callbackVars, RelayInv,
            SessionInv, SessionTypeOK, NoGhostSession, NobodyVanishesUnreported
  <2> QED BY <1>4, <2>1 DEF RelayInv, SessionInv, TypeOK, ForwardInv, AnswerSound,
               PendingSound, TakenSound, vars, forwardVars
<1> QED BY <1>1, <1>2, <1>3, <1>4 DEF Next

(* The invariant holds in every reachable state.                           *)
LEMMA RelayInvariance == Spec => []RelayInv
BY InitRelayInv, NextRelayInv, PTL DEF Spec

(* The variables of sessions and forwards keep their types.                *)
THEOREM RelayTypeCorrect == Spec => []TypeOK
<1>1. RelayInv => TypeOK
  BY DEF RelayInv
<1> QED BY <1>1, RelayInvariance, PTL

(* The map holds no session that nobody reads, with forwards in the middle *)
(* of a Send or a Wait on it as without them.                              *)
THEOREM RelayNoGhosts == Spec => []NoGhostSession
<1>1. RelayInv => NoGhostSession
  BY DEF RelayInv, SessionInv
<1> QED BY <1>1, RelayInvariance, PTL

(* A 200 carries an answer that arrived over the session the request was   *)
(* sent on, from an instance that has received it.                         *)
THEOREM AnswersKeepTheirSession == Spec => []AnswerOnSameSession
<1>1. RelayInv => AnswerOnSameSession
  BY DEF RelayInv, ForwardInv, AnswerSound, TakenSound, AnswerOnSameSession
<1> QED BY <1>1, RelayInvariance, PTL

(* Only asynchronous and panicked forwards leave their id in the map.      *)
THEOREM PendingIsDrained == Spec => []PendingDrained
<1>1. RelayInv => PendingDrained
  BY DEF RelayInv, ForwardInv, PendingSound, PendingDrained
<1> QED BY <1>1, RelayInvariance, PTL

(***************************************************************************)
(* The relay implements ReplyOnce.  A step of a forward or an answer is    *)
(* one step of the promise or none; what the sessions do, ping, evict,     *)
(* replace and end, is none.                                               *)
(***************************************************************************)

(* A status is what a forward ends with.                                   *)
DoneHaveStatus == \A f \in Fwds : fstatus[f] = None <=> fpc[f] # "done"

(* A forward that has registered and not cancelled has its id in the map,  *)
(* or its answer.                                                          *)
OpenOrAnswered ==
  \A f \in Fwds :
    (fpc[f] \in {"registered", "sending", "waiting"}
     \/ fstatus[f] \in {"202", "aborted", "200"})
      => (f \in pend \/ answer[f] # None)

RefineInv == RelayInv /\ DoneHaveStatus /\ OpenOrAnswered

LEMMA InitRefineInv == Init => RefineInv
BY InitRelayInv, StatusAssumption
   DEF Init, RefineInv, DoneHaveStatus, OpenOrAnswered, Statuses

(* A return sets pc and status together; an id leaves the map with an      *)
(* answer, or with a forward that ends in 502 or 504.                      *)
LEMMA DoneHaveStatusStep ==
  ASSUME RefineInv, [Next]_vars
  PROVE  DoneHaveStatus'
<1> USE StatusAssumption DEF RefineInv, RelayInv, TypeOK, DoneHaveStatus, Statuses
<1>1. ASSUME NEW f \in Fwds, Forward(f) PROVE DoneHaveStatus'
  BY <1>1 DEF Forward, LookUp, BodyFails, RegisterId, SendStarts, SendPanics,
     RequestArrives, SendSucceeds, SendFails, TakeAnswer, WaitTimesOut, Return
<1>2. CASE UNCHANGED <<fpc, fstatus>>
  BY <1>2
<1>3. ASSUME NEW c \in Conns, NEW f \in Fwds, McpResponse(c, f)
      PROVE  UNCHANGED <<fpc, fstatus>>
  BY <1>3 DEF McpResponse
<1> QED BY <1>1, <1>2, <1>3 DEF Next, vars, forwardVars

LEMMA OpenOrAnsweredStep ==
  ASSUME RefineInv, [Next]_vars
  PROVE  OpenOrAnswered'
<1> USE StatusAssumption DEF RefineInv, RelayInv, TypeOK, DoneHaveStatus,
        OpenOrAnswered, Statuses
<1>1. ASSUME NEW f \in Fwds, Forward(f) PROVE OpenOrAnswered'
  <2>1. CASE \E i \in Instances : LookUp(f, i)
    BY <2>1 DEF LookUp
  <2>2. CASE BodyFails(f)
    BY <2>2 DEF BodyFails, Return
  <2>3. CASE RegisterId(f)
    BY <2>3 DEF RegisterId
  <2>4. CASE SendStarts(f) \/ SendPanics(f) \/ RequestArrives(f)
    BY <2>4 DEF SendStarts, SendPanics, RequestArrives, Return
  <2>5. CASE SendSucceeds(f)
    BY <2>5 DEF SendSucceeds, Return
  <2>6. CASE SendFails(f)
    BY <2>6 DEF SendFails, Return
  <2>7. CASE TakeAnswer(f)
    BY <2>7 DEF TakeAnswer, Return
  <2>8. CASE WaitTimesOut(f)
    BY <2>8 DEF WaitTimesOut, Return
  <2> QED BY <1>1, <2>1, <2>2, <2>3, <2>4, <2>5, <2>6, <2>7, <2>8 DEF Forward
<1>2. CASE UNCHANGED <<fpc, fstatus, pend, answer>>
  BY <1>2
<1>3. ASSUME NEW c \in Conns, NEW f \in Fwds, McpResponse(c, f)
      PROVE  OpenOrAnswered'
  <2>1. c # None
    BY NoneAssumption
  <2> QED BY <1>3, <2>1 DEF McpResponse
<1> QED BY <1>1, <1>2, <1>3 DEF Next, vars, forwardVars

LEMMA RefineInvariance == Spec => []RefineInv
<1>1. RefineInv /\ [Next]_vars => RefineInv'
  BY NextRelayInv, DoneHaveStatusStep, OpenOrAnsweredStep DEF RefineInv
<1> QED BY <1>1, InitRefineInv, PTL DEF Spec

-----------------------------------------------------------------------------
(* Forward f as the promise sees it does not move.                         *)
Still(f) == /\ UNCHANGED <<SlotOf(f), OutcomeOf(f), answer[f]>>
            /\ (fstatus'[f] = "200") = (fstatus[f] = "200")

LEMMA StillStutters ==
  ASSUME TypeOK, TypeOK', \A f \in Fwds : Still(f)
  PROVE  UNCHANGED Promise!vars
BY DEF TypeOK, Still, Promise!vars

(* A step of forward f leaves every other forward as it is.                *)
LEMMA OthersStill ==
  ASSUME RefineInv, NEW f \in Fwds, NEW g \in Fwds, g # f,
         Forward(f) \/ \E c \in Conns : McpResponse(c, f)
  PROVE  Still(g)
<1>1. fstatus'[g] = fstatus[g] /\ answer'[g] = answer[g] /\ (g \in pend' <=> g \in pend)
  <2> USE DEF RefineInv, RelayInv, TypeOK
  <2>1. CASE Forward(f)
    BY <2>1 DEF Forward, LookUp, BodyFails, RegisterId, SendStarts, SendPanics,
       RequestArrives, SendSucceeds, SendFails, TakeAnswer, WaitTimesOut, Return
  <2>2. CASE \E c \in Conns : McpResponse(c, f)
    BY <2>2 DEF McpResponse
  <2> QED BY <2>1, <2>2
<1> QED BY <1>1 DEF Still, SlotOf, OutcomeOf

(* Register announces the request.                                         *)
LEMMA RegisterIdAnnounces ==
  ASSUME RefineInv, NEW f \in Fwds, RegisterId(f)
  PROVE  Promise!Announce(f)
<1> USE StatusAssumption DEF RefineInv, RelayInv, TypeOK, ForwardInv, Statuses
<1>1. \A g \in Fwds : g # f => Still(g)
  BY OthersStill DEF Forward
<1>2. f \notin pend /\ answer[f] = None /\ fstatus[f] = None
  BY DEF RegisterId, AnswerSound, PendingSound, DoneHaveStatus
<1>3. SlotOf(f) = "unused" /\ SlotOf(f)' = "open"
  BY <1>2 DEF SlotOf, RegisterId
<1>4. UNCHANGED <<OutcomeOf(f), answer, fstatus>>
  BY DEF OutcomeOf, RegisterId
<1>5. \A g \in Fwds : UNCHANGED OutcomeOf(g)
  BY <1>4 DEF OutcomeOf
<1> QED BY <1>1, <1>3, <1>4, <1>5 DEF Still, Promise!Announce

(* A forward that answers 202, or panics, leaves its slot as it is.        *)
LEMMA LeavesDetaches ==
  ASSUME RefineInv, NEW f \in Fwds,
         SendPanics(f) \/ (SendSucceeds(f) /\ fstatus'[f] = "202")
  PROVE  Promise!Detach(f)
<1> USE StatusAssumption DEF RefineInv, RelayInv, TypeOK, ForwardInv, Statuses
<1>1. \A g \in Fwds : g # f => Still(g)
  BY OthersStill DEF Forward
<1>2. fstatus[f] = None /\ fstatus'[f] \in {"202", "aborted"} /\ UNCHANGED <<pend, answer>>
  BY DEF SendPanics, SendSucceeds, Return, DoneHaveStatus
<1>3. SlotOf(f) \in {"open", "answered"}
  BY DEF SlotOf, SendPanics, SendSucceeds, OpenOrAnswered
<1>4. UNCHANGED SlotOf(f)
  BY <1>2, <1>3 DEF SlotOf
<1>5. OutcomeOf(f) = "undecided" /\ OutcomeOf(f)' = "detached"
  BY <1>2 DEF OutcomeOf
<1>6. fstatus[f] # "200" /\ fstatus'[f] # "200"
  BY <1>2
<1> QED BY <1>1, <1>2, <1>3, <1>4, <1>5, <1>6 DEF Still, Promise!Detach

(* A waiter that finds the answer takes the one its slot has accepted.     *)
LEMMA TakeAnswerTakes ==
  ASSUME RefineInv, NEW f \in Fwds, TakeAnswer(f)
  PROVE  Promise!Take(f)
<1> USE StatusAssumption DEF RefineInv, RelayInv, TypeOK, ForwardInv, Statuses
<1>1. \A g \in Fwds : g # f => Still(g)
  BY OthersStill DEF Forward
<1>2. fstatus[f] = None /\ fstatus'[f] = "200" /\ UNCHANGED <<pend, answer>>
  BY DEF TakeAnswer, Return, DoneHaveStatus
<1>3. SlotOf(f) = "answered" /\ SlotOf(f)' = "answered"
  BY <1>2 DEF SlotOf, TakeAnswer, AnswerSound
<1>4. OutcomeOf(f) = "undecided" /\ OutcomeOf(f)' = "taken"
  BY <1>2 DEF OutcomeOf
<1> QED BY <1>1, <1>2, <1>3, <1>4 DEF Still, Promise!Take

(* A failed Send and a timeout revoke the slot, unless it has an answer    *)
(* already, and give up.                                                   *)
LEMMA FailureGivesUp ==
  ASSUME RefineInv, NEW f \in Fwds, SendFails(f) \/ WaitTimesOut(f)
  PROVE  Promise!GiveUp(f)
<1> USE StatusAssumption DEF RefineInv, RelayInv, TypeOK, ForwardInv, Statuses
<1>1. \A g \in Fwds : g # f => Still(g)
  BY OthersStill DEF Forward
<1>2. fstatus[f] = None /\ fstatus'[f] \in {"502", "504"} /\ UNCHANGED answer
      /\ f \notin pend'
  BY DEF SendFails, WaitTimesOut, Return, DoneHaveStatus
<1>3. f \in pend \/ answer[f] # None
  BY DEF SendFails, WaitTimesOut, OpenOrAnswered
<1>4. SlotOf(f) = "open" => SlotOf(f)' = "revoked"
  BY <1>2, <1>3 DEF SlotOf, AnswerSound
<1>5. SlotOf(f) # "open" => SlotOf(f) = "answered" /\ SlotOf(f)' = "answered"
  BY <1>2, <1>3 DEF SlotOf
<1>6. OutcomeOf(f) = "undecided" /\ OutcomeOf(f)' = "gaveUp"
  BY <1>2 DEF OutcomeOf
<1>7. fstatus[f] # "200" /\ fstatus'[f] # "200"
  BY <1>2
<1> QED BY <1>1, <1>2, <1>4, <1>5, <1>6, <1>7 DEF Still, Promise!GiveUp

(* The answer that finds its id in its own session's map settles the slot. *)
LEMMA McpResponseAnswers ==
  ASSUME RefineInv, NEW c \in Conns, NEW f \in Fwds, McpResponse(c, f),
         f \in pend, fconn[f] = c
  PROVE  Promise!Answer(f, c)
<1> USE StatusAssumption DEF RefineInv, RelayInv, TypeOK, ForwardInv, Statuses
<1>1. \A g \in Fwds : g # f => Still(g)
  BY OthersStill
<1>2. answer' = [answer EXCEPT ![f] = c] /\ f \notin pend' /\ UNCHANGED fstatus
  BY DEF McpResponse
<1>3. c # None
  BY NoneAssumption
<1>4. SlotOf(f) = "open" /\ SlotOf(f)' = "answered"
  BY <1>2, <1>3 DEF SlotOf
<1>5. \A g \in Fwds : UNCHANGED OutcomeOf(g)
  BY <1>2 DEF OutcomeOf
<1>6. fstatus[f] # "200"
  BY DEF PendingSound, DoneHaveStatus, TakenSound, AnswerSound
<1>7. \A g \in Fwds : fstatus'[g] = "200" => answer'[g] = answer[g]
  BY <1>2, <1>6
<1> QED BY <1>1, <1>2, <1>4, <1>5, <1>7 DEF Still, Promise!Answer

(* A step of a forward that the promise does not see.                      *)
LEMMA ForwardStill ==
  ASSUME RefineInv, NEW f \in Fwds, NEW g \in Fwds,
         \/ \E i \in Instances : LookUp(f, i)
         \/ BodyFails(f)
         \/ SendStarts(f)
         \/ RequestArrives(f)
         \/ SendSucceeds(f) /\ fstatus'[f] # "202"
  PROVE  Still(g)
<1> USE StatusAssumption DEF RefineInv, RelayInv, TypeOK, ForwardInv, Statuses
<1>1. CASE g # f
  BY <1>1, OthersStill DEF Forward
<1>2. CASE g = f
  <2>1. UNCHANGED <<pend, answer>>
    BY DEF LookUp, BodyFails, SendStarts, RequestArrives, SendSucceeds
  <2>2. \/ UNCHANGED fstatus
        \/ fstatus[f] = None /\ fstatus'[f] \in {"400", "503"}
    BY DEF LookUp, BodyFails, SendStarts, RequestArrives, SendSucceeds, Return,
       DoneHaveStatus
  <2> QED BY <1>2, <2>1, <2>2 DEF Still, SlotOf, OutcomeOf
<1> QED BY <1>1, <1>2

LEMMA RelayRefinementInit == Init => Promise!Init
<1> SUFFICES ASSUME Init PROVE Promise!Init
  OBVIOUS
<1>1. pend = {} /\ \A f \in Fwds : fstatus[f] = None /\ answer[f] = None
  BY DEF Init
<1>2. None \notin {"502", "504", "200"}
  BY StatusAssumption DEF Statuses
<1>3. \A f \in Fwds : SlotOf(f) = "unused" /\ OutcomeOf(f) = "undecided"
  BY <1>1, <1>2 DEF SlotOf, OutcomeOf
<1> QED BY <1>1, <1>2, <1>3 DEF Init, Promise!Init

LEMMA RelayRefinementStep ==
  ASSUME RefineInv, RefineInv', [Next]_vars
  PROVE  [Promise!Next]_(Promise!vars)
<1> USE DEF RefineInv, RelayInv
<1>1. ASSUME NEW f \in Fwds, Forward(f) PROVE [Promise!Next]_(Promise!vars)
  <2>1. CASE RegisterId(f)
    BY <2>1, RegisterIdAnnounces DEF Promise!Next
  <2>2. CASE SendPanics(f) \/ (SendSucceeds(f) /\ fstatus'[f] = "202")
    BY <2>2, LeavesDetaches DEF Promise!Next
  <2>3. CASE TakeAnswer(f)
    BY <2>3, TakeAnswerTakes DEF Promise!Next
  <2>4. CASE SendFails(f) \/ WaitTimesOut(f)
    BY <2>4, FailureGivesUp DEF Promise!Next
  <2>5. CASE \/ \E i \in Instances : LookUp(f, i)
             \/ BodyFails(f)
             \/ SendStarts(f)
             \/ RequestArrives(f)
             \/ SendSucceeds(f) /\ fstatus'[f] # "202"
    <3>1. \A g \in Fwds : Still(g)
      BY <2>5, ForwardStill
    <3> QED BY <3>1, StillStutters
  <2> QED BY <1>1, <2>1, <2>2, <2>3, <2>4, <2>5 DEF Forward
<1>2. ASSUME NEW c \in Conns, NEW f \in Fwds, McpResponse(c, f)
      PROVE  [Promise!Next]_(Promise!vars)
  <2>1. CASE f \in pend /\ fconn[f] = c
    BY <1>2, <2>1, McpResponseAnswers DEF Promise!Next
  <2>2. CASE ~(f \in pend /\ fconn[f] = c)
    <3>1. UNCHANGED <<pend, answer, fstatus>>
      BY <1>2, <2>2 DEF McpResponse
    <3>2. \A g \in Fwds : Still(g)
      BY <3>1 DEF Still, SlotOf, OutcomeOf
    <3> QED BY <3>2, StillStutters
  <2> QED BY <2>1, <2>2
<1>3. CASE UNCHANGED <<pend, answer, fstatus>>
  <2>1. \A g \in Fwds : Still(g)
    BY <1>3 DEF Still, SlotOf, OutcomeOf
  <2> QED BY <2>1, StillStutters
<1> QED BY <1>1, <1>2, <1>3 DEF Next, vars, forwardVars

(* Every forward takes the one answer that was accepted for it or none,    *)
(* and no answer is accepted once it has given up: sessions that replace,  *)
(* evict or end one another do not weaken the multiplexer's promise.       *)
THEOREM ForwardsAnswerOnce == Spec => ForwardsImplementReplyOnce
<1>1. Init => Promise!Init
  BY RelayRefinementInit
<1>2. RefineInv /\ RefineInv' /\ [Next]_vars => [Promise!Next]_(Promise!vars)
  BY RelayRefinementStep
<1> QED BY <1>1, <1>2, RefineInvariance, PTL
           DEF Spec, ForwardsImplementReplyOnce, Promise!Spec
=============================================================================
