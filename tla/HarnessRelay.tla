---------------------------- MODULE HarnessRelay -----------------------------
(***************************************************************************)
(* Harness workers: handleHarnessConnect, handleHarnessPick,               *)
(* handleHarnessRun and the harness half of the Hub.  A worker is          *)
(* keyed by worker_id, a Conn is one session of it, and the load that the  *)
(* picker looks at (ActiveJobs) is kept in the Conn: raised by the handler *)
(* of a run, lowered by the reader of the worker's frames.                 *)
(*                                                                         *)
(* Abstracted: LastSeen (at any sweep, any session may have been silent    *)
(* for longer than the threshold), pings (for a Send one more writer, see  *)
(* McpSessions), and what becomes of the callbacks to the orchestrator,    *)
(* which nothing in the relay waits for.                                   *)
(***************************************************************************)
EXTENDS Naturals, FiniteSets

CONSTANTS
  Conns,          \* WebSocket sessions, each used once
  Workers,        \* worker ids
  WorkerOf,       \* the worker_id that a session connects with
  Tenants,
  TenantOf,       \* the tenant_id of a worker, None if it gave none
  Users,          \* keys tenant#user of harnessByUser
  UserOf,         \* the key of a worker (a worker id belongs to one user)
  Providers,
  QueryProviders, \* the provider parameter of a session's URL, {} if absent
  LoginTiers,     \* tiers that sessions give in their URL
  Capabilities,   \* contents of harness_register frames
  Runs,           \* dispatches, each a POST to /run
  None

ASSUME RunsAssumption == IsFiniteSet(Runs)
ASSUME WorkerOfAssumption == WorkerOf \in [Conns -> Workers]
ASSUME OwnerAssumption == /\ TenantOf \in [Workers -> Tenants \cup {None}]
                          /\ UserOf \in [Workers -> Users \cup {None}]
ASSUME ProviderAssumption == QueryProviders \in [Conns -> SUBSET Providers]

Tiers == {"heavy", "lightweight", "none"}

ASSUME FrameAssumption ==
  /\ LoginTiers \subseteq Tiers
  /\ Capabilities \subseteq [tier : Tiers, providers : SUBSET Providers, max : Nat]

(* The fields of a Conn that are read while it is in Hub.harness.          *)
Entries == [conn : Conns, tier : Tiers, providers : SUBSET Providers,
            maxConcurrent : Nat, activeJobs : Nat]

ASSUME NoneAssumption ==
  /\ None \notin Conns /\ None \notin Workers /\ None \notin Users /\ None \notin Entries
  /\ None \notin {"503", "400", "502", "202", "aborted"}

VARIABLES
  stage,      \* where session c's handler is in handleHarnessConnect
  link,       \* "up", or "down" when the peer or the network closed it
  writing,    \* goroutines inside ws.WriteMessage of session c
  harness,    \* Hub.harness, with the fields of each Conn in it
  byUser,     \* Hub.harnessByUser
  rpc,        \* where run r is: at the client, in handleHarnessRun, or done
  rworker,    \* the worker that the client addresses
  rconn,      \* the session that GetHarness returned
  status,     \* the HTTP status of run r
  job,        \* run r as the worker and the orchestrator see it
  raced       \* history: worker w was given runs that no pick had vetted alone

connVars == <<stage, link, writing>>
runVars  == <<rpc, rworker, rconn, status, job>>
vars == <<connVars, harness, byUser, runVars, raced>>

TypeOK ==
  /\ stage \in [Conns -> {"new", "registered", "greeting", "reading", "leaving", "gone"}]
  /\ link \in [Conns -> {"up", "down"}]
  /\ writing \in [Conns -> SUBSET (Runs \cup {"greeting"})]
  /\ harness \in [Workers -> Entries \cup {None}]
  /\ byUser \in [Users -> Workers \cup {None}]
  /\ rpc \in [Runs -> {"idle", "picked", "found", "counted", "sending", "failed", "done"}]
  /\ rworker \in [Runs -> Workers \cup {None}]
  /\ rconn \in [Runs -> Conns \cup {None}]
  /\ status \in [Runs -> {"503", "400", "502", "202", "aborted", None}]
  /\ job \in [Runs -> {"none", "arrived", "completed"}]
  /\ raced \in [Workers -> BOOLEAN]

Init ==
  /\ stage = [c \in Conns |-> "new"]
  /\ link = [c \in Conns |-> "up"]
  /\ writing = [c \in Conns |-> {}]
  /\ harness = [w \in Workers |-> None]
  /\ byUser = [u \in Users |-> None]
  /\ rpc = [r \in Runs |-> "idle"]
  /\ rworker = [r \in Runs |-> None]
  /\ rconn = [r \in Runs |-> None]
  /\ status = [r \in Runs |-> None]
  /\ job = [r \in Runs |-> "none"]
  /\ raced = [w \in Workers |-> FALSE]

-----------------------------------------------------------------------------
(* Writes, as in McpSessions: two at a time panic or break the stream.     *)

Alone(c) == writing[c] = {}

BeginWrite(c, x) ==
  /\ writing' = [writing EXCEPT ![c] = @ \cup {x}]
  /\ link' = [link EXCEPT ![c] = IF Alone(c) THEN @ ELSE "down"]

EndWrite(c, x) == writing' = [writing EXCEPT ![c] = @ \ {x}]

(* The key of w enters harnessByUser when its session is a heavy one.      *)
Indexed(w, t) ==
  IF UserOf[w] # None /\ t = "heavy" THEN [byUser EXCEPT ![UserOf[w]] = w] ELSE byUser

(* The keys of the workers in S leave it, whomever the entries point at.   *)
Unindexed(S) ==
  [u \in Users |-> IF \E w \in S : harness[w] # None /\ UserOf[w] = u
                     THEN None ELSE byUser[u]]

(* Fault: ActiveJobs is not kept from going below zero.                    *)
ReleaseUnclamped(w) ==
  harness' = IF harness[w] = None THEN harness
             ELSE [harness EXCEPT ![w].activeJobs = @ - 1]

(* IncHarnessActiveJobs, by one and by minus one: in the Conn that is in   *)
(* the map now.                                                            *)
Acquire(w) ==
  harness' = IF harness[w] = None THEN harness
             ELSE [harness EXCEPT ![w].activeJobs = @ + 1]

Release(w) ==
  harness' = IF harness[w] = None THEN harness
             ELSE [harness EXCEPT ![w].activeJobs = IF @ > 0 THEN @ - 1 ELSE 0]

-----------------------------------------------------------------------------
(* handleHarnessConnect.                                                   *)

(* Upgrade and RegisterHarness: a fresh Conn, with no jobs, replaces the   *)
(* one of an earlier session of the worker.                                *)
RegisterHarness(c, t) ==
  LET w == WorkerOf[c] IN
  /\ stage[c] = "new"
  /\ stage' = [stage EXCEPT ![c] = "registered"]
  /\ harness' = [harness EXCEPT ![w] =
                   [conn |-> c, tier |-> t, providers |-> {}, maxConcurrent |-> 0, activeJobs |-> 0]]
  /\ byUser' = Indexed(w, t)
  /\ UNCHANGED <<link, writing, runVars, raced>>

(* conn.Send(harness_registered), whose error is ignored.                  *)
GreetingStarts(c) ==
  /\ stage[c] = "registered"
  /\ stage' = [stage EXCEPT ![c] = "greeting"]
  /\ BeginWrite(c, "greeting")
  /\ UNCHANGED <<harness, byUser, runVars, raced>>

GreetingEnds(c) ==
  /\ stage[c] = "greeting"
  /\ stage' = [stage EXCEPT ![c] = "reading"]
  /\ EndWrite(c, "greeting")
  /\ UNCHANGED <<link, harness, byUser, runVars, raced>>

(* Fault: the deferred function leaves the worker in Hub.harness.          *)
UnregisterHarnessIndexOnly(c) ==
  /\ \/ stage[c] = "reading" /\ link[c] = "down"
     \/ stage[c] = "registered" /\ ~Alone(c)
  /\ stage' = [stage EXCEPT ![c] = "leaving"]
  /\ byUser' = Unindexed({WorkerOf[c]})
  /\ UNCHANGED <<link, writing, harness, runVars, raced>>

(* The read loop ends, or the greeting panics: UnregisterHarness(workerID) *)
(* removes the worker, whichever session its entry belongs to.             *)
UnregisterHarness(c) ==
  /\ \/ stage[c] = "reading" /\ link[c] = "down"
     \/ stage[c] = "registered" /\ ~Alone(c)
  /\ stage' = [stage EXCEPT ![c] = "leaving"]
  /\ byUser' = Unindexed({WorkerOf[c]})
  /\ harness' = [harness EXCEPT ![WorkerOf[c]] = None]
  /\ UNCHANGED <<link, writing, runVars, raced>>

Close(c) ==
  /\ stage[c] = "leaving"
  /\ stage' = [stage EXCEPT ![c] = "gone"]
  /\ UNCHANGED <<link, writing, harness, byUser, runVars, raced>>

PeerCloses(c) ==
  /\ stage[c] \notin {"new", "leaving", "gone"}
  /\ link[c] = "up"
  /\ link' = [link EXCEPT ![c] = "down"]
  /\ UNCHANGED <<stage, writing, harness, byUser, runVars, raced>>

-----------------------------------------------------------------------------
(* Frames of the worker: dispatchHarnessInbound.                           *)

Readable(c) == stage[c] = "reading" /\ link[c] = "up"

(* MaxConcurrent as the picker reads it: zero counts as one.               *)
Limit(w) == IF harness[w].maxConcurrent > 0 THEN harness[w].maxConcurrent ELSE 1

(* harness_register: UpdateHarnessCapabilities of the worker that the      *)
(* frame names, in whatever Conn is in the map for it.                     *)
UpdateHarnessCapabilities(c, w, cap) ==
  LET newMax == IF cap.max > 0 THEN cap.max ELSE Limit(w) IN
  /\ Readable(c)
  /\ harness[w] # None
  /\ harness' = [harness EXCEPT ![w].tier = cap.tier,
                               ![w].providers = cap.providers,
                               ![w].maxConcurrent = newMax]
  /\ byUser' = Indexed(w, cap.tier)
  /\ raced' = [raced EXCEPT ![w] = @ \/ newMax < Limit(w)]
  /\ UNCHANGED <<connVars, runVars>>

(* harness_complete, once for every job, over any session of its worker:   *)
(* the slot is released, then a goroutine posts run-complete.              *)
Complete(c, r) ==
  /\ Readable(c)
  /\ job[r] = "arrived" /\ rworker[r] = WorkerOf[c]
  /\ Release(WorkerOf[c])
  /\ job' = [job EXCEPT ![r] = "completed"]
  /\ UNCHANGED <<connVars, byUser, rpc, rworker, rconn, status, raced>>

-----------------------------------------------------------------------------
(* The heartbeat goroutine.                                                *)

(* Fault: the sweep leaves harnessByUser alone.                            *)
SweepStaleKeepsIndex(S) ==
  /\ harness' = [w \in Workers |-> IF w \in S THEN None ELSE harness[w]]
  /\ UNCHANGED <<connVars, byUser, runVars, raced>>

(* sweepStale: the workers in S have been silent.  Their sockets stay open.*)
SweepStale(S) ==
  /\ byUser' = Unindexed(S)
  /\ harness' = [w \in Workers |-> IF w \in S THEN None ELSE harness[w]]
  /\ UNCHANGED <<connVars, runVars, raced>>

-----------------------------------------------------------------------------
(* handleHarnessPick.                                                      *)

(* harnessSupportsProvider: the list of the harness_register frame, or     *)
(* else the parameter of the URL, or else anything.                        *)
Supports(e, p) ==
  \/ p \in e.providers
  \/ e.providers = {} /\ (QueryProviders[e.conn] = {} \/ p \in QueryProviders[e.conn])

Load(w) == harness[w].activeJobs

(* What a pick asks for; None is an absent parameter.                      *)
Suits(w, t, p, k) ==
  /\ harness[w].tier = k
  /\ t = None \/ TenantOf[w] \in {t, None}
  /\ p = None \/ Supports(harness[w], p)

(* Fault: a worker is full only when it has more jobs than its limit.      *)
EligibleAtCapacity(t, p, k) ==
  {w \in Workers : harness[w] # None /\ Suits(w, t, p, k) /\ Load(w) <= Limit(w)}

(* The workers that PickSharedWorker does not skip.                        *)
Eligible(t, p, k) ==
  {w \in Workers : harness[w] # None /\ Suits(w, t, p, k) /\ Load(w) < Limit(w)}

(* The map is iterated in random order and a later worker must have a      *)
(* smaller load: any of the least loaded may win.                          *)
LeastLoaded(S) == {w \in S : \A v \in S : Load(w) <= Load(v)}

(* Runs on their way to w that are not in ActiveJobs yet.                  *)
Uncounted(w) == {r \in Runs : rworker[r] = w /\ rpc[r] \in {"picked", "found"}}

Addressed(r, w) ==
  /\ rworker' = [rworker EXCEPT ![r] = w]
  /\ rpc' = [rpc EXCEPT ![r] = "picked"]

(* The client asks for a worker.                                           *)
PickSharedWorker(r, t, p, k) ==
  /\ rpc[r] = "idle"
  /\ \E w \in LeastLoaded(Eligible(t, p, k)) :
       /\ Addressed(r, w)
       /\ raced' = [raced EXCEPT ![w] = @ \/ Uncounted(w) # {}]
  /\ UNCHANGED <<connVars, harness, byUser, rconn, status, job>>

(* The handler ends, and with it the reference to the session.             *)
Return(r, s) ==
  /\ rpc' = [rpc EXCEPT ![r] = "done"]
  /\ rconn' = [rconn EXCEPT ![r] = None]
  /\ status' = [status EXCEPT ![r] = s]

PickFindsNone(r, t, p, k) ==
  /\ rpc[r] = "idle"
  /\ Eligible(t, p, k) = {}
  /\ Return(r, "503")
  /\ UNCHANGED <<connVars, harness, byUser, rworker, job, raced>>

(* A client that knows its worker needs no pick.                           *)
AddressWorker(r, w) ==
  /\ rpc[r] = "idle"
  /\ Addressed(r, w)
  /\ raced' = [raced EXCEPT ![w] = TRUE]
  /\ UNCHANGED <<connVars, harness, byUser, rconn, status, job>>

-----------------------------------------------------------------------------
(* handleHarnessRun.                                                       *)

(* The handler keeps the session that it found.                            *)
GetHarness(r) ==
  LET e == harness[rworker[r]] IN
  /\ rpc[r] = "picked"
  /\ IF e = None THEN Return(r, "503")
     ELSE /\ rpc' = [rpc EXCEPT ![r] = "found"]
          /\ rconn' = [rconn EXCEPT ![r] = e.conn]
          /\ UNCHANGED status
  /\ UNCHANGED <<connVars, harness, byUser, rworker, job, raced>>

(* The body cannot be read or is not JSON.                                 *)
BodyFails(r) ==
  /\ rpc[r] = "found"
  /\ Return(r, "400")
  /\ UNCHANGED <<connVars, harness, byUser, rworker, job, raced>>

(* Fault: the handler leaves the counting to the worker.                   *)
IncActiveJobsForgotten(r) ==
  /\ rpc[r] = "found"
  /\ rpc' = [rpc EXCEPT ![r] = "counted"]
  /\ UNCHANGED <<connVars, harness, byUser, rworker, rconn, status, job, raced>>

(* IncHarnessActiveJobs(workerID, 1), before the Send.                     *)
IncActiveJobs(r) ==
  /\ rpc[r] = "found"
  /\ rpc' = [rpc EXCEPT ![r] = "counted"]
  /\ Acquire(rworker[r])
  /\ UNCHANGED <<connVars, byUser, rworker, rconn, status, job, raced>>

SendStarts(r) ==
  /\ rpc[r] = "counted"
  /\ rpc' = [rpc EXCEPT ![r] = "sending"]
  /\ BeginWrite(rconn[r], r)
  /\ UNCHANGED <<stage, harness, byUser, rworker, rconn, status, job, raced>>

(* The panic of a concurrent write ends the handler; net/http recovers it. *)
SendPanics(r) ==
  /\ rpc[r] = "counted"
  /\ ~Alone(rconn[r])
  /\ Return(r, "aborted")
  /\ UNCHANGED <<connVars, harness, byUser, rworker, job, raced>>

(* The frame reaches the worker before WriteMessage returns.               *)
RunArrives(r) ==
  /\ rpc[r] = "sending"
  /\ job[r] = "none"
  /\ link[rconn[r]] = "up"
  /\ job' = [job EXCEPT ![r] = "arrived"]
  /\ UNCHANGED <<connVars, harness, byUser, rpc, rworker, rconn, status, raced>>

(* WriteMessage returns nil when the kernel has taken the bytes, which may *)
(* never arrive.                                                           *)
SendSucceeds(r) ==
  /\ rpc[r] = "sending"
  /\ stage[rconn[r]] # "gone" \/ job[r] # "none"
  /\ EndWrite(rconn[r], r)
  /\ Return(r, "202")
  /\ job' = [job EXCEPT ![r] = IF @ = "none" /\ link[rconn[r]] = "up" THEN "arrived" ELSE @]
  /\ UNCHANGED <<stage, link, harness, byUser, rworker, raced>>

SendFails(r) ==
  /\ rpc[r] = "sending"
  /\ link[rconn[r]] = "down" \/ stage[rconn[r]] = "gone"
  /\ job[r] = "none"
  /\ EndWrite(rconn[r], r)
  /\ rpc' = [rpc EXCEPT ![r] = "failed"]
  /\ UNCHANGED <<stage, link, harness, byUser, rworker, rconn, status, job, raced>>

(* Fault: a job that could not be sent stays counted.                      *)
DecActiveJobsForgotten(r) ==
  /\ rpc[r] = "failed"
  /\ Return(r, "502")
  /\ UNCHANGED <<connVars, harness, byUser, rworker, job, raced>>

(* IncHarnessActiveJobs(workerID, -1).                                     *)
DecActiveJobs(r) ==
  /\ rpc[r] = "failed"
  /\ Release(rworker[r])
  /\ Return(r, "502")
  /\ UNCHANGED <<connVars, byUser, rworker, job, raced>>

-----------------------------------------------------------------------------
Handler(c) == \/ \E t \in LoginTiers : RegisterHarness(c, t)
              \/ GreetingStarts(c)
              \/ GreetingEnds(c)
              \/ UnregisterHarness(c)
              \/ Close(c)
              \/ PeerCloses(c)

Frames(c) == \/ \E w \in Workers, cap \in Capabilities : UpdateHarnessCapabilities(c, w, cap)
             \/ \E r \in Runs : Complete(c, r)

Monitor == \E S \in SUBSET {w \in Workers : harness[w] # None} : S # {} /\ SweepStale(S)

Client(r) == \/ \E t \in Tenants \cup {None}, p \in Providers \cup {None}, k \in Tiers \ {"none"} :
                  PickSharedWorker(r, t, p, k) \/ PickFindsNone(r, t, p, k)
             \/ \E w \in Workers : AddressWorker(r, w)

Run(r) == \/ GetHarness(r)
          \/ BodyFails(r)
          \/ IncActiveJobs(r)
          \/ SendStarts(r)
          \/ SendPanics(r)
          \/ RunArrives(r)
          \/ SendSucceeds(r)
          \/ SendFails(r)
          \/ DecActiveJobs(r)

Next == \/ \E c \in Conns : Handler(c) \/ Frames(c)
        \/ Monitor
        \/ \E r \in Runs : Client(r) \/ Run(r)

Spec == Init /\ [][Next]_vars

-----------------------------------------------------------------------------
(* Properties.                                                             *)

SessionsOf(w) == {c \in Conns : WorkerOf[c] = w}

(* Hub.harness never points at a session whose handler has unregistered:   *)
(* neither a pick nor GetHarness hands out a session that nobody reads.    *)
NoGhostWorker ==
  \A w \in Workers : harness[w] # None =>
    /\ WorkerOf[harness[w].conn] = w
    /\ stage[harness[w].conn] \in {"registered", "greeting", "reading"}

(* harnessByUser and harness are two maps with one truth: a user's entry   *)
(* names a worker of that user that is in Hub.harness, through             *)
(* registrations, capability updates, ends of old sessions and sweeps.     *)
UserIndexSound ==
  \A u \in Users : byUser[u] # None =>
    harness[byUser[u]] # None /\ UserOf[byUser[u]] = u

(* Runs that hold a slot of worker w: counted, and neither completed by    *)
(* the worker nor given back by the handler.  A handler that panicked in   *)
(* Send never gives its slot back.                                         *)
Open(w) ==
  {r \in Runs : /\ rworker[r] = w
                /\ \/ rpc[r] \in {"counted", "sending", "failed"}
                   \/ status[r] \in {"202", "aborted"}
                /\ job[r] # "completed"}

(* While a worker keeps its first session, ActiveJobs is exactly the       *)
(* number of runs that hold a slot: a completion that overtakes the return *)
(* of Send does not find a job uncounted, and by the time the orchestrator *)
(* hears of a completion the slot is free.                                 *)
LoadExact ==
  \A w \in Workers :
    (/\ harness[w] # None
     /\ \A d \in SessionsOf(w) \ {harness[w].conn} : stage[d] = "new")
    => Load(w) = Cardinality(Open(w))

(* A session that replaced another one starts from zero while runs of the  *)
(* old one finish: its load may be too small, never too large, so no       *)
(* worker stays full on account of runs that have ended.                   *)
LoadNeverStuck ==
  \A w \in Workers : harness[w] # None => Load(w) <= Cardinality(Open(w))

(* ActiveJobs over the whole life of a worker.                             *)
LoadSound == LoadExact /\ LoadNeverStuck

(* A worker has more jobs than its limit only if a client did not go       *)
(* through a pick, a second pick chose it before the run of the first was  *)
(* counted, or it lowered its own limit.                                   *)
CapacityWithoutRaces ==
  \A w \in Workers : harness[w] # None /\ ~raced[w] => Load(w) <= Limit(w)
=============================================================================
