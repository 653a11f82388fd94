------------------------- MODULE HarnessRelayProofs --------------------------
(***************************************************************************)
(* Invariants of the harness relay for any number of workers, sessions,    *)
(* users and runs: the types, the sessions that Hub.harness may hold, the  *)
(* agreement of its two maps, and the load that the picker reads.          *)
(***************************************************************************)
EXTENDS HarnessRelay, FiniteSetTheorems, TLAPS

USE WorkerOfAssumption, OwnerAssumption, ProviderAssumption, FrameAssumption, NoneAssumption
USE DEF connVars, runVars, Entries, Tiers

(* A run on its way has a worker to go to.                                 *)
RunsAddressed ==
  \A r \in Runs : rpc[r] \notin {"idle", "done"} => rworker[r] \in Workers

(* The Hub at start: both maps are empty.                                  *)
LEMMA InitInv == Init => TypeOK /\ RunsAddressed /\ NoGhostWorker /\ UserIndexSound
BY DEF Init, TypeOK, RunsAddressed, NoGhostWorker, UserIndexSound

(* Every action keeps the types; Release never goes below zero.            *)
LEMMA TypeStep ==
  ASSUME TypeOK, RunsAddressed, [Next]_vars
  PROVE  TypeOK'
<1>1. ASSUME NEW c \in Conns, NEW t \in LoginTiers, RegisterHarness(c, t) PROVE TypeOK'
  BY <1>1 DEF RegisterHarness, Indexed, TypeOK
<1>2. ASSUME NEW c \in Conns, GreetingStarts(c) PROVE TypeOK'
  BY <1>2 DEF GreetingStarts, BeginWrite, TypeOK
<1>3. ASSUME NEW c \in Conns, GreetingEnds(c) PROVE TypeOK'
  BY <1>3 DEF GreetingEnds, EndWrite, TypeOK
<1>4. ASSUME NEW c \in Conns, UnregisterHarness(c) PROVE TypeOK'
  BY <1>4 DEF UnregisterHarness, Unindexed, TypeOK
<1>5. ASSUME NEW c \in Conns, Close(c) PROVE TypeOK'
  BY <1>5 DEF Close, TypeOK
<1>6. ASSUME NEW c \in Conns, PeerCloses(c) PROVE TypeOK'
  BY <1>6 DEF PeerCloses, TypeOK
<1>7. ASSUME NEW c \in Conns, NEW w \in Workers, NEW cap \in Capabilities,
             UpdateHarnessCapabilities(c, w, cap)
      PROVE  TypeOK'
  <2> DEFINE newMax == IF cap.max > 0 THEN cap.max ELSE Limit(w)
  <2>1. harness[w] \in Entries
    BY <1>7 DEF UpdateHarnessCapabilities, TypeOK
  <2>2. newMax \in Nat /\ cap.tier \in Tiers /\ cap.providers \in SUBSET Providers
    BY <2>1 DEF Limit
  <2>3. harness' = [harness EXCEPT ![w] = [harness[w] EXCEPT
                      !.tier = cap.tier, !.providers = cap.providers, !.maxConcurrent = newMax]]
    BY <1>7, <2>1 DEF UpdateHarnessCapabilities, TypeOK
  <2>4. [harness[w] EXCEPT !.tier = cap.tier, !.providers = cap.providers,
                           !.maxConcurrent = newMax] \in Entries
    BY <2>1, <2>2
  <2>5. harness' \in [Workers -> Entries \cup {None}]
    BY <2>3, <2>4 DEF TypeOK
  <2>6. byUser' \in [Users -> Workers \cup {None}]
    BY <1>7 DEF UpdateHarnessCapabilities, Indexed, TypeOK
  <2>7. raced' \in [Workers -> BOOLEAN]
    <3>1. raced' = [raced EXCEPT ![w] = raced[w] \/ newMax < Limit(w)]
      BY <1>7 DEF UpdateHarnessCapabilities
    <3>2. (raced[w] \/ newMax < Limit(w)) \in BOOLEAN
      OBVIOUS
    <3> QED BY <3>1, <3>2 DEF TypeOK
  <2> QED BY <1>7, <2>5, <2>6, <2>7 DEF UpdateHarnessCapabilities, TypeOK
<1>8. ASSUME NEW c \in Conns, NEW r \in Runs, Complete(c, r) PROVE TypeOK'
  BY <1>8 DEF Complete, Release, TypeOK
<1>9. ASSUME NEW S \in SUBSET Workers, SweepStale(S) PROVE TypeOK'
  BY <1>9 DEF SweepStale, Unindexed, TypeOK
<1>10. ASSUME NEW r \in Runs, NEW t, NEW p, NEW k, PickSharedWorker(r, t, p, k) PROVE TypeOK'
  BY <1>10 DEF PickSharedWorker, LeastLoaded, Eligible, Addressed, TypeOK
<1>11. ASSUME NEW r \in Runs, NEW t, NEW p, NEW k, PickFindsNone(r, t, p, k) PROVE TypeOK'
  BY <1>11 DEF PickFindsNone, Return, TypeOK
<1>12. ASSUME NEW r \in Runs, NEW w \in Workers, AddressWorker(r, w) PROVE TypeOK'
  BY <1>12 DEF AddressWorker, Addressed, TypeOK
<1>13. ASSUME NEW r \in Runs, GetHarness(r) PROVE TypeOK'
  <2>1. rworker[r] \in Workers
    BY <1>13 DEF GetHarness, RunsAddressed
  <2>2. harness[rworker[r]] \in Entries \cup {None}
    BY <2>1 DEF TypeOK
  <2> QED BY <1>13, <2>2 DEF GetHarness, Return, TypeOK
<1>14. ASSUME NEW r \in Runs, BodyFails(r) PROVE TypeOK'
  BY <1>14 DEF BodyFails, Return, TypeOK
<1>15. ASSUME NEW r \in Runs, IncActiveJobs(r) PROVE TypeOK'
  <2>1. rworker[r] \in Workers
    BY <1>15 DEF IncActiveJobs, RunsAddressed
  <2> QED BY <1>15, <2>1 DEF IncActiveJobs, Acquire, TypeOK
<1>16. ASSUME NEW r \in Runs, SendStarts(r) PROVE TypeOK'
  BY <1>16 DEF SendStarts, BeginWrite, TypeOK
<1>17. ASSUME NEW r \in Runs, SendPanics(r) PROVE TypeOK'
  BY <1>17 DEF SendPanics, Return, TypeOK
<1>18. ASSUME NEW r \in Runs, RunArrives(r) PROVE TypeOK'
  BY <1>18 DEF RunArrives, TypeOK
<1>19. ASSUME NEW r \in Runs, SendSucceeds(r) PROVE TypeOK'
  BY <1>19 DEF SendSucceeds, EndWrite, Return, TypeOK
<1>20. ASSUME NEW r \in Runs, SendFails(r) PROVE TypeOK'
  BY <1>20 DEF SendFails, EndWrite, TypeOK
<1>21. ASSUME NEW r \in Runs, DecActiveJobs(r) PROVE TypeOK'
  <2>1. rworker[r] \in Workers
    BY <1>21 DEF DecActiveJobs, RunsAddressed
  <2> QED BY <1>21, <2>1 DEF DecActiveJobs, Release, Return, TypeOK
<1>22. CASE UNCHANGED vars
  BY <1>22 DEF vars, TypeOK
<1> HIDE DEF TypeOK
<1> QED
  BY <1>1, <1>2, <1>3, <1>4, <1>5, <1>6, <1>7, <1>8, <1>9, <1>10, <1>11,
     <1>12, <1>13, <1>14, <1>15, <1>16, <1>17, <1>18, <1>19, <1>20, <1>21,
     <1>22 DEF Next, Handler, Frames, Monitor, Client, Run

(* A run gets its worker before it gets anywhere, and keeps it.            *)
LEMMA RunsAddressedStep ==
  ASSUME TypeOK, RunsAddressed, [Next]_vars
  PROVE  RunsAddressed'
<1>1. ASSUME NEW c \in Conns, NEW t \in LoginTiers, RegisterHarness(c, t) PROVE RunsAddressed'
  BY <1>1 DEF RegisterHarness, Indexed, RunsAddressed, TypeOK
<1>2. ASSUME NEW c \in Conns, GreetingStarts(c) PROVE RunsAddressed'
  BY <1>2 DEF GreetingStarts, BeginWrite, RunsAddressed, TypeOK
<1>3. ASSUME NEW c \in Conns, GreetingEnds(c) PROVE RunsAddressed'
  BY <1>3 DEF GreetingEnds, EndWrite, RunsAddressed, TypeOK
<1>4. ASSUME NEW c \in Conns, UnregisterHarness(c) PROVE RunsAddressed'
  BY <1>4 DEF UnregisterHarness, Unindexed, RunsAddressed, TypeOK
<1>5. ASSUME NEW c \in Conns, Close(c) PROVE RunsAddressed'
  BY <1>5 DEF Close, RunsAddressed, TypeOK
<1>6. ASSUME NEW c \in Conns, PeerCloses(c) PROVE RunsAddressed'
  BY <1>6 DEF PeerCloses, RunsAddressed, TypeOK
<1>7. ASSUME NEW c \in Conns, NEW w \in Workers, NEW cap \in Capabilities,
             UpdateHarnessCapabilities(c, w, cap)
      PROVE  RunsAddressed'
  BY <1>7 DEF UpdateHarnessCapabilities, Indexed, Limit, RunsAddressed, TypeOK
<1>8. ASSUME NEW c \in Conns, NEW r \in Runs, Complete(c, r) PROVE RunsAddressed'
  BY <1>8 DEF Complete, Release, RunsAddressed, TypeOK
<1>9. ASSUME NEW S \in SUBSET Workers, SweepStale(S) PROVE RunsAddressed'
  BY <1>9 DEF SweepStale, Unindexed, RunsAddressed, TypeOK
<1>10. ASSUME NEW r \in Runs, NEW t, NEW p, NEW k, PickSharedWorker(r, t, p, k)
       PROVE  RunsAddressed'
  BY <1>10 DEF PickSharedWorker, LeastLoaded, Eligible, Addressed, RunsAddressed, TypeOK
<1>11. ASSUME NEW r \in Runs, NEW t, NEW p, NEW k, PickFindsNone(r, t, p, k)
       PROVE  RunsAddressed'
  BY <1>11 DEF PickFindsNone, Return, RunsAddressed, TypeOK
<1>12. ASSUME NEW r \in Runs, NEW w \in Workers, AddressWorker(r, w) PROVE RunsAddressed'
  BY <1>12 DEF AddressWorker, Addressed, RunsAddressed, TypeOK
<1>13. ASSUME NEW r \in Runs, GetHarness(r) PROVE RunsAddressed'
  BY <1>13 DEF GetHarness, Return, RunsAddressed, TypeOK
<1>14. ASSUME NEW r \in Runs, BodyFails(r) PROVE RunsAddressed'
  BY <1>14 DEF BodyFails, Return, RunsAddressed, TypeOK
<1>15. ASSUME NEW r \in Runs, IncActiveJobs(r) PROVE RunsAddressed'
  BY <1>15 DEF IncActiveJobs, Acquire, RunsAddressed, TypeOK
<1>16. ASSUME NEW r \in Runs, SendStarts(r) PROVE RunsAddressed'
  BY <1>16 DEF SendStarts, BeginWrite, RunsAddressed, TypeOK
<1>17. ASSUME NEW r \in Runs, SendPanics(r) PROVE RunsAddressed'
  BY <1>17 DEF SendPanics, Return, RunsAddressed, TypeOK
<1>18. ASSUME NEW r \in Runs, RunArrives(r) PROVE RunsAddressed'
  BY <1>18 DEF RunArrives, RunsAddressed, TypeOK
<1>19. ASSUME NEW r \in Runs, SendSucceeds(r) PROVE RunsAddressed'
  BY <1>19 DEF SendSucceeds, EndWrite, Return, RunsAddressed, TypeOK
<1>20. ASSUME NEW r \in Runs, SendFails(r) PROVE RunsAddressed'
  BY <1>20 DEF SendFails, EndWrite, RunsAddressed, TypeOK
<1>21. ASSUME NEW r \in Runs, DecActiveJobs(r) PROVE RunsAddressed'
  BY <1>21 DEF DecActiveJobs, Release, Return, RunsAddressed, TypeOK
<1>22. CASE UNCHANGED vars
  BY <1>22 DEF vars, RunsAddressed, TypeOK
<1> HIDE DEF RunsAddressed
<1> QED
  BY <1>1, <1>2, <1>3, <1>4, <1>5, <1>6, <1>7, <1>8, <1>9, <1>10, <1>11,
     <1>12, <1>13, <1>14, <1>15, <1>16, <1>17, <1>18, <1>19, <1>20, <1>21,
     <1>22 DEF Next, Handler, Frames, Monitor, Client, Run

(* A session enters the map when it registers, and the step that makes it  *)
(* leave clears the entry of its worker.                                   *)
LEMMA NoGhostStep ==
  ASSUME TypeOK, NoGhostWorker, [Next]_vars
  PROVE  NoGhostWorker'
<1>1. ASSUME NEW c \in Conns, NEW t \in LoginTiers, RegisterHarness(c, t) PROVE NoGhostWorker'
  BY <1>1 DEF RegisterHarness, Indexed, NoGhostWorker, TypeOK
<1>2. ASSUME NEW c \in Conns, GreetingStarts(c) PROVE NoGhostWorker'
  BY <1>2 DEF GreetingStarts, BeginWrite, NoGhostWorker, TypeOK
<1>3. ASSUME NEW c \in Conns, GreetingEnds(c) PROVE NoGhostWorker'
  BY <1>3 DEF GreetingEnds, EndWrite, NoGhostWorker, TypeOK
<1>4. ASSUME NEW c \in Conns, UnregisterHarness(c) PROVE NoGhostWorker'
  BY <1>4 DEF UnregisterHarness, Unindexed, NoGhostWorker, TypeOK
<1>5. ASSUME NEW c \in Conns, Close(c) PROVE NoGhostWorker'
  BY <1>5 DEF Close, NoGhostWorker, TypeOK
<1>6. ASSUME NEW c \in Conns, PeerCloses(c) PROVE NoGhostWorker'
  BY <1>6 DEF PeerCloses, NoGhostWorker, TypeOK
<1>7. ASSUME NEW c \in Conns, NEW w \in Workers, NEW cap \in Capabilities,
             UpdateHarnessCapabilities(c, w, cap)
      PROVE  NoGhostWorker'
  BY <1>7 DEF UpdateHarnessCapabilities, Indexed, Limit, NoGhostWorker, TypeOK
<1>8. ASSUME NEW c \in Conns, NEW r \in Runs, Complete(c, r) PROVE NoGhostWorker'
  BY <1>8 DEF Complete, Release, NoGhostWorker, TypeOK
<1>9. ASSUME NEW S \in SUBSET Workers, SweepStale(S) PROVE NoGhostWorker'
  BY <1>9 DEF SweepStale, Unindexed, NoGhostWorker, TypeOK
<1>10. ASSUME NEW r \in Runs, NEW t, NEW p, NEW k, PickSharedWorker(r, t, p, k)
       PROVE  NoGhostWorker'
  BY <1>10 DEF PickSharedWorker, LeastLoaded, Eligible, Addressed, NoGhostWorker, TypeOK
<1>11. ASSUME NEW r \in Runs, NEW t, NEW p, NEW k, PickFindsNone(r, t, p, k)
       PROVE  NoGhostWorker'
  BY <1>11 DEF PickFindsNone, Return, NoGhostWorker, TypeOK
<1>12. ASSUME NEW r \in Runs, NEW w \in Workers, AddressWorker(r, w) PROVE NoGhostWorker'
  BY <1>12 DEF AddressWorker, Addressed, NoGhostWorker, TypeOK
<1>13. ASSUME NEW r \in Runs, GetHarness(r) PROVE NoGhostWorker'
  BY <1>13 DEF GetHarness, Return, NoGhostWorker, TypeOK
<1>14. ASSUME NEW r \in Runs, BodyFails(r) PROVE NoGhostWorker'
  BY <1>14 DEF BodyFails, Return, NoGhostWorker, TypeOK
<1>15. ASSUME NEW r \in Runs, IncActiveJobs(r) PROVE NoGhostWorker'
  BY <1>15 DEF IncActiveJobs, Acquire, NoGhostWorker, TypeOK
<1>16. ASSUME NEW r \in Runs, SendStarts(r) PROVE NoGhostWorker'
  BY <1>16 DEF SendStarts, BeginWrite, NoGhostWorker, TypeOK
<1>17. ASSUME NEW r \in Runs, SendPanics(r) PROVE NoGhostWorker'
  BY <1>17 DEF SendPanics, Return, NoGhostWorker, TypeOK
<1>18. ASSUME NEW r \in Runs, RunArrives(r) PROVE NoGhostWorker'
  BY <1>18 DEF RunArrives, NoGhostWorker, TypeOK
<1>19. ASSUME NEW r \in Runs, SendSucceeds(r) PROVE NoGhostWorker'
  BY <1>19 DEF SendSucceeds, EndWrite, Return, NoGhostWorker, TypeOK
<1>20. ASSUME NEW r \in Runs, SendFails(r) PROVE NoGhostWorker'
  BY <1>20 DEF SendFails, EndWrite, NoGhostWorker, TypeOK
<1>21. ASSUME NEW r \in Runs, DecActiveJobs(r) PROVE NoGhostWorker'
  BY <1>21 DEF DecActiveJobs, Release, Return, NoGhostWorker, TypeOK
<1>22. CASE UNCHANGED vars
  BY <1>22 DEF vars, NoGhostWorker, TypeOK
<1> HIDE DEF NoGhostWorker
<1> QED
  BY <1>1, <1>2, <1>3, <1>4, <1>5, <1>6, <1>7, <1>8, <1>9, <1>10, <1>11,
     <1>12, <1>13, <1>14, <1>15, <1>16, <1>17, <1>18, <1>19, <1>20, <1>21,
     <1>22 DEF Next, Handler, Frames, Monitor, Client, Run

(* Whoever leaves Hub.harness takes the key of its user along.             *)
LEMMA UserIndexStep ==
  ASSUME TypeOK, UserIndexSound, [Next]_vars
  PROVE  UserIndexSound'
<1>1. ASSUME NEW c \in Conns, NEW t \in LoginTiers, RegisterHarness(c, t) PROVE UserIndexSound'
  <2> DEFINE w == WorkerOf[c]
  <2>1. w \in Workers /\ harness'[w] \in Entries
    BY <1>1 DEF RegisterHarness, TypeOK
  <2>2. \A v \in Workers \ {w} : harness'[v] = harness[v]
    BY <1>1 DEF RegisterHarness, TypeOK
  <2>3. \A u \in Users : byUser'[u] # byUser[u] => byUser'[u] = w /\ UserOf[w] = u
    BY <1>1 DEF RegisterHarness, Indexed, TypeOK
  <2> QED BY <2>1, <2>2, <2>3 DEF UserIndexSound, TypeOK
<1>2. ASSUME NEW c \in Conns, GreetingStarts(c) PROVE UserIndexSound'
  BY <1>2 DEF GreetingStarts, BeginWrite, UserIndexSound, TypeOK
<1>3. ASSUME NEW c \in Conns, GreetingEnds(c) PROVE UserIndexSound'
  BY <1>3 DEF GreetingEnds, EndWrite, UserIndexSound, TypeOK
<1>4. ASSUME NEW c \in Conns, UnregisterHarness(c) PROVE UserIndexSound'
  BY <1>4 DEF UnregisterHarness, Unindexed, UserIndexSound, TypeOK
<1>5. ASSUME NEW c \in Conns, Close(c) PROVE UserIndexSound'
  BY <1>5 DEF Close, UserIndexSound, TypeOK
<1>6. ASSUME NEW c \in Conns, PeerCloses(c) PROVE UserIndexSound'
  BY <1>6 DEF PeerCloses, UserIndexSound, TypeOK
<1>7. ASSUME NEW c \in Conns, NEW w \in Workers, NEW cap \in Capabilities,
             UpdateHarnessCapabilities(c, w, cap)
      PROVE  UserIndexSound'
  BY <1>7 DEF UpdateHarnessCapabilities, Indexed, Limit, UserIndexSound, TypeOK
<1>8. ASSUME NEW c \in Conns, NEW r \in Runs, Complete(c, r) PROVE UserIndexSound'
  BY <1>8 DEF Complete, Release, UserIndexSound, TypeOK
<1>9. ASSUME NEW S \in SUBSET Workers, SweepStale(S) PROVE UserIndexSound'
  BY <1>9 DEF SweepStale, Unindexed, UserIndexSound, TypeOK
<1>10. ASSUME NEW r \in Runs, NEW t, NEW p, NEW k, PickSharedWorker(r, t, p, k)
       PROVE  UserIndexSound'
  BY <1>10 DEF PickSharedWorker, LeastLoaded, Eligible, Addressed, UserIndexSound, TypeOK
<1>11. ASSUME NEW r \in Runs, NEW t, NEW p, NEW k, PickFindsNone(r, t, p, k)
       PROVE  UserIndexSound'
  BY <1>11 DEF PickFindsNone, Return, UserIndexSound, TypeOK
<1>12. ASSUME NEW r \in Runs, NEW w \in Workers, AddressWorker(r, w) PROVE UserIndexSound'
  BY <1>12 DEF AddressWorker, Addressed, UserIndexSound, TypeOK
<1>13. ASSUME NEW r \in Runs, GetHarness(r) PROVE UserIndexSound'
  BY <1>13 DEF GetHarness, Return, UserIndexSound, TypeOK
<1>14. ASSUME NEW r \in Runs, BodyFails(r) PROVE UserIndexSound'
  BY <1>14 DEF BodyFails, Return, UserIndexSound, TypeOK
<1>15. ASSUME NEW r \in Runs, IncActiveJobs(r) PROVE UserIndexSound'
  BY <1>15 DEF IncActiveJobs, Acquire, UserIndexSound, TypeOK
<1>16. ASSUME NEW r \in Runs, SendStarts(r) PROVE UserIndexSound'
  BY <1>16 DEF SendStarts, BeginWrite, UserIndexSound, TypeOK
<1>17. ASSUME NEW r \in Runs, SendPanics(r) PROVE UserIndexSound'
  BY <1>17 DEF SendPanics, Return, UserIndexSound, TypeOK
<1>18. ASSUME NEW r \in Runs, RunArrives(r) PROVE UserIndexSound'
  BY <1>18 DEF RunArrives, UserIndexSound, TypeOK
<1>19. ASSUME NEW r \in Runs, SendSucceeds(r) PROVE UserIndexSound'
  BY <1>19 DEF SendSucceeds, EndWrite, Return, UserIndexSound, TypeOK
<1>20. ASSUME NEW r \in Runs, SendFails(r) PROVE UserIndexSound'
  BY <1>20 DEF SendFails, EndWrite, UserIndexSound, TypeOK
<1>21. ASSUME NEW r \in Runs, DecActiveJobs(r) PROVE UserIndexSound'
  BY <1>21 DEF DecActiveJobs, Release, Return, UserIndexSound, TypeOK
<1>22. CASE UNCHANGED vars
  BY <1>22 DEF vars, UserIndexSound, TypeOK
<1> HIDE DEF UserIndexSound
<1> QED
  BY <1>1, <1>2, <1>3, <1>4, <1>5, <1>6, <1>7, <1>8, <1>9, <1>10, <1>11,
     <1>12, <1>13, <1>14, <1>15, <1>16, <1>17, <1>18, <1>19, <1>20, <1>21,
     <1>22 DEF Next, Handler, Frames, Monitor, Client, Run

HarnessInv == TypeOK /\ RunsAddressed /\ NoGhostWorker /\ UserIndexSound

(* The facts hold in every reachable state.                                *)
LEMMA HarnessInvariance == Spec => []HarnessInv
<1>1. Init => HarnessInv
  BY InitInv DEF HarnessInv
<1>2. HarnessInv /\ [Next]_vars => HarnessInv'
  BY TypeStep, RunsAddressedStep, NoGhostStep, UserIndexStep DEF HarnessInv
<1> QED BY <1>1, <1>2, PTL DEF Spec

(* Conns, maps and runs keep their types; ActiveJobs is never negative.    *)
THEOREM HarnessTypeCorrect == Spec => []TypeOK
<1>1. HarnessInv => TypeOK
  BY DEF HarnessInv
<1> QED BY <1>1, HarnessInvariance, PTL

(* Neither a pick nor GetHarness can hand out a session whose handler has  *)
(* unregistered, however sessions, sweeps and runs interleave.             *)
THEOREM NoGhostWorkers == Spec => []NoGhostWorker
<1>1. HarnessInv => NoGhostWorker
  BY DEF HarnessInv
<1> QED BY <1>1, HarnessInvariance, PTL

(* harnessByUser never dangles: its entries name workers in Hub.harness,   *)
(* of the right user.                                                      *)
THEOREM UserIndexStaysSound == Spec => []UserIndexSound
<1>1. HarnessInv => UserIndexSound
  BY DEF HarnessInv
<1> QED BY <1>1, HarnessInvariance, PTL

-----------------------------------------------------------------------------
(***************************************************************************)
(* The load that the picker reads, for any number of workers, sessions and *)
(* runs: ActiveJobs against the runs that hold a slot.  Every step leaves  *)
(* both alone, raises both, or lowers both, except that a load can stay at *)
(* zero after a session was replaced; LoadSound follows by counting.       *)
(***************************************************************************)
USE RunsAssumption
USE DEF SessionsOf
HIDE DEF Entries, Tiers

(* A run's status, its job and its place agree; once it has found its      *)
(* worker, the worker has had a session.                                   *)
RunsInOrder ==
  \A r \in Runs :
    /\ rpc[r] # "done" => status[r] = None
    /\ rpc[r] \in {"idle", "picked", "found", "counted", "failed"} => job[r] = "none"
    /\ job[r] = "arrived" => rpc[r] = "sending" \/ status[r] = "202"
    /\ rpc[r] \in {"found", "counted", "sending", "failed"} \/ status[r] \in {"202", "aborted"}
         => \E d \in Conns : WorkerOf[d] = rworker[r] /\ stage[d] # "new"

(* Nothing of what the two facts of a load depend on has changed for w.    *)
SameLoad(w) ==
  /\ Open(w)' = Open(w)
  /\ harness'[w] # None =>
       /\ harness[w] # None
       /\ harness'[w].conn = harness[w].conn
       /\ harness'[w].activeJobs = harness[w].activeJobs

SoundLoad(w) ==
  harness[w] # None =>
    /\ Load(w) <= Cardinality(Open(w))
    /\ (\A d \in SessionsOf(w) \ {harness[w].conn} : stage[d] = "new")
         => Load(w) = Cardinality(Open(w))

(* The two facts of LoadSound, worker by worker.                           *)
LEMMA ByWorker == LoadSound <=> \A w \in Workers : SoundLoad(w)
BY DEF LoadSound, LoadExact, LoadNeverStuck, SoundLoad

LEMMA SlotsFinite == ASSUME NEW w PROVE IsFiniteSet(Open(w)) /\ Cardinality(Open(w)) \in Nat
<1>1. Open(w) \in SUBSET Runs
  BY DEF Open
<1> QED BY <1>1, FS_Subset, FS_CardinalityType

(* A session that has begun never is new again.                            *)
LEMMA StillBegun ==
  ASSUME TypeOK, [Next]_vars, NEW d \in Conns, stage'[d] = "new"
  PROVE  stage[d] = "new"
BY DEF TypeOK, Next, Handler, Frames, Monitor, Client, Run, RegisterHarness, GreetingStarts,
   GreetingEnds, UnregisterHarness, Close, PeerCloses, UpdateHarnessCapabilities, Complete,
   SweepStale, PickSharedWorker, PickFindsNone, AddressWorker, GetHarness, BodyFails,
   IncActiveJobs, SendStarts, SendPanics, RunArrives, SendSucceeds, SendFails,
   DecActiveJobs, vars

LEMMA SameLoadSound ==
  ASSUME TypeOK, [Next]_vars, NEW w \in Workers, SoundLoad(w), SameLoad(w)
  PROVE  SoundLoad(w)'
BY StillBegun DEF SoundLoad, SameLoad, Load

(* A run is counted: one slot more, one job more.                          *)
LEMMA MoreLoadSound ==
  ASSUME TypeOK, [Next]_vars, NEW w \in Workers, SoundLoad(w),
         NEW r \in Runs, r \notin Open(w), Open(w)' = Open(w) \cup {r},
         harness'[w] # None =>
           /\ harness[w] # None
           /\ harness'[w].conn = harness[w].conn
           /\ harness'[w].activeJobs = harness[w].activeJobs + 1
  PROVE  SoundLoad(w)'
<1>1. Cardinality(Open(w))' = Cardinality(Open(w)) + 1 /\ Cardinality(Open(w)) \in Nat
  BY SlotsFinite, FS_AddElement
<1>2. harness[w] # None => Load(w) \in Nat
  BY DEF TypeOK, Load, Entries
<1> QED BY <1>1, <1>2, StillBegun DEF SoundLoad, Load

(* A slot is given back: by the worker, or by the handler.                 *)
LEMMA LessLoadSound ==
  ASSUME TypeOK, [Next]_vars, NEW w \in Workers, SoundLoad(w),
         NEW r \in Open(w), Open(w)' = Open(w) \ {r},
         harness'[w] # None =>
           /\ harness[w] # None
           /\ harness'[w].conn = harness[w].conn
           /\ harness'[w].activeJobs =
                IF harness[w].activeJobs > 0 THEN harness[w].activeJobs - 1 ELSE 0
  PROVE  SoundLoad(w)'
<1>1. Cardinality(Open(w))' = Cardinality(Open(w)) - 1 /\ Cardinality(Open(w)) \in Nat \ {0}
  BY SlotsFinite, FS_RemoveElement, FS_EmptySet
<1>2. harness[w] # None => Load(w) \in Nat
  BY DEF TypeOK, Load, Entries
<1> QED BY <1>1, <1>2, StillBegun DEF SoundLoad, Load

(* Every action keeps the order of a run's states.                         *)
LEMMA RunsInOrderStep ==
  ASSUME TypeOK, RunsAddressed, NoGhostWorker, RunsInOrder, [Next]_vars
  PROVE  RunsInOrder'
<1> USE DEF TypeOK, RunsInOrder
<1>1. ASSUME NEW c \in Conns, NEW t \in LoginTiers, RegisterHarness(c, t) PROVE RunsInOrder'
  BY <1>1 DEF RegisterHarness
<1>2. ASSUME NEW c \in Conns, GreetingStarts(c) PROVE RunsInOrder'
  BY <1>2 DEF GreetingStarts, BeginWrite
<1>3. ASSUME NEW c \in Conns, GreetingEnds(c) PROVE RunsInOrder'
  BY <1>3 DEF GreetingEnds, EndWrite
<1>4. ASSUME NEW c \in Conns, UnregisterHarness(c) PROVE RunsInOrder'
  BY <1>4 DEF UnregisterHarness
<1>5. ASSUME NEW c \in Conns, Close(c) PROVE RunsInOrder'
  BY <1>5 DEF Close
<1>6. ASSUME NEW c \in Conns, PeerCloses(c) PROVE RunsInOrder'
  BY <1>6 DEF PeerCloses
<1>7. ASSUME NEW c \in Conns, NEW w \in Workers, NEW cap \in Capabilities,
             UpdateHarnessCapabilities(c, w, cap)
      PROVE  RunsInOrder'
  BY <1>7 DEF UpdateHarnessCapabilities
<1>8. ASSUME NEW c \in Conns, NEW r \in Runs, Complete(c, r) PROVE RunsInOrder'
  BY <1>8 DEF Complete
<1>9. ASSUME NEW S \in SUBSET Workers, SweepStale(S) PROVE RunsInOrder'
  BY <1>9 DEF SweepStale
<1>10. ASSUME NEW r \in Runs, NEW t, NEW p, NEW k, PickSharedWorker(r, t, p, k)
       PROVE  RunsInOrder'
  BY <1>10 DEF PickSharedWorker, Addressed
<1>11. ASSUME NEW r \in Runs, NEW t, NEW p, NEW k, PickFindsNone(r, t, p, k) PROVE RunsInOrder'
  BY <1>11 DEF PickFindsNone, Return
<1>12. ASSUME NEW r \in Runs, NEW w \in Workers, AddressWorker(r, w) PROVE RunsInOrder'
  BY <1>12 DEF AddressWorker, Addressed
<1>13. ASSUME NEW r \in Runs, GetHarness(r) PROVE RunsInOrder'
  <2> DEFINE e == harness[rworker[r]]
  <2>1. rworker[r] \in Workers
    BY <1>13 DEF GetHarness, RunsAddressed
  <2>2. CASE e = None
    BY <1>13, <2>2 DEF GetHarness, Return
  <2>3. CASE e # None
    <3>1. e.conn \in Conns /\ WorkerOf[e.conn] = rworker[r] /\ stage[e.conn] # "new"
      BY <2>1, <2>3 DEF NoGhostWorker, Entries
    <3> QED BY <1>13, <2>3, <3>1 DEF GetHarness
  <2> QED BY <2>2, <2>3
<1>14. ASSUME NEW r \in Runs, BodyFails(r) PROVE RunsInOrder'
  BY <1>14 DEF BodyFails, Return
<1>15. ASSUME NEW r \in Runs, IncActiveJobs(r) PROVE RunsInOrder'
  BY <1>15 DEF IncActiveJobs
<1>16. ASSUME NEW r \in Runs, SendStarts(r) PROVE RunsInOrder'
  BY <1>16 DEF SendStarts, BeginWrite
<1>17. ASSUME NEW r \in Runs, SendPanics(r) PROVE RunsInOrder'
  BY <1>17 DEF SendPanics, Return
<1>18. ASSUME NEW r \in Runs, RunArrives(r) PROVE RunsInOrder'
  BY <1>18 DEF RunArrives
<1>19. ASSUME NEW r \in Runs, SendSucceeds(r) PROVE RunsInOrder'
  BY <1>19 DEF SendSucceeds, EndWrite, Return
<1>20. ASSUME NEW r \in Runs, SendFails(r) PROVE RunsInOrder'
  BY <1>20 DEF SendFails, EndWrite
<1>21. ASSUME NEW r \in Runs, DecActiveJobs(r) PROVE RunsInOrder'
  BY <1>21 DEF DecActiveJobs, Return
<1>22. CASE UNCHANGED vars
  BY <1>22 DEF vars
<1> HIDE DEF TypeOK, RunsInOrder
<1> QED
  BY <1>1, <1>2, <1>3, <1>4, <1>5, <1>6, <1>7, <1>8, <1>9, <1>10, <1>11,
     <1>12, <1>13, <1>14, <1>15, <1>16, <1>17, <1>18, <1>19, <1>20, <1>21,
     <1>22
     DEF Next, Handler, Frames, Monitor, Client, Run

(* IncHarnessActiveJobs(workerID, -1) on the Conn in the map.              *)
LEMMA Released ==
  ASSUME TypeOK, NEW w \in Workers, Release(w), harness'[w] # None
  PROVE  /\ harness[w] # None
         /\ harness'[w].conn = harness[w].conn
         /\ harness'[w].activeJobs =
              IF harness[w].activeJobs > 0 THEN harness[w].activeJobs - 1 ELSE 0
<1>1. harness[w] # None
  BY DEF Release
<1>2. harness[w] \in Entries
  BY <1>1 DEF TypeOK
<1> QED BY <1>1, <1>2 DEF Release, TypeOK, Entries

(* Of all the actions, four touch a load or a slot; a session that         *)
(* registers starts a load.                                                *)
LEMMA LoadStep ==
  ASSUME TypeOK, RunsAddressed, NoGhostWorker, RunsInOrder, LoadSound, [Next]_vars
  PROVE  LoadSound'
<1> DEFINE Goal == \A w \in Workers : SoundLoad(w)'
<1>0. ASSUME NEW w \in Workers, SameLoad(w) PROVE SoundLoad(w)'
  BY <1>0, ByWorker, SameLoadSound
<1>1. ASSUME NEW c \in Conns, NEW t \in LoginTiers, RegisterHarness(c, t) PROVE Goal
  <2>1. ASSUME NEW w \in Workers, w # WorkerOf[c] PROVE SameLoad(w)
    BY <1>1, <2>1 DEF RegisterHarness, SameLoad, Open, TypeOK
  <2>2. SoundLoad(WorkerOf[c])'
    <3> DEFINE w == WorkerOf[c]
    <3>1. /\ w \in Workers /\ Open(w)' = Open(w)
          /\ harness'[w].conn = c /\ harness'[w].activeJobs = 0
      BY <1>1 DEF RegisterHarness, Open, TypeOK
    <3>2. ASSUME \A d \in SessionsOf(w)' \ {c} : stage'[d] = "new" PROVE Open(w) = {}
      <4>1. \A d \in Conns : WorkerOf[d] = w => stage[d] = "new"
        BY <1>1, <3>2 DEF RegisterHarness, TypeOK
      <4> QED BY <4>1 DEF Open, RunsInOrder
    <3>3. Load(w)' = 0 /\ Cardinality(Open(w)) \in Nat /\ Cardinality({}) = 0
      BY <3>1, SlotsFinite, FS_EmptySet DEF Load
    <3>4. harness'[w].conn = c /\ Open(w)' = Open(w)
      BY <3>1
    <3>5. Cardinality(Open(w))' = Cardinality(Open(w))
      BY <3>4
    <3> HIDE DEF w
    <3>6. Load(w)' <= Cardinality(Open(w))'
      BY <3>3, <3>5
    <3>7. ASSUME \A d \in SessionsOf(w)' \ {harness'[w].conn} : stage'[d] = "new"
          PROVE  Load(w)' = Cardinality(Open(w))'
      BY <3>2, <3>3, <3>4, <3>5, <3>7
    <3>8. SoundLoad(w)'
      BY <3>6, <3>7 DEF SoundLoad
    <3> QED BY <3>8 DEF w
  <2> QED BY <1>0, <2>1, <2>2
<1>2. ASSUME NEW c \in Conns, GreetingStarts(c) PROVE Goal
  BY <1>0, <1>2 DEF SameLoad, Open, RunsInOrder, TypeOK, GreetingStarts, BeginWrite
<1>3. ASSUME NEW c \in Conns, GreetingEnds(c) PROVE Goal
  BY <1>0, <1>3 DEF SameLoad, Open, RunsInOrder, TypeOK, GreetingEnds, EndWrite
<1>4. ASSUME NEW c \in Conns, UnregisterHarness(c) PROVE Goal
  BY <1>0, <1>4 DEF SameLoad, Open, RunsInOrder, TypeOK, UnregisterHarness
<1>5. ASSUME NEW c \in Conns, Close(c) PROVE Goal
  BY <1>0, <1>5 DEF SameLoad, Open, RunsInOrder, TypeOK, Close
<1>6. ASSUME NEW c \in Conns, PeerCloses(c) PROVE Goal
  BY <1>0, <1>6 DEF SameLoad, Open, RunsInOrder, TypeOK, PeerCloses
<1>7. ASSUME NEW c \in Conns, NEW w \in Workers, NEW cap \in Capabilities,
             UpdateHarnessCapabilities(c, w, cap)
      PROVE  Goal
  <2>1. ASSUME NEW v \in Workers, harness'[v] # None
        PROVE  /\ harness[v] # None
               /\ harness'[v].conn = harness[v].conn
               /\ harness'[v].activeJobs = harness[v].activeJobs
    <3>1. CASE v # w
      <4>1. harness'[v] = harness[v]
        BY <1>7, <3>1 DEF UpdateHarnessCapabilities, TypeOK
      <4> QED BY <2>1, <4>1
    <3>2. CASE v = w
      <4>1. harness[w] \in Entries
        BY <1>7 DEF UpdateHarnessCapabilities, TypeOK
      <4> QED BY <1>7, <3>2, <4>1 DEF UpdateHarnessCapabilities, TypeOK, Entries
    <3> QED BY <3>1, <3>2
  <2>2. ASSUME NEW v \in Workers PROVE SameLoad(v)
    BY <1>7, <2>1 DEF UpdateHarnessCapabilities, SameLoad, Open
  <2> QED BY <1>0, <2>2
<1>8. ASSUME NEW c \in Conns, NEW r \in Runs, Complete(c, r) PROVE Goal
  <2> DEFINE w == WorkerOf[c]
  <2>1. w \in Workers /\ r \in Open(w) /\ Open(w)' = Open(w) \ {r}
    BY <1>8 DEF Complete, Open, TypeOK, RunsInOrder
  <2>2. ASSUME NEW v \in Workers, v # w PROVE SameLoad(v)
    BY <1>8, <2>2 DEF Complete, Release, SameLoad, Open, TypeOK
  <2>3. harness'[w] # None =>
           /\ harness[w] # None
           /\ harness'[w].conn = harness[w].conn
           /\ harness'[w].activeJobs =
                IF harness[w].activeJobs > 0 THEN harness[w].activeJobs - 1 ELSE 0
    BY <1>8, <2>1, Released DEF Complete
  <2>4. SoundLoad(w)'
    BY <2>1, <2>3, LessLoadSound, ByWorker
  <2> QED BY <1>0, <2>2, <2>4
<1>9. ASSUME NEW S \in SUBSET Workers, SweepStale(S) PROVE Goal
  BY <1>0, <1>9 DEF SameLoad, Open, RunsInOrder, TypeOK, SweepStale
<1>10. ASSUME NEW r \in Runs, NEW t, NEW p, NEW k, PickSharedWorker(r, t, p, k) PROVE Goal
  BY <1>0, <1>10 DEF SameLoad, Open, RunsInOrder, TypeOK, PickSharedWorker, Addressed
<1>11. ASSUME NEW r \in Runs, NEW t, NEW p, NEW k, PickFindsNone(r, t, p, k) PROVE Goal
  BY <1>0, <1>11 DEF SameLoad, Open, RunsInOrder, TypeOK, PickFindsNone, Return
<1>12. ASSUME NEW r \in Runs, NEW w \in Workers, AddressWorker(r, w) PROVE Goal
  BY <1>0, <1>12 DEF SameLoad, Open, RunsInOrder, TypeOK, AddressWorker, Addressed
<1>13. ASSUME NEW r \in Runs, GetHarness(r) PROVE Goal
  BY <1>0, <1>13 DEF SameLoad, Open, RunsInOrder, TypeOK, GetHarness, Return
<1>14. ASSUME NEW r \in Runs, BodyFails(r) PROVE Goal
  BY <1>0, <1>14 DEF SameLoad, Open, RunsInOrder, TypeOK, BodyFails, Return
<1>15. ASSUME NEW r \in Runs, IncActiveJobs(r) PROVE Goal
  <2>1. PICK w \in Workers : w = rworker[r]
    BY <1>15 DEF IncActiveJobs, RunsAddressed
  <2>2. r \notin Open(w) /\ Open(w)' = Open(w) \cup {r}
    BY <1>15, <2>1 DEF IncActiveJobs, Open, TypeOK, RunsInOrder
  <2>3. ASSUME NEW v \in Workers, v # w PROVE SameLoad(v)
    BY <1>15, <2>1, <2>3 DEF IncActiveJobs, Acquire, SameLoad, Open, TypeOK
  <2>4. harness'[w] # None =>
           /\ harness[w] # None
           /\ harness'[w].conn = harness[w].conn
           /\ harness'[w].activeJobs = harness[w].activeJobs + 1
    <3>1. CASE harness[w] = None
      BY <1>15, <2>1, <3>1 DEF IncActiveJobs, Acquire
    <3>2. CASE harness[w] # None
      <4>1. harness[w] \in Entries
        BY <2>1, <3>2 DEF TypeOK
      <4> QED BY <1>15, <2>1, <3>2, <4>1 DEF IncActiveJobs, Acquire, TypeOK, Entries
    <3> QED BY <3>1, <3>2
  <2>5. SoundLoad(w)'
    BY <2>1, <2>2, <2>4, MoreLoadSound, ByWorker
  <2> QED BY <1>0, <2>3, <2>5
<1>16. ASSUME NEW r \in Runs, SendStarts(r) PROVE Goal
  BY <1>0, <1>16 DEF SameLoad, Open, RunsInOrder, TypeOK, SendStarts, BeginWrite
<1>17. ASSUME NEW r \in Runs, SendPanics(r) PROVE Goal
  BY <1>0, <1>17 DEF SameLoad, Open, RunsInOrder, TypeOK, SendPanics, Return
<1>18. ASSUME NEW r \in Runs, RunArrives(r) PROVE Goal
  BY <1>0, <1>18 DEF SameLoad, Open, RunsInOrder, TypeOK, RunArrives
<1>19. ASSUME NEW r \in Runs, SendSucceeds(r) PROVE Goal
  BY <1>0, <1>19 DEF SameLoad, Open, RunsInOrder, TypeOK, SendSucceeds, EndWrite, Return
<1>20. ASSUME NEW r \in Runs, SendFails(r) PROVE Goal
  BY <1>0, <1>20 DEF SameLoad, Open, RunsInOrder, TypeOK, SendFails, EndWrite
<1>21. ASSUME NEW r \in Runs, DecActiveJobs(r) PROVE Goal
  <2>1. PICK w \in Workers : w = rworker[r]
    BY <1>21 DEF DecActiveJobs, RunsAddressed
  <2>2. r \in Open(w) /\ Open(w)' = Open(w) \ {r}
    BY <1>21, <2>1 DEF DecActiveJobs, Return, Open, TypeOK, RunsInOrder
  <2>3. ASSUME NEW v \in Workers, v # w PROVE SameLoad(v)
    BY <1>21, <2>1, <2>3 DEF DecActiveJobs, Return, Release, SameLoad, Open, TypeOK
  <2>4. harness'[w] # None =>
           /\ harness[w] # None
           /\ harness'[w].conn = harness[w].conn
           /\ harness'[w].activeJobs =
                IF harness[w].activeJobs > 0 THEN harness[w].activeJobs - 1 ELSE 0
    BY <1>21, <2>1, Released DEF DecActiveJobs
  <2>5. SoundLoad(w)'
    BY <2>1, <2>2, <2>4, LessLoadSound, ByWorker
  <2> QED BY <1>0, <2>3, <2>5
<1>22. ASSUME UNCHANGED vars PROVE Goal
  <2>1. ASSUME NEW w \in Workers PROVE SameLoad(w)
    BY <1>22 DEF vars, SameLoad, Open
  <2> QED BY <1>0, <2>1
<1> HIDE DEF Goal
<1>23. Goal
  BY <1>1, <1>2, <1>3, <1>4, <1>5, <1>6, <1>7, <1>8, <1>9, <1>10, <1>11,
     <1>12, <1>13, <1>14, <1>15, <1>16, <1>17, <1>18, <1>19, <1>20, <1>21,
     <1>22
     DEF Next, Handler, Frames, Monitor, Client, Run
<1> QED BY <1>23 DEF Goal, LoadSound, LoadExact, LoadNeverStuck, SoundLoad

HarnessLoadInv == HarnessInv /\ RunsInOrder /\ LoadSound

(* The load facts hold in every reachable state.                           *)
LEMMA LoadInvariance == Spec => []HarnessLoadInv
<1>1. Init => RunsInOrder /\ LoadSound
  BY DEF Init, RunsInOrder, LoadSound, LoadExact, LoadNeverStuck
<1>2. Init => HarnessInv
  BY InitInv DEF HarnessInv
<1>3. HarnessLoadInv /\ [Next]_vars => HarnessLoadInv'
  BY TypeStep, RunsAddressedStep, NoGhostStep, UserIndexStep, RunsInOrderStep, LoadStep
     DEF HarnessInv, HarnessLoadInv
<1> QED BY <1>1, <1>2, <1>3, PTL DEF Spec, HarnessLoadInv

(* A worker is never fuller in the eyes of a pick than the runs that hold  *)
(* a slot make it, and exactly as full until its first reconnect, for any  *)
(* number of workers, sessions and runs in any order of counting, sending, *)
(* completing and failing.                                                 *)
THEOREM LoadStaysSound == Spec => []LoadSound
<1>1. HarnessLoadInv => LoadSound
  BY DEF HarnessLoadInv
<1> QED BY <1>1, LoadInvariance, PTL

-----------------------------------------------------------------------------
(* The limit of a worker that only vetted picks have chosen: at most one   *)
(* run is on its way to it without being counted, and there is room for    *)
(* that one, even if the worker reconnects before it is counted.           *)
Vetted(w) ==
  ~raced[w] =>
    /\ \A r, s \in Uncounted(w) : r = s
    /\ harness[w] # None =>
         /\ Load(w) <= Limit(w)
         /\ Uncounted(w) # {} => Load(w) < Limit(w)

PicksVetted == \A w \in Workers : Vetted(w)

(* A step that does not raise the load, sends no run to the worker and     *)
(* does not lower its limit cannot take it past the limit.                 *)
LEMMA VettedFrame ==
  ASSUME TypeOK, TypeOK', NEW w \in Workers, Vetted(w),
         ~raced'[w] => ~raced[w],
         Uncounted(w)' \subseteq Uncounted(w),
         ~raced'[w] /\ harness'[w] # None =>
           harness[w] # None /\ Load(w)' <= Load(w) /\ Limit(w) <= Limit(w)'
  PROVE  Vetted(w)'
<1> SUFFICES ASSUME ~raced'[w]
             PROVE  /\ \A r, s \in Uncounted(w)' : r = s
                    /\ harness'[w] # None =>
                         /\ Load(w)' <= Limit(w)'
                         /\ Uncounted(w)' # {} => Load(w)' < Limit(w)'
  BY DEF Vetted
<1>1. ~raced[w] /\ \A r, s \in Uncounted(w) : r = s
  BY DEF Vetted
<1>2. ASSUME harness'[w] # None
      PROVE  Load(w)' <= Limit(w)' /\ (Uncounted(w)' # {} => Load(w)' < Limit(w)')
  <2>1. harness[w] \in Entries /\ harness'[w] \in Entries
    BY <1>2 DEF TypeOK
  <2>2. /\ Load(w) <= Limit(w)
        /\ Uncounted(w) # {} => Load(w) < Limit(w)
    BY <1>1, <1>2 DEF Vetted
  <2>3. /\ Load(w) \in Nat /\ Load(w)' \in Nat
        /\ Limit(w) \in Nat /\ Limit(w)' \in Nat
    BY <2>1 DEF Load, Limit, Entries
  <2> QED BY <1>2, <2>2, <2>3
<1> QED BY <1>1, <1>2

(* What a release leaves of a load, and that it leaves the limit alone.    *)
LEMMA ReleaseLowers ==
  ASSUME TypeOK, NEW v \in Workers, Release(v), NEW w \in Workers, harness'[w] # None
  PROVE  harness[w] # None /\ Load(w)' <= Load(w) /\ Limit(w) <= Limit(w)'
<1>1. harness[w] # None
  BY DEF Release, TypeOK
<1>2. harness[w] \in Entries
  BY <1>1 DEF TypeOK
<1>3. CASE w # v \/ harness[v] = None
  <2>1. harness'[w] = harness[w]
    BY <1>3 DEF Release, TypeOK
  <2>2. Load(w)' = Load(w) /\ Limit(w)' = Limit(w)
    BY <2>1 DEF Load, Limit
  <2> QED BY <1>1, <1>2, <2>2 DEF Load, Limit, Entries
<1>4. CASE w = v /\ harness[v] # None
  <2>1. /\ harness'[w].activeJobs = IF harness[w].activeJobs > 0 THEN harness[w].activeJobs - 1 ELSE 0
        /\ harness'[w].maxConcurrent = harness[w].maxConcurrent
    BY <1>2, <1>4 DEF Release, TypeOK, Entries
  <2> QED BY <1>1, <1>2, <2>1 DEF Load, Limit, Entries
<1> QED BY <1>3, <1>4

LEMMA VettedStep ==
  ASSUME TypeOK, RunsAddressed, PicksVetted, [Next]_vars
  PROVE  PicksVetted'
<1> DEFINE Goal == \A w \in Workers : Vetted(w)'
<1>t. TypeOK'
  BY TypeStep
(* The steps that change neither runs on their way, loads nor limits.      *)
<1>0. ASSUME UNCHANGED <<harness, raced>>,
             \A w \in Workers : Uncounted(w)' \subseteq Uncounted(w)
      PROVE  Goal
  <2> TAKE w \in Workers
  <2>1. harness'[w] = harness[w] /\ raced'[w] = raced[w]
    BY <1>0
  <2>2. harness[w] # None => Load(w) \in Nat /\ Limit(w) \in Nat
    BY DEF TypeOK, Load, Limit, Entries
  <2>3. Load(w)' = Load(w) /\ Limit(w)' = Limit(w)
    BY <2>1 DEF Load, Limit
  <2>4. harness[w] # None => Load(w)' <= Load(w) /\ Limit(w) <= Limit(w)'
    BY <2>2, <2>3
  <2> QED BY <1>t, <1>0, <2>1, <2>4, VettedFrame DEF PicksVetted
<1>1. ASSUME NEW c \in Conns, GreetingStarts(c) PROVE Goal
  BY <1>0, <1>1 DEF GreetingStarts, BeginWrite, Uncounted, TypeOK
<1>2. ASSUME NEW c \in Conns, GreetingEnds(c) PROVE Goal
  BY <1>0, <1>2 DEF GreetingEnds, EndWrite, Uncounted, TypeOK
<1>3. ASSUME NEW c \in Conns, Close(c) PROVE Goal
  BY <1>0, <1>3 DEF Close, Uncounted, TypeOK
<1>4. ASSUME NEW c \in Conns, PeerCloses(c) PROVE Goal
  BY <1>0, <1>4 DEF PeerCloses, Uncounted, TypeOK
<1>5. ASSUME NEW r \in Runs, NEW t, NEW p, NEW k, PickFindsNone(r, t, p, k) PROVE Goal
  BY <1>0, <1>5 DEF PickFindsNone, Return, Uncounted, TypeOK
<1>6. ASSUME NEW r \in Runs, GetHarness(r) PROVE Goal
  BY <1>0, <1>6 DEF GetHarness, Return, Uncounted, TypeOK
<1>7. ASSUME NEW r \in Runs, BodyFails(r) PROVE Goal
  BY <1>0, <1>7 DEF BodyFails, Return, Uncounted, TypeOK
<1>8. ASSUME NEW r \in Runs, SendStarts(r) PROVE Goal
  BY <1>0, <1>8 DEF SendStarts, BeginWrite, Uncounted, TypeOK
<1>9. ASSUME NEW r \in Runs, SendPanics(r) PROVE Goal
  BY <1>0, <1>9 DEF SendPanics, Return, Uncounted, TypeOK
<1>10. ASSUME NEW r \in Runs, RunArrives(r) PROVE Goal
  BY <1>0, <1>10 DEF RunArrives, Uncounted, TypeOK
<1>11. ASSUME NEW r \in Runs, SendSucceeds(r) PROVE Goal
  BY <1>0, <1>11 DEF SendSucceeds, EndWrite, Return, Uncounted, TypeOK
<1>12. ASSUME NEW r \in Runs, SendFails(r) PROVE Goal
  BY <1>0, <1>12 DEF SendFails, EndWrite, Uncounted, TypeOK
<1>13. ASSUME NEW c \in Conns, NEW t \in LoginTiers, RegisterHarness(c, t) PROVE Goal
  <2> TAKE w \in Workers
  <2>1. Uncounted(w)' = Uncounted(w) /\ raced' = raced
    BY <1>13 DEF RegisterHarness, Uncounted
  <2>2. CASE w = WorkerOf[c]
    <3>1. harness'[w].activeJobs = 0 /\ harness'[w].maxConcurrent = 0
      BY <1>13, <2>2 DEF RegisterHarness, TypeOK
    <3>2. Load(w)' = 0 /\ Limit(w)' = 1
      BY <3>1 DEF Load, Limit
    <3> QED BY <2>1, <3>2 DEF PicksVetted, Vetted
  <2>3. CASE w # WorkerOf[c]
    <3>1. harness'[w] = harness[w]
      BY <1>13, <2>3 DEF RegisterHarness, TypeOK
    <3> QED BY <2>1, <3>1 DEF PicksVetted, Vetted, Load, Limit
  <2> QED BY <2>2, <2>3
<1>14. ASSUME NEW c \in Conns, UnregisterHarness(c) PROVE Goal
  <2> TAKE w \in Workers
  <2>1. Uncounted(w)' = Uncounted(w) /\ raced' = raced
    BY <1>14 DEF UnregisterHarness, Uncounted
  <2>2. harness'[w] \in {None, harness[w]}
    BY <1>14 DEF UnregisterHarness, TypeOK
  <2> QED BY <2>1, <2>2 DEF PicksVetted, Vetted, Load, Limit
<1>15. ASSUME NEW S \in SUBSET Workers, SweepStale(S) PROVE Goal
  <2> TAKE w \in Workers
  <2>1. Uncounted(w)' = Uncounted(w) /\ raced' = raced
    BY <1>15 DEF SweepStale, Uncounted
  <2>2. harness'[w] \in {None, harness[w]}
    BY <1>15 DEF SweepStale, TypeOK
  <2> QED BY <2>1, <2>2 DEF PicksVetted, Vetted, Load, Limit
<1>16. ASSUME NEW c \in Conns, NEW v \in Workers, NEW cap \in Capabilities,
              UpdateHarnessCapabilities(c, v, cap)
       PROVE  Goal
  <2> DEFINE newMax == IF cap.max > 0 THEN cap.max ELSE Limit(v)
  <2>1. /\ harness[v] # None
        /\ harness' = [harness EXCEPT ![v].tier = cap.tier, ![v].providers = cap.providers,
                                     ![v].maxConcurrent = newMax]
        /\ raced' = [raced EXCEPT ![v] = @ \/ newMax < Limit(v)]
        /\ UNCHANGED runVars
    BY <1>16 DEF UpdateHarnessCapabilities
  <2>2. harness[v] \in Entries /\ cap.max \in Nat
    BY <2>1, FrameAssumption DEF TypeOK
  <2>3. Limit(v) \in Nat \ {0} /\ newMax \in Nat \ {0}
    BY <2>2 DEF Limit, Entries
  <2> HIDE DEF newMax
  <2> TAKE w \in Workers
  <2>4. Uncounted(w)' = Uncounted(w)
    BY <2>1 DEF Uncounted
  <2>5. CASE w # v
    <3>1. harness'[w] = harness[w] /\ raced'[w] = raced[w]
      BY <2>1, <2>5 DEF TypeOK
    <3> QED BY <2>4, <3>1 DEF PicksVetted, Vetted, Load, Limit
  <2>6. CASE w = v
    <3>1. /\ harness'[w].activeJobs = harness[w].activeJobs
          /\ harness'[w].maxConcurrent = newMax
          /\ raced'[w] = (raced[w] \/ newMax < Limit(w))
      BY <2>1, <2>2, <2>6 DEF TypeOK, Entries
    <3>2. Load(w)' = Load(w) /\ Limit(w)' = newMax /\ Load(w) \in Nat
      BY <2>2, <2>3, <2>6, <3>1 DEF Load, Limit, Entries
    <3>3. ~raced'[w] => ~raced[w] /\ Limit(w) <= Limit(w)' /\ Load(w)' <= Load(w)
      <4>1. ~raced'[w] => ~raced[w] /\ ~(newMax < Limit(w))
        BY <3>1, Zenon
      <4>2. ~(newMax < Limit(w)) => Limit(w) <= Limit(w)'
        BY <2>3, <2>6, <3>2
      <4>3. Load(w)' <= Load(w)
        BY <3>2
      <4> QED BY <4>1, <4>2, <4>3
    <3> QED BY <1>t, <2>1, <2>4, <2>6, <3>3, VettedFrame DEF PicksVetted
  <2> QED BY <2>5, <2>6
<1>17. ASSUME NEW c \in Conns, NEW r \in Runs, Complete(c, r) PROVE Goal
  <2> TAKE w \in Workers
  <2>1. Uncounted(w)' = Uncounted(w) /\ raced' = raced /\ Release(WorkerOf[c])
    BY <1>17 DEF Complete, Uncounted
  <2> QED BY <1>t, <2>1, ReleaseLowers, VettedFrame DEF PicksVetted
<1>18. ASSUME NEW r \in Runs, DecActiveJobs(r) PROVE Goal
  <2> TAKE w \in Workers
  <2>1. Uncounted(w)' = Uncounted(w) /\ raced' = raced /\ Release(rworker[r])
    BY <1>18 DEF DecActiveJobs, Return, Uncounted, TypeOK
  <2>2. rworker[r] \in Workers
    BY <1>18 DEF DecActiveJobs, RunsAddressed
  <2> QED BY <1>t, <2>1, <2>2, ReleaseLowers, VettedFrame DEF PicksVetted
<1>19. ASSUME NEW r \in Runs, NEW t, NEW p, NEW k, PickSharedWorker(r, t, p, k) PROVE Goal
  <2>1. PICK v \in LeastLoaded(Eligible(t, p, k)) :
          /\ Addressed(r, v)
          /\ raced' = [raced EXCEPT ![v] = @ \/ Uncounted(v) # {}]
    BY <1>19 DEF PickSharedWorker
  <2>2. v \in Workers /\ harness[v] # None /\ Load(v) < Limit(v)
    BY <2>1 DEF LeastLoaded, Eligible
  <2>3. harness' = harness /\ rpc[r] = "idle"
    BY <1>19 DEF PickSharedWorker
  <2> TAKE w \in Workers
  <2>4. CASE w # v
    <3>1. Uncounted(w)' = Uncounted(w) /\ raced'[w] = raced[w]
      BY <2>1, <2>3, <2>4 DEF Addressed, Uncounted, TypeOK
    <3> QED BY <2>3, <3>1 DEF PicksVetted, Vetted, Load, Limit
  <2>5. CASE w = v
    <3>1. Uncounted(v)' = Uncounted(v) \cup {r}
      BY <2>1, <2>2, <2>3 DEF Addressed, Uncounted, TypeOK
    <3>2. ~raced'[v] => Uncounted(v) = {}
      BY <2>1, <2>2 DEF TypeOK
    <3>3. Load(v)' = Load(v) /\ Limit(v)' = Limit(v)
      BY <2>3 DEF Load, Limit
    <3>4. harness[v] \in Entries
      BY <2>2 DEF TypeOK
    <3>5. Load(v) \in Nat /\ Limit(v) \in Nat
      BY <3>4 DEF Load, Limit, Entries
    <3> QED BY <2>2, <2>5, <3>1, <3>2, <3>3, <3>5 DEF Vetted
  <2> QED BY <2>4, <2>5
<1>20. ASSUME NEW r \in Runs, NEW v \in Workers, AddressWorker(r, v) PROVE Goal
  <2> TAKE w \in Workers
  <2>1. CASE w = v
    <3>1. raced'[w]
      BY <1>20, <2>1 DEF AddressWorker, TypeOK
    <3> QED BY <3>1 DEF Vetted
  <2>2. CASE w # v
    <3>1. Uncounted(w)' = Uncounted(w) /\ raced'[w] = raced[w] /\ harness' = harness
      BY <1>20, <2>2 DEF AddressWorker, Addressed, Uncounted, TypeOK
    <3> QED BY <3>1 DEF PicksVetted, Vetted, Load, Limit
  <2> QED BY <2>1, <2>2
<1>21. ASSUME NEW r \in Runs, IncActiveJobs(r) PROVE Goal
  <2>1. PICK v \in Workers : v = rworker[r]
    BY <1>21 DEF IncActiveJobs, RunsAddressed
  <2>2. Acquire(v) /\ raced' = raced /\ r \in Uncounted(v)
    BY <1>21, <2>1 DEF IncActiveJobs, Uncounted
  <2> TAKE w \in Workers
  <2>3. CASE w # v
    <3>1. harness'[w] = harness[w] /\ Uncounted(w)' = Uncounted(w)
      BY <1>21, <2>1, <2>2, <2>3 DEF IncActiveJobs, Acquire, Uncounted, TypeOK
    <3> QED BY <2>2, <3>1 DEF PicksVetted, Vetted, Load, Limit
  <2>4. CASE w = v
    <3>1. Uncounted(v)' = Uncounted(v) \ {r}
      BY <1>21, <2>1 DEF IncActiveJobs, Uncounted, TypeOK
    <3>2. ~raced[v] => Uncounted(v)' = {}
      BY <2>2, <3>1 DEF PicksVetted, Vetted
    <3>3. ASSUME ~raced[v], harness'[v] # None PROVE Load(v)' <= Limit(v)'
      <4>1. harness[v] # None
        BY <2>2, <3>3 DEF Acquire
      <4>2. harness[v] \in Entries
        BY <4>1 DEF TypeOK
      <4>3. /\ harness'[v].activeJobs = harness[v].activeJobs + 1
            /\ harness'[v].maxConcurrent = harness[v].maxConcurrent
        BY <2>2, <4>1, <4>2 DEF Acquire, TypeOK, Entries
      <4>4. Load(v) < Limit(v)
        BY <2>2, <3>3, <4>1 DEF PicksVetted, Vetted
      <4>5. Load(v)' = Load(v) + 1 /\ Limit(v)' = Limit(v)
        BY <4>3 DEF Load, Limit
      <4>6. Load(v) \in Nat /\ Limit(v) \in Nat
        BY <4>2 DEF Load, Limit, Entries
      <4> QED BY <4>4, <4>5, <4>6
    <3> QED BY <2>2, <2>4, <3>2, <3>3 DEF Vetted
  <2> QED BY <2>3, <2>4
<1>22. ASSUME UNCHANGED vars PROVE Goal
  BY <1>0, <1>22 DEF vars, Uncounted
<1> HIDE DEF Goal
<1>23. Goal
  BY <1>1, <1>2, <1>3, <1>4, <1>5, <1>6, <1>7, <1>8, <1>9, <1>10, <1>11,
     <1>12, <1>13, <1>14, <1>15, <1>16, <1>17, <1>18, <1>19, <1>20, <1>21,
     <1>22
     DEF Next, Handler, Frames, Monitor, Client, Run
<1> QED BY <1>23 DEF Goal, PicksVetted

(* Of all ways past a limit, the three that raced remembers are the only   *)
(* ones: a worker that was only given runs by picks that saw every run     *)
(* before theirs counted is never past the limit it declared, however      *)
(* completions, failed sends, reconnects and sweeps interleave with them.  *)
THEOREM LimitsAreKept == Spec => []CapacityWithoutRaces
<1>1. Init => PicksVetted
  <2> SUFFICES ASSUME Init PROVE PicksVetted
    OBVIOUS
  <2>1. \A w \in Workers : Uncounted(w) = {} /\ harness[w] = None
    BY DEF Init, Uncounted
  <2> QED BY <2>1 DEF PicksVetted, Vetted
<1>2. HarnessInv /\ PicksVetted /\ [Next]_vars => PicksVetted'
  BY VettedStep DEF HarnessInv
<1>3. PicksVetted => CapacityWithoutRaces
  BY DEF PicksVetted, Vetted, CapacityWithoutRaces
<1> QED BY <1>1, <1>2, <1>3, HarnessInvariance, PTL DEF Spec
==============================================================================
