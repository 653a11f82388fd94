------------------------- MODULE AdapterStartupProofs -------------------------
(***************************************************************************)
(* Proofs about the start of a process, for any adapters, tools, keys and  *)
(* paths, any lists of names and any number of registrations: how far the  *)
(* start has come in the list of names decides what has been constructed,  *)
(* registered and mounted so far, and what is still untouched.             *)
(***************************************************************************)
EXTENDS AdapterStartup, SequenceTheorems, FiniteSetTheorems, TLAPS

(* The names that the start is done with.                                  *)
Done == Len(asked) - Len(queue)

Working == pc \in {"register", "mount", "hooks"}

Going == pc \notin {"failed", "panicked"}

(* The queue is the rest of the names; those before it have constructors.  *)
QueueIsRest ==
  /\ Len(queue) <= Len(asked)
  /\ \A i \in 1 .. Len(queue) : queue[i] = asked[Done + i]
  /\ \A i \in 1 .. Done : asked[i] \in Adapters

(* A router starts all adapters once, one after another, under their first *)
(* construction; a shared server begins when all of them are constructed.  *)
Phases ==
  /\ Working => current \in Instances
  /\ mode = "router" =>
       /\ asked \in Orders(Adapters) /\ pc # "setup"
       /\ Working => queue # << >> /\ current = <<Head(queue), 1>>
       /\ pc = "listening" => queue = << >>
       /\ current # None => current[1] \in Adapters
  /\ mode = "registry" =>
       /\ pc \notin {"mount", "hooks"}
       /\ pc \in {"setup", "register", "listening"} => queue = << >>

(* Nothing but its first construction writes to the server of an adapter.  *)
FirstWrites ==
  mode = "router" => \A s \in Servers :
    /\ \A t \in Tools : wire[s][t] \in {None, <<s, 1>>}
    /\ \A k \in Keys : schema[s][k] \in {None, <<s, 1>>}

(* How often an adapter has been constructed.                              *)
BuiltSoFar ==
  Going =>
    /\ mode = "registry" => \A a \in Adapters :
         built[a] = Cardinality({i \in 1 .. Done : asked[i] = a})
    /\ mode = "router" =>
         /\ \A i \in 1 .. Done : built[asked[i]] = 2
         /\ \A i \in Done + 1 .. Len(asked) :
              built[asked[i]] \in IF ~(Working /\ i = Done + 1) THEN {0}
                                   ELSE IF pc = "hooks" THEN {1, 2} ELSE {1}

(* The records of the registry are those of the server in use, and the     *)
(* servers of a router that are still to come are empty.                   *)
RegistryIsWire ==
  Going =>
    /\ mode = "router" =>
         /\ current # None => RegisteredNames(FALSE) = OnWire(current[1])
         /\ \A i \in Done + 1 .. Len(asked) :
              ~(Working /\ i = Done + 1) => OnWire(asked[i]) = {}
    /\ mode = "registry" => RegisteredNames(FALSE) = OnWire(Shared)
    /\ mode = "registry" /\ pc = "construct" => OnWire(Shared) = {}

(* What is mounted stays; the gateways were there first.                   *)
Mounted ==
  mode = "router" =>
    /\ \A p \in GatewayPaths : routes[p] = "gateway"
    /\ Going => \A i \in 1 .. Done : routes[MountOf[asked[i]]] = "mcp"
    /\ pc = "hooks" => routes[MountOf[current[1]]] = "mcp"

IInv ==
  /\ TypeOK
  /\ QueueIsRest /\ Phases /\ FirstWrites /\ BuiltSoFar /\ RegistryIsWire /\ Mounted

(* The parts of an instance.                                               *)
LEMMA InstanceParts ==
  ASSUME NEW x \in Instances
  PROVE  x[1] \in Adapters /\ x[2] \in Nat \ {0} /\ x # None
BY NoneAssumption DEF Instances

LEMMA FreshIsInstance ==
  ASSUME TypeOK, NEW a \in Adapters
  PROVE  Fresh(a) \in Instances
BY DEF TypeOK, Fresh, Instances

(* The first name of a queue is the next of the names; those a router is   *)
(* asked for are all different, and its own adapters.                      *)
LEMMA FirstOfQueue ==
  ASSUME TypeOK, QueueIsRest, queue # << >>
  PROVE  /\ Done \in Nat /\ Done + 1 \in 1 .. Len(asked)
         /\ Head(queue) = asked[Done + 1] /\ Head(queue) \in Names
         /\ Tail(queue) \in Seq(Names) /\ Len(Tail(queue)) = Len(queue) - 1
         /\ \A i \in 1 .. Len(Tail(queue)) : Tail(queue)[i] = asked[Done + 1 + i]
<1>1. /\ queue \in Seq(Names) /\ asked \in Seq(Names)
      /\ Len(queue) \in Nat \ {0} /\ Len(asked) \in Nat
  BY LenProperties, EmptySeq DEF TypeOK
<1>2. Head(queue) = queue[1]
  BY <1>1
<1>3. /\ Tail(queue) \in Seq(Names) /\ Len(Tail(queue)) = Len(queue) - 1
      /\ \A i \in 1 .. Len(Tail(queue)) : Tail(queue)[i] = queue[i + 1]
  BY <1>1, HeadTailProperties
<1>4. Head(queue) \in Names
  BY <1>1, HeadTailProperties
<1> QED BY <1>1, <1>2, <1>3, <1>4 DEF QueueIsRest, Done

LEMMA RouterNames ==
  ASSUME asked \in Orders(Adapters)
  PROVE  /\ asked \in Seq(Adapters) /\ Len(asked) = Cardinality(Adapters)
         /\ Cardinality(Adapters) \in Nat
         /\ \A i \in 1 .. Len(asked) : asked[i] \in Adapters
         /\ \A i, j \in 1 .. Len(asked) : i # j => asked[i] # asked[j]
<1>1. Cardinality(Adapters) \in Nat
  BY NamesAssumption, FS_CardinalityType
<1> DEFINE n == Cardinality(Adapters)
<1> HIDE DEF n
<1>2. asked \in [1 .. n -> Adapters] /\ \A i, j \in DOMAIN asked : i # j => asked[i] # asked[j]
  BY DEF Orders, n
<1>3. n \in Nat
  BY <1>1 DEF n
<1>4. asked \in Seq(Adapters) /\ Len(asked) = n
  BY <1>2, <1>3
<1> QED BY <1>2, <1>3, <1>4 DEF n

(* With an empty registry no name is registered.                           *)
LEMMA EmptyRegistry ==
  ASSUME tools = << >>
  PROVE  RegisteredNames(FALSE) = {}
BY EmptySeq DEF RegisteredNames

LEMMA InitIInv == Init => IInv
<1> SUFFICES ASSUME Init PROVE IInv
  OBVIOUS
<1>1. asked \in Seq(Names)
  <2>1. ASSUME asked \in NameLists PROVE asked \in Seq(Names)
    BY <2>1, ListsAssumption
  <2>2. ASSUME asked \in Orders(Adapters) PROVE asked \in Seq(Names)
    <3>1. Adapters \subseteq Names
      BY DEF Names
    <3> QED BY <2>2, <3>1, RouterNames, SeqMonotonic
  <2> QED BY <2>1, <2>2 DEF Init
<1>2. << >> \in Seq(Instances) /\ << >> \in Seq(Records) /\ Len(asked) \in Nat
  BY <1>1, EmptySeq, LenProperties
<1>3. TypeOK
  <2>1. routes \in [Paths -> Serving \cup {None}]
    BY DEF Init, Serving
  <2>2. ops \in 0 .. MaxOps
    BY NamesAssumption DEF Init
  <2> QED BY <1>1, <1>2, <2>1, <2>2 DEF Init, TypeOK
<1>4. QueueIsRest /\ Done = 0
  BY <1>2 DEF Init, QueueIsRest, Done
<1>5. Phases /\ FirstWrites
  BY NoneAssumption DEF Init, Phases, FirstWrites, Working
<1>6. BuiltSoFar
  <2>1. \A a \in Adapters : {i \in 1 .. Done : asked[i] = a} = {}
    BY <1>4
  <2>2. mode = "router" => \A i \in 1 .. Len(asked) : asked[i] \in Adapters
    BY <1>5, RouterNames DEF Phases
  <2> QED BY <1>4, <2>1, <2>2, FS_EmptySet DEF Init, BuiltSoFar, Working
<1>7. RegistryIsWire
  <2>1. RegisteredNames(FALSE) = {}
    BY EmptyRegistry DEF Init
  <2>2. \A s \in Servers : OnWire(s) = {}
    BY DEF Init, OnWire
  <2>3. mode = "router" => \A i \in 1 .. Len(asked) : asked[i] \in Servers
    BY RouterNames DEF Init, Servers, Phases
  <2>4. Shared \in Servers /\ current = None /\ mode \in {"router", "registry"} /\ Done = 0
    BY <1>4 DEF Init, Servers
  <2>5. mode = "router" => \A i \in Done + 1 .. Len(asked) : OnWire(asked[i]) = {}
    BY <1>2, <2>2, <2>3, <2>4
  <2> QED BY <2>1, <2>2, <2>4, <2>5 DEF RegistryIsWire
<1>8. Mounted
  BY <1>4, NamesAssumption DEF Init, Mounted
<1> QED BY <1>3, <1>4, <1>5, <1>6, <1>7, <1>8 DEF IInv

(* A registration is recorded, and written to one server only.             *)
LEMMA RecordIsTyped ==
  ASSUME TypeOK, current \in Instances, NEW t \in Tools, NEW hold \in BOOLEAN
  PROVE  Append(tools, [name |-> t, hold |-> hold, by |-> current]) \in Seq(Records)
<1> DEFINE r == [name |-> t, hold |-> hold, by |-> current]
<1>1. r \in Records
  BY DEF Records
<1>2. tools \in Seq(Records)
  BY DEF TypeOK
<1> HIDE DEF r
<1>3. Append(tools, r) \in Seq(Records)
  BY <1>1, <1>2, AppendProperties
<1> QED BY <1>3 DEF r

LEMMA ServerOfCurrent ==
  ASSUME current \in Instances
  PROVE  ServerOf(current) \in Servers
BY InstanceParts DEF ServerOf, Servers

LEMMA WriteIsTyped ==
  ASSUME NEW S, NEW T, NEW V, NEW f \in [S -> [T -> V]],
         NEW s \in S, NEW t \in T, NEW v \in V
  PROVE  /\ [f EXCEPT ![s][t] = v] \in [S -> [T -> V]]
         /\ \A s2 \in S, t2 \in T :
              [f EXCEPT ![s][t] = v][s2][t2] = IF s2 = s /\ t2 = t THEN v ELSE f[s2][t2]
OBVIOUS

LEMMA TypeOKStep ==
  ASSUME TypeOK, QueueIsRest, Phases, [Next]_vars
  PROVE  TypeOK'
<1>1. CASE Fail
  BY <1>1 DEF Fail, TypeOK
<1>2. CASE ConstructAll
  <2>1. Head(queue) \in Adapters /\ queue # << >>
    BY <1>2 DEF ConstructAll
  <2>2. Append(loaded, Fresh(Head(queue))) \in Seq(Instances)
    BY <2>1, FreshIsInstance, AppendProperties DEF TypeOK
  <2>3. Tail(queue) \in Seq(Names)
    BY <2>1, FirstOfQueue
  <2>4. built' \in [Adapters -> Nat]
    BY <1>2, <2>1 DEF ConstructAll, Build, TypeOK
  <2> QED BY <1>2, <2>2, <2>3, <2>4 DEF ConstructAll, TypeOK
<1>3. CASE SetUp
  BY <1>3 DEF SetUp, TypeOK
<1>4. CASE RegisterNext
  <2>1. loaded # << >> => Head(loaded) \in Instances /\ Tail(loaded) \in Seq(Instances)
    BY HeadTailProperties DEF TypeOK
  <2>2. loaded' \in Seq(Instances) /\ current' \in Instances \cup {None}
        /\ pc' \in {"listening", "register"}
    <3>1. CASE loaded = << >>
      BY <1>4, <3>1 DEF RegisterNext, TypeOK
    <3>2. CASE loaded # << >>
      BY <1>4, <2>1, <3>2 DEF RegisterNext
    <3> QED BY <3>1, <3>2
  <2>3. ops' \in 0 .. MaxOps
    BY <1>4, NamesAssumption DEF RegisterNext
  <2> QED BY <1>4, <2>2, <2>3 DEF RegisterNext, TypeOK
<1>5. CASE PrepareAdapterRegistration
  <2>1. Head(queue) \in Adapters
    BY <1>5, FirstOfQueue, RouterNames DEF PrepareAdapterRegistration, Phases
  <2>2. Fresh(Head(queue)) \in Instances
    BY <2>1, FreshIsInstance
  <2>3. built' \in [Adapters -> Nat] /\ << >> \in Seq(Records)
    BY <1>5, <2>1, EmptySeq DEF PrepareAdapterRegistration, Build, TypeOK
  <2> QED BY <1>5, <2>2, <2>3, NamesAssumption DEF PrepareAdapterRegistration, TypeOK
<1>6. ASSUME NEW t \in Tools, NEW hold \in BOOLEAN, AddTool(t, hold) PROVE TypeOK'
  <2>1. current \in Instances
    BY <1>6 DEF AddTool, Registering, Phases, Working
  <2>2. tools' \in Seq(Records)
    BY <1>6, <2>1, RecordIsTyped DEF AddTool, Record
  <2>3. wire' \in [Servers -> [Tools -> Instances \cup {None}]]
    BY <1>6, <2>1, ServerOfCurrent, WriteIsTyped DEF AddTool, TypeOK
  <2>4. ops' \in 0 .. MaxOps
    BY <1>6, NamesAssumption DEF AddTool, Registering, TypeOK
  <2> QED BY <1>6, <2>2, <2>3, <2>4 DEF AddTool, TypeOK
<1>7. CASE AddToolPanics
  <2>1. current \in Instances
    BY <1>7 DEF AddToolPanics, Phases, Working
  <2>2. tools' \in Seq(Records)
    BY <1>7, <2>1, RecordIsTyped DEF AddToolPanics, Record, TypeOK
  <2> QED BY <1>7, <2>2 DEF AddToolPanics, TypeOK
<1>8. CASE RegisterReturns
  BY <1>8 DEF RegisterReturns, TypeOK
<1>9. ASSUME NEW k \in Keys, WriteSchema(k) PROVE TypeOK'
  <2>1. current \in Instances
    BY <1>9 DEF WriteSchema, Registering, Phases, Working
  <2>2. schema' \in [Servers -> [Keys -> Instances \cup {None}]]
    BY <1>9, <2>1, ServerOfCurrent, WriteIsTyped DEF WriteSchema, TypeOK
  <2>3. ops' \in 0 .. MaxOps
    BY <1>9, NamesAssumption DEF WriteSchema, Registering, TypeOK
  <2> QED BY <1>9, <2>2, <2>3 DEF WriteSchema, TypeOK
<1>10. CASE Mount
  <2>1. MountOf[current[1]] \in Paths
    BY <1>10, InstanceParts, NamesAssumption DEF Mount, Phases, Working
  <2>2. routes' \in [Paths -> Serving \cup {None}] /\ pc' \in {"hooks", "panicked"}
    BY <1>10, <2>1 DEF Mount, Handle, TypeOK, Serving
  <2> QED BY <1>10, <2>2 DEF Mount, TypeOK
<1>11. CASE ConstructHooks
  <2>1. current[1] \in Adapters
    BY <1>11, InstanceParts DEF ConstructHooks, Phases, Working
  <2>2. built' \in [Adapters -> Nat]
    BY <1>11, <2>1 DEF ConstructHooks, Build, TypeOK
  <2> QED BY <1>11, <2>2 DEF ConstructHooks, TypeOK
<1>12. ASSUME NEW p \in Paths, RegisterHook(p) PROVE TypeOK'
  <2>1. routes' \in [Paths -> Serving \cup {None}] /\ pc' \in {"hooks", "panicked"}
    BY <1>12 DEF RegisterHook, Handle, TypeOK, Serving
  <2> QED BY <1>12, <2>1 DEF RegisterHook, TypeOK
<1>13. CASE NextAdapter
  <2>1. Tail(queue) \in Seq(Names)
    BY <1>13, FirstOfQueue DEF NextAdapter, Phases, Working, TypeOK
  <2> QED BY <1>13, <2>1 DEF NextAdapter, TypeOK
<1>14. CASE Listen
  BY <1>14 DEF Listen, TypeOK
<1>15. CASE UNCHANGED vars
  BY <1>15 DEF vars, TypeOK
<1> QED BY <1>1, <1>2, <1>3, <1>4, <1>5, <1>6, <1>7, <1>8, <1>9, <1>10, <1>11, <1>12, <1>13, <1>14, <1>15
           DEF Next

(* Done with one more name.                                                *)
LEMMA NextName ==
  ASSUME TypeOK, QueueIsRest, queue # << >>, Head(queue) \in Adapters,
         queue' = Tail(queue), asked' = asked
  PROVE  QueueIsRest' /\ Done' = Done + 1 /\ Done \in Nat
<1>1. Done' = Done + 1
  <2>1. Len(queue) \in Nat /\ Len(asked) \in Nat
    BY LenProperties DEF TypeOK
  <2>2. Len(queue') = Len(queue) - 1
    BY FirstOfQueue
  <2> QED BY <2>1, <2>2 DEF Done
<1>2. \A i \in 1 .. Len(queue') : queue'[i] = asked'[Done' + i]
  BY <1>1, FirstOfQueue
<1>3. \A i \in 1 .. Done' : asked'[i] \in Adapters
  BY <1>1, FirstOfQueue DEF QueueIsRest
<1>4. Len(queue') <= Len(asked')
  <2>1. Len(queue) \in Nat /\ Len(asked) \in Nat
    BY LenProperties DEF TypeOK
  <2> QED BY <2>1, FirstOfQueue DEF QueueIsRest
<1> QED BY <1>1, <1>2, <1>3, <1>4, FirstOfQueue DEF QueueIsRest

(* The name a router is at, and its server.                                *)
LEMMA AtWork ==
  ASSUME TypeOK, QueueIsRest, Phases, mode = "router", queue # << >>
  PROVE  /\ Head(queue) \in Adapters
         /\ Working => current = <<Head(queue), 1>> /\ ServerOf(current) = Head(queue)
BY FirstOfQueue, RouterNames DEF Phases, ServerOf

LEMMA QueueIsRestStep ==
  ASSUME IInv, [Next]_vars
  PROVE  QueueIsRest'
<1> USE DEF IInv
<1>1. CASE Fail
  BY <1>1 DEF Fail, QueueIsRest, Done
<1>2. CASE ConstructAll
  BY <1>2, NextName DEF ConstructAll
<1>3. CASE SetUp
  BY <1>3 DEF SetUp, QueueIsRest, Done
<1>4. CASE RegisterNext
  BY <1>4 DEF RegisterNext, QueueIsRest, Done
<1>5. CASE PrepareAdapterRegistration
  BY <1>5 DEF PrepareAdapterRegistration, Build, QueueIsRest, Done
<1>6. ASSUME NEW t \in Tools, NEW hold \in BOOLEAN, AddTool(t, hold) PROVE QueueIsRest'
  BY <1>6 DEF AddTool, Registering, Record, QueueIsRest, Done
<1>7. CASE AddToolPanics
  BY <1>7 DEF AddToolPanics, Record, QueueIsRest, Done
<1>8. CASE RegisterReturns
  BY <1>8 DEF RegisterReturns, QueueIsRest, Done
<1>9. ASSUME NEW k \in Keys, WriteSchema(k) PROVE QueueIsRest'
  BY <1>9 DEF WriteSchema, Registering, QueueIsRest, Done
<1>10. CASE Mount
  BY <1>10 DEF Mount, Handle, QueueIsRest, Done
<1>11. CASE ConstructHooks
  BY <1>11 DEF ConstructHooks, Build, QueueIsRest, Done
<1>12. ASSUME NEW p \in Paths, RegisterHook(p) PROVE QueueIsRest'
  BY <1>12 DEF RegisterHook, Handle, QueueIsRest, Done
<1>13. CASE NextAdapter
  <2>1. Working /\ mode = "router"
    BY <1>13 DEF NextAdapter, Phases, Working, TypeOK
  <2>2. queue # << >>
    BY <2>1 DEF Phases
  <2>3. Head(queue) \in Adapters
    BY <2>1, <2>2, AtWork
  <2> QED BY <1>13, <2>2, <2>3, NextName DEF NextAdapter
<1>14. CASE Listen
  BY <1>14 DEF Listen, QueueIsRest, Done
<1>15. CASE UNCHANGED vars
  BY <1>15 DEF vars, QueueIsRest, Done
<1> QED BY <1>1, <1>2, <1>3, <1>4, <1>5, <1>6, <1>7, <1>8, <1>9, <1>10, <1>11, <1>12, <1>13, <1>14, <1>15
           DEF Next

LEMMA PhasesStep ==
  ASSUME IInv, [Next]_vars
  PROVE  Phases'
<1> USE DEF IInv, Phases, Working
<1>1. CASE Fail
  BY <1>1 DEF Fail
<1>2. CASE ConstructAll
  BY <1>2 DEF ConstructAll, Build
<1>3. CASE SetUp
  BY <1>3 DEF SetUp
<1>4. CASE RegisterNext
  <2>1. loaded # << >> => Head(loaded) \in Instances
    BY HeadTailProperties DEF TypeOK
  <2> QED BY <1>4, <2>1 DEF RegisterNext
<1>5. CASE PrepareAdapterRegistration
  <2>1. Head(queue) = asked[Done + 1] /\ Done + 1 \in Done + 1 .. Len(asked) /\ Done + 1 \in Nat
    BY <1>5, FirstOfQueue DEF PrepareAdapterRegistration
  <2>2. built[Head(queue)] = 0
    BY <1>5, <2>1 DEF PrepareAdapterRegistration, BuiltSoFar, Going
  <2>3. Head(queue) \in Adapters
    BY <1>5, AtWork DEF PrepareAdapterRegistration
  <2>4. <<Head(queue), 1>> \in Instances /\ <<Head(queue), 1>>[1] = Head(queue)
    BY <2>3 DEF Instances
  <2> QED BY <1>5, <2>2, <2>3, <2>4 DEF PrepareAdapterRegistration, Fresh
<1>6. ASSUME NEW t \in Tools, NEW hold \in BOOLEAN, AddTool(t, hold) PROVE Phases'
  BY <1>6 DEF AddTool, Registering, Record
<1>7. CASE AddToolPanics
  BY <1>7 DEF AddToolPanics, Record
<1>8. CASE RegisterReturns
  BY <1>8 DEF RegisterReturns
<1>9. ASSUME NEW k \in Keys, WriteSchema(k) PROVE Phases'
  BY <1>9 DEF WriteSchema, Registering
<1>10. CASE Mount
  BY <1>10 DEF Mount, Handle
<1>11. CASE ConstructHooks
  BY <1>11 DEF ConstructHooks, Build
<1>12. ASSUME NEW p \in Paths, RegisterHook(p) PROVE Phases'
  BY <1>12 DEF RegisterHook, Handle
<1>13. CASE NextAdapter
  BY <1>13 DEF NextAdapter
<1>14. CASE Listen
  BY <1>14 DEF Listen
<1>15. CASE UNCHANGED vars
  BY <1>15 DEF vars
<1> QED BY <1>1, <1>2, <1>3, <1>4, <1>5, <1>6, <1>7, <1>8, <1>9, <1>10, <1>11, <1>12, <1>13, <1>14, <1>15
           DEF Next

LEMMA FirstWritesStep ==
  ASSUME IInv, [Next]_vars
  PROVE  FirstWrites'
<1> USE DEF IInv
<1>1. CASE Fail
  BY <1>1 DEF Fail, FirstWrites, Phases
<1>2. CASE ConstructAll
  BY <1>2 DEF ConstructAll, Build, FirstWrites, Phases
<1>3. CASE SetUp
  BY <1>3 DEF SetUp, FirstWrites, Phases
<1>4. CASE RegisterNext
  BY <1>4 DEF RegisterNext, FirstWrites, Phases
<1>5. CASE PrepareAdapterRegistration
  BY <1>5 DEF PrepareAdapterRegistration, Build, FirstWrites, Phases
<1>6. ASSUME NEW t \in Tools, NEW hold \in BOOLEAN, AddTool(t, hold) PROVE FirstWrites'
  <2>1. current \in Instances /\ ServerOf(current) \in Servers
    BY <1>6, ServerOfCurrent DEF AddTool, Registering, Phases, Working
  <2>2. mode = "router" => current = <<ServerOf(current), 1>>
    BY <1>6, AtWork DEF AddTool, Registering, Phases, Working
  <2>3. \A s \in Servers, x \in Tools : wire'[s][x] \in {wire[s][x], current}
           /\ (wire'[s][x] # wire[s][x] => s = ServerOf(current))
    BY <1>6, <2>1, WriteIsTyped DEF AddTool, TypeOK
  <2>4. mode' = mode /\ schema' = schema
    BY <1>6 DEF AddTool
  <2> QED BY <2>2, <2>3, <2>4 DEF FirstWrites
<1>7. CASE AddToolPanics
  BY <1>7 DEF AddToolPanics, Record, FirstWrites, Phases
<1>8. CASE RegisterReturns
  BY <1>8 DEF RegisterReturns, FirstWrites, Phases
<1>9. ASSUME NEW k \in Keys, WriteSchema(k) PROVE FirstWrites'
  <2>1. current \in Instances /\ ServerOf(current) \in Servers
    BY <1>9, ServerOfCurrent DEF WriteSchema, Registering, Phases, Working
  <2>2. mode = "router" => current = <<ServerOf(current), 1>>
    BY <1>9, AtWork DEF WriteSchema, Registering, Phases, Working
  <2>3. \A s \in Servers, x \in Keys : schema'[s][x] \in {schema[s][x], current}
           /\ (schema'[s][x] # schema[s][x] => s = ServerOf(current))
    BY <1>9, <2>1, WriteIsTyped DEF WriteSchema, TypeOK
  <2>4. mode' = mode /\ wire' = wire
    BY <1>9 DEF WriteSchema
  <2> QED BY <2>2, <2>3, <2>4 DEF FirstWrites
<1>10. CASE Mount
  BY <1>10 DEF Mount, Handle, FirstWrites, Phases
<1>11. CASE ConstructHooks
  BY <1>11 DEF ConstructHooks, Build, FirstWrites, Phases
<1>12. ASSUME NEW p \in Paths, RegisterHook(p) PROVE FirstWrites'
  BY <1>12 DEF RegisterHook, Handle, FirstWrites, Phases
<1>13. CASE NextAdapter
  BY <1>13 DEF NextAdapter, FirstWrites, Phases
<1>14. CASE Listen
  BY <1>14 DEF Listen, FirstWrites, Phases
<1>15. CASE UNCHANGED vars
  BY <1>15 DEF vars, FirstWrites, Phases
<1> QED BY <1>1, <1>2, <1>3, <1>4, <1>5, <1>6, <1>7, <1>8, <1>9, <1>10, <1>11, <1>12, <1>13, <1>14, <1>15
           DEF Next

(* One more name counts for the adapter it names.                          *)
LEMMA CountNext ==
  ASSUME NEW n \in Nat, NEW q, NEW a
  PROVE  Cardinality({j \in 1 .. n + 1 : q[j] = a}) =
           Cardinality({j \in 1 .. n : q[j] = a}) + (IF q[n + 1] = a THEN 1 ELSE 0)
<1> DEFINE S == {j \in 1 .. n : q[j] = a}
<1>1. IsFiniteSet(S)
  <2>1. S \subseteq 1 .. n
    OBVIOUS
  <2>2. IsFiniteSet(1 .. n)
    BY FS_Interval
  <2> QED BY <2>1, <2>2, FS_Subset
<1>2. Cardinality(S) \in Nat
  BY <1>1, FS_CardinalityType
<1>3. CASE q[n + 1] = a
  <2>1. {j \in 1 .. n + 1 : q[j] = a} = S \cup {n + 1} /\ n + 1 \notin S
    BY <1>3
  <2> HIDE DEF S
  <2>2. Cardinality(S \cup {n + 1}) = Cardinality(S) + 1
    BY <1>1, <2>1, FS_AddElement
  <2> QED BY <1>3, <2>1, <2>2 DEF S
<1>4. CASE q[n + 1] # a
  <2>1. {j \in 1 .. n + 1 : q[j] = a} = S
    BY <1>4
  <2> QED BY <1>2, <1>4, <2>1
<1> QED BY <1>3, <1>4

LEMMA BuiltSoFarStep ==
  ASSUME IInv, [Next]_vars
  PROVE  BuiltSoFar'
<1> USE DEF IInv
<1>1. CASE Fail
  BY <1>1 DEF Fail, BuiltSoFar, Going
<1>2. CASE ConstructAll
  <2>1. /\ Head(queue) \in Adapters /\ queue # << >> /\ mode = "registry" /\ mode' = mode
        /\ asked' = asked /\ built' = [built EXCEPT ![Head(queue)] = @ + 1] /\ Going
    BY <1>2 DEF ConstructAll, Build, Going
  <2>2. Done' = Done + 1 /\ Done \in Nat /\ Head(queue) = asked[Done + 1]
    BY <1>2, <2>1, NextName, FirstOfQueue DEF ConstructAll
  <2>3. \A a \in Adapters :
          /\ built[a] = Cardinality({j \in 1 .. Done : asked[j] = a})
          /\ built'[a] = built[a] + (IF asked[Done + 1] = a THEN 1 ELSE 0)
    BY <2>1, <2>2 DEF BuiltSoFar, TypeOK
  <2>4. \A a \in Adapters : built'[a] = Cardinality({j \in 1 .. Done + 1 : asked[j] = a})
    <3> TAKE a \in Adapters
    <3>1. Cardinality({j \in 1 .. Done + 1 : asked[j] = a}) =
            Cardinality({j \in 1 .. Done : asked[j] = a}) + (IF asked[Done + 1] = a THEN 1 ELSE 0)
      BY <2>2, CountNext
    <3> QED BY <2>3, <3>1
  <2> QED BY <2>1, <2>2, <2>4 DEF BuiltSoFar
<1>3. CASE SetUp
  BY <1>3 DEF SetUp, BuiltSoFar, Phases, Working, Going, Done
<1>4. CASE RegisterNext
  BY <1>4 DEF RegisterNext, BuiltSoFar, Phases, Working, Going, Done
<1>5. CASE PrepareAdapterRegistration
  <2>1. /\ queue # << >> /\ mode = "router" /\ mode' = mode /\ asked' = asked
        /\ queue' = queue /\ built' = [built EXCEPT ![Head(queue)] = @ + 1]
        /\ pc = "construct" /\ pc' = "register"
    BY <1>5 DEF PrepareAdapterRegistration, Build
  <2>2. Done' = Done /\ Done \in Nat /\ Head(queue) = asked[Done + 1]
        /\ Done + 1 \in 1 .. Len(asked) /\ Len(asked) \in Nat
    BY <2>1, FirstOfQueue, RouterNames DEF Done, Phases
  <2>3. \A j \in 1 .. Len(asked) : asked[j] \in Adapters /\ built[asked[j]] \in Nat
          /\ built'[asked[j]] = IF j = Done + 1 THEN built[asked[j]] + 1 ELSE built[asked[j]]
    BY <2>1, <2>2, RouterNames DEF TypeOK, Phases
  <2>4. /\ \A j \in 1 .. Done : built[asked[j]] = 2
        /\ \A j \in Done + 1 .. Len(asked) : built[asked[j]] = 0
    BY <2>1 DEF BuiltSoFar, Going, Working
  <2>5. /\ \A j \in 1 .. Done : built'[asked[j]] = 2
        /\ \A j \in Done + 1 .. Len(asked) : built'[asked[j]] = IF j = Done + 1 THEN 1 ELSE 0
    BY <2>2, <2>3, <2>4
  <2> QED BY <2>1, <2>2, <2>5 DEF BuiltSoFar, Working
<1>6. ASSUME NEW t \in Tools, NEW hold \in BOOLEAN, AddTool(t, hold) PROVE BuiltSoFar'
  BY <1>6 DEF AddTool, Registering, Record, BuiltSoFar, Phases, Working, Going, Done
<1>7. CASE AddToolPanics
  BY <1>7 DEF AddToolPanics, Record, BuiltSoFar, Phases, Working, Going, Done
<1>8. CASE RegisterReturns
  BY <1>8 DEF RegisterReturns, BuiltSoFar, Phases, Working, Going, Done
<1>9. ASSUME NEW k \in Keys, WriteSchema(k) PROVE BuiltSoFar'
  BY <1>9 DEF WriteSchema, Registering, BuiltSoFar, Phases, Working, Going, Done
<1>10. CASE Mount
  BY <1>10 DEF Mount, Handle, BuiltSoFar, Phases, Working, Going, Done
<1>11. CASE ConstructHooks
  <2>1. /\ mode' = mode /\ asked' = asked /\ queue' = queue /\ pc' = pc /\ pc = "hooks"
        /\ built' = [built EXCEPT ![current[1]] = @ + 1] /\ current[2] = built[current[1]]
    BY <1>11 DEF ConstructHooks, Build
  <2>2. mode = "router" /\ queue # << >> /\ current = <<Head(queue), 1>>
    BY <2>1 DEF Phases, Working, TypeOK
  <2>3. Done' = Done /\ Done \in Nat /\ Head(queue) = asked[Done + 1]
        /\ Done + 1 \in 1 .. Len(asked) /\ Len(asked) \in Nat
    BY <2>1, <2>2, FirstOfQueue, RouterNames DEF Done, Phases
  <2>4. \A j \in 1 .. Len(asked) : asked[j] \in Adapters /\ built[asked[j]] \in Nat
          /\ built'[asked[j]] = IF j = Done + 1 THEN 2 ELSE built[asked[j]]
    BY <2>1, <2>2, <2>3, RouterNames DEF TypeOK, Phases
  <2>5. /\ \A j \in 1 .. Done : built[asked[j]] = 2
        /\ \A j \in Done + 1 .. Len(asked) : j # Done + 1 => built[asked[j]] = 0
    BY <2>1, <2>2 DEF BuiltSoFar, Going, Working
  <2>6. /\ \A j \in 1 .. Done : built'[asked[j]] = 2
        /\ \A j \in Done + 1 .. Len(asked) : built'[asked[j]] = IF j = Done + 1 THEN 2 ELSE 0
    BY <2>3, <2>4, <2>5
  <2> QED BY <2>1, <2>2, <2>3, <2>6 DEF BuiltSoFar, Working
<1>12. ASSUME NEW p \in Paths, RegisterHook(p) PROVE BuiltSoFar'
  BY <1>12 DEF RegisterHook, Handle, BuiltSoFar, Phases, Working, Going, Done
<1>13. CASE NextAdapter
  <2>1. /\ mode' = mode /\ asked' = asked /\ queue' = Tail(queue) /\ pc' = "construct"
        /\ built' = built /\ pc = "hooks" /\ current[2] < built[current[1]]
    BY <1>13 DEF NextAdapter
  <2>2. mode = "router" /\ queue # << >> /\ current = <<Head(queue), 1>>
    BY <2>1 DEF Phases, Working, TypeOK
  <2>3. Done' = Done + 1 /\ Done \in Nat /\ Head(queue) = asked[Done + 1]
        /\ Done + 1 \in 1 .. Len(asked) /\ Len(asked) \in Nat
    BY <2>1, <2>2, FirstOfQueue, RouterNames, NextName, AtWork DEF Phases
  <2>4. /\ \A j \in 1 .. Done : built[asked[j]] = 2
        /\ \A j \in Done + 1 .. Len(asked) : j # Done + 1 => built[asked[j]] = 0
        /\ built[asked[Done + 1]] \in {1, 2}
    BY <2>1, <2>2, <2>3 DEF BuiltSoFar, Going, Working
  <2>5. built[asked[Done + 1]] = 2
    BY <2>1, <2>2, <2>3, <2>4
  <2> QED BY <2>1, <2>2, <2>3, <2>4, <2>5 DEF BuiltSoFar, Working
<1>14. CASE Listen
  BY <1>14 DEF Listen, BuiltSoFar, Phases, Working, Going, Done
<1>15. CASE UNCHANGED vars
  BY <1>15 DEF vars, BuiltSoFar, Phases, Working, Going, Done
<1> QED BY <1>1, <1>2, <1>3, <1>4, <1>5, <1>6, <1>7, <1>8, <1>9, <1>10, <1>11, <1>12, <1>13, <1>14, <1>15
           DEF Next

(* What a registration adds to the hold lists and to its server.           *)
LEMMA RecordedName ==
  ASSUME tools \in Seq(Records), NEW t, NEW hold, Record(t, hold)
  PROVE  RegisteredNames(FALSE)' = RegisteredNames(FALSE) \cup (IF hold = FALSE THEN {t} ELSE {})
<1> DEFINE r == [name |-> t, hold |-> hold, by |-> current]
<1>1. tools' = Append(tools, r) /\ r.name = t /\ r.hold = hold
  BY DEF Record
<1> HIDE DEF r
<1>2. /\ Len(tools) \in Nat /\ DOMAIN tools = 1 .. Len(tools)
      /\ DOMAIN tools' = 1 .. Len(tools) + 1
      /\ \A j \in 1 .. Len(tools) : tools'[j] = tools[j]
      /\ tools'[Len(tools) + 1] = r
  BY <1>1, LenProperties
<1> QED BY <1>1, <1>2 DEF RegisteredNames

LEMMA ToolOnWire ==
  ASSUME wire \in [Servers -> [Tools -> Instances \cup {None}]], current \in Instances,
         NEW t \in Tools, NEW hold \in BOOLEAN, ServerOf(current) \in Servers,
         wire' = IF hold THEN wire ELSE [wire EXCEPT ![ServerOf(current)][t] = current],
         NEW s \in Servers
  PROVE  OnWire(s)' = OnWire(s) \cup (IF ~hold /\ s = ServerOf(current) THEN {t} ELSE {})
<1>1. current # None
  BY InstanceParts
<1>2. \A x \in Tools : wire'[s][x] = IF ~hold /\ s = ServerOf(current) /\ x = t
                                        THEN current ELSE wire[s][x]
  BY WriteIsTyped
<1> QED BY <1>1, <1>2 DEF OnWire

(* A step that leaves the registry and the servers alone.                  *)
LEMMA SameRegistry ==
  ASSUME RegistryIsWire, UNCHANGED <<mode, asked, queue, current, tools, wire>>,
         Going' => /\ Going
                   /\ mode = "router" => (Working <=> Working')
                   /\ pc' = "construct" => pc = "construct"
  PROVE  RegistryIsWire'
BY DEF RegistryIsWire, Done, RegisteredNames, OnWire

LEMMA RegistryIsWireStep ==
  ASSUME IInv, [Next]_vars
  PROVE  RegistryIsWire'
<1> USE DEF IInv
<1>1. CASE Fail
  BY <1>1 DEF Fail, RegistryIsWire, Going
<1>2. CASE ConstructAll
  <2>1. /\ mode = "registry" /\ mode' = mode /\ tools' = tools /\ wire' = wire /\ pc' = pc
        /\ pc = "construct"
    BY <1>2 DEF ConstructAll
  <2> QED BY <2>1 DEF RegistryIsWire, Going, RegisteredNames, OnWire
<1>3. CASE SetUp
  <2>1. /\ mode = "registry" /\ mode' = mode /\ tools' = << >> /\ wire' = wire /\ pc = "construct"
        /\ pc' = "setup"
    BY <1>3 DEF SetUp
  <2>2. OnWire(Shared)' = {}
    BY <2>1 DEF RegistryIsWire, Going, OnWire
  <2>3. RegisteredNames(FALSE)' = {}
    BY <2>1, EmptySeq DEF RegisteredNames
  <2> QED BY <2>1, <2>2, <2>3 DEF RegistryIsWire
<1>4. CASE RegisterNext
  <2>1. /\ mode = "registry" /\ mode' = mode /\ tools' = tools /\ wire' = wire
        /\ pc' # "construct" /\ Going
    BY <1>4 DEF RegisterNext, Phases, TypeOK, Going
  <2> QED BY <2>1 DEF RegistryIsWire, RegisteredNames, OnWire
<1>5. CASE PrepareAdapterRegistration
  <2>1. /\ queue # << >> /\ mode = "router" /\ mode' = mode /\ asked' = asked /\ wire' = wire
        /\ queue' = queue /\ tools' = << >> /\ current' = Fresh(Head(queue))
        /\ pc = "construct" /\ pc' = "register"
    BY <1>5 DEF PrepareAdapterRegistration, Build
  <2>2. Done' = Done /\ Done + 1 \in Done + 1 .. Len(asked) /\ Head(queue) = asked[Done + 1]
    BY <2>1, FirstOfQueue DEF Done
  <2>3. \A j \in Done + 1 .. Len(asked) : OnWire(asked[j]) = {}
    BY <2>1 DEF RegistryIsWire, Going, Working
  <2>4. \A j \in Done' + 1 .. Len(asked') : OnWire(asked[j])' = {}
    BY <2>1, <2>2, <2>3 DEF OnWire
  <2>5. RegisteredNames(FALSE)' = {}
    BY <2>1, EmptySeq DEF RegisteredNames
  <2>6. OnWire(current[1])' = {}
    BY <2>1, <2>2, <2>3 DEF Fresh, OnWire
  <2> QED BY <2>1, <2>4, <2>5, <2>6 DEF RegistryIsWire
<1>6. ASSUME NEW t \in Tools, NEW hold \in BOOLEAN, AddTool(t, hold) PROVE RegistryIsWire'
  <2>1. /\ mode' = mode /\ asked' = asked /\ queue' = queue /\ current' = current /\ pc' = pc
        /\ pc = "register" /\ Going /\ Working /\ Done' = Done
        /\ Record(t, hold)
        /\ wire' = IF hold THEN wire ELSE [wire EXCEPT ![ServerOf(current)][t] = current]
    BY <1>6 DEF AddTool, Registering, Going, Working, Done
  <2>2. current \in Instances /\ ServerOf(current) \in Servers
    BY <2>1, ServerOfCurrent DEF Phases
  <2>3. RegisteredNames(FALSE)' = RegisteredNames(FALSE) \cup (IF hold THEN {} ELSE {t})
    BY <2>1, RecordedName DEF TypeOK
  <2>4. \A s \in Servers :
          OnWire(s)' = OnWire(s) \cup (IF ~hold /\ s = ServerOf(current) THEN {t} ELSE {})
    BY <2>1, <2>2, ToolOnWire DEF TypeOK
  <2>5. CASE mode = "router"
    <3>1. queue # << >> /\ current = <<Head(queue), 1>> /\ ServerOf(current) = Head(queue)
      BY <2>1, <2>5, AtWork DEF Phases
    <3>2. /\ Done \in Nat /\ Head(queue) = asked[Done + 1] /\ Done + 1 \in 1 .. Len(asked)
          /\ Len(asked) \in Nat
          /\ \A j \in 1 .. Len(asked) : asked[j] \in Servers
          /\ \A i, j \in 1 .. Len(asked) : i # j => asked[i] # asked[j]
      BY <2>5, <3>1, FirstOfQueue, RouterNames DEF Phases, Servers
    <3>3. RegisteredNames(FALSE)' = OnWire(Head(queue))'
      <4>1. RegisteredNames(FALSE) = OnWire(Head(queue))
        BY <2>1, <2>2, <2>5, <3>1, InstanceParts DEF RegistryIsWire
      <4>2. OnWire(Head(queue))' = OnWire(Head(queue)) \cup (IF hold THEN {} ELSE {t})
        BY <2>1, <2>4, <3>1, <3>2 DEF OnWire
      <4> QED BY <2>3, <4>1, <4>2
    <3>4. \A j \in Done + 1 .. Len(asked) : j # Done + 1 => OnWire(asked[j])' = {}
      <4>1. \A j \in Done + 1 .. Len(asked) : j # Done + 1 => OnWire(asked[j]) = {}
        BY <2>1, <2>5 DEF RegistryIsWire
      <4>2. \A j \in Done + 1 .. Len(asked) : j # Done + 1 =>
              asked[j] \in Servers /\ asked[j] # Head(queue)
        <5> TAKE j \in Done + 1 .. Len(asked)
        <5>1. j \in 1 .. Len(asked)
          BY <3>2
        <5> QED BY <3>2, <5>1
      <4> QED BY <2>1, <2>4, <3>1, <4>1, <4>2 DEF OnWire
    <3> QED BY <2>1, <2>5, <3>1, <3>3, <3>4 DEF RegistryIsWire, OnWire, Working
  <2>6. CASE mode = "registry"
    <3>1. ServerOf(current) = Shared /\ Shared \in Servers /\ RegisteredNames(FALSE) = OnWire(Shared)
      BY <2>1, <2>6 DEF ServerOf, Servers, RegistryIsWire
    <3>2. RegisteredNames(FALSE)' = OnWire(Shared)'
      BY <2>3, <2>4, <3>1
    <3> QED BY <2>1, <2>6, <3>2 DEF RegistryIsWire
  <2> QED BY <2>5, <2>6 DEF TypeOK
<1>7. CASE AddToolPanics
  BY <1>7 DEF AddToolPanics, RegistryIsWire, Going
<1>8. CASE RegisterReturns
  BY <1>8, SameRegistry DEF RegisterReturns, Going, Phases, Working, TypeOK
<1>9. ASSUME NEW k \in Keys, WriteSchema(k) PROVE RegistryIsWire'
  BY <1>9, SameRegistry DEF WriteSchema, Registering, Going, Phases, Working, TypeOK
<1>10. CASE Mount
  BY <1>10, SameRegistry DEF Mount, Handle, Going, Phases, Working, TypeOK
<1>11. CASE ConstructHooks
  BY <1>11, SameRegistry DEF ConstructHooks, Build, Going, Phases, Working, TypeOK
<1>12. ASSUME NEW p \in Paths, RegisterHook(p) PROVE RegistryIsWire'
  BY <1>12, SameRegistry DEF RegisterHook, Handle, Going, Phases, Working, TypeOK
<1>13. CASE NextAdapter
  <2>1. /\ mode' = mode /\ asked' = asked /\ queue' = Tail(queue) /\ pc' = "construct"
        /\ tools' = tools /\ wire' = wire /\ current' = current /\ pc = "hooks"
    BY <1>13 DEF NextAdapter
  <2>2. mode = "router" /\ queue # << >>
    BY <2>1 DEF Phases, Working, TypeOK
  <2>3. Done' = Done + 1 /\ Done \in Nat /\ Len(asked) \in Nat
    BY <2>1, <2>2, RouterNames, NextName, AtWork DEF Phases
  <2>4. \A j \in Done' + 1 .. Len(asked) : OnWire(asked[j]) = {}
    <3>1. \A j \in Done' + 1 .. Len(asked) : j \in Done + 1 .. Len(asked) /\ j # Done + 1
      BY <2>3
    <3>2. \A j \in Done + 1 .. Len(asked) : j # Done + 1 => OnWire(asked[j]) = {}
      BY <2>1, <2>2 DEF RegistryIsWire, Going
    <3> QED BY <3>1, <3>2
  <2>5. \A j \in Done' + 1 .. Len(asked') : OnWire(asked[j])' = {}
    BY <2>1, <2>4 DEF OnWire
  <2>6. current' # None => RegisteredNames(FALSE)' = OnWire(current[1])'
    BY <2>1, <2>2 DEF RegistryIsWire, Going, RegisteredNames, OnWire
  <2> QED BY <2>1, <2>2, <2>5, <2>6 DEF RegistryIsWire
<1>14. CASE Listen
  BY <1>14, SameRegistry DEF Listen, Going, Phases, Working, TypeOK
<1>15. CASE UNCHANGED vars
  BY <1>15, SameRegistry DEF vars, Going, Phases, Working, TypeOK
<1> QED BY <1>1, <1>2, <1>3, <1>4, <1>5, <1>6, <1>7, <1>8, <1>9, <1>10, <1>11, <1>12, <1>13, <1>14, <1>15
           DEF Next

(* Handle takes a free pattern, and changes no other.                      *)
LEMMA HandleKeeps ==
  ASSUME TypeOK, NEW p \in Paths, NEW x, NEW then, Handle(p, x, then)
  PROVE  /\ \A q \in Paths : routes[q] # None => routes'[q] = routes[q]
         /\ pc' # "panicked" => routes'[p] = x
BY DEF Handle, TypeOK

LEMMA MountedStays ==
  ASSUME TypeOK, QueueIsRest, Mounted, UNCHANGED <<mode, asked, queue>>,
         \A q \in Paths : routes[q] # None => routes'[q] = routes[q],
         Going' => Going,
         mode = "router" /\ pc' = "hooks" => routes'[MountOf[current'[1]]] = "mcp"
  PROVE  Mounted'
<1>1. \A p \in GatewayPaths : routes[p] = "gateway" => routes'[p] = "gateway"
  BY NamesAssumption, NoneAssumption DEF Serving
<1>2. \A j \in 1 .. Done : MountOf[asked[j]] \in Paths
  BY NamesAssumption DEF QueueIsRest
<1>3. \A j \in 1 .. Done : routes[MountOf[asked[j]]] = "mcp" => routes'[MountOf[asked[j]]] = "mcp"
  BY <1>2, NoneAssumption DEF Serving
<1> QED BY <1>1, <1>3 DEF Mounted, Done

LEMMA MountedStep ==
  ASSUME IInv, [Next]_vars
  PROVE  Mounted'
<1> USE DEF IInv
<1>1. CASE Fail
  BY <1>1 DEF Fail, Mounted, Going, Phases
<1>2. CASE ConstructAll
  BY <1>2 DEF ConstructAll, Mounted
<1>3. CASE SetUp
  BY <1>3 DEF SetUp, Mounted, Going, Done
<1>4. CASE RegisterNext
  BY <1>4 DEF RegisterNext, Phases, Mounted
<1>5. CASE PrepareAdapterRegistration
  BY <1>5 DEF PrepareAdapterRegistration, Build, Mounted, Going, Done
<1>6. ASSUME NEW t \in Tools, NEW hold \in BOOLEAN, AddTool(t, hold) PROVE Mounted'
  BY <1>6 DEF AddTool, Registering, Record, Mounted, Going, Done
<1>7. CASE AddToolPanics
  BY <1>7 DEF AddToolPanics, Record, Mounted, Going, Done
<1>8. CASE RegisterReturns
  BY <1>8 DEF RegisterReturns, Mounted, Going, Done
<1>9. ASSUME NEW k \in Keys, WriteSchema(k) PROVE Mounted'
  BY <1>9 DEF WriteSchema, Registering, Mounted, Going, Done
<1>10. CASE Mount
  <2>1. mode = "router" /\ current[1] \in Adapters /\ queue # << >>
    BY <1>10, InstanceParts DEF Mount, Phases, Working, TypeOK
  <2>2. MountOf[current[1]] \in Paths
    BY <2>1, NamesAssumption
  <2>3. /\ UNCHANGED <<mode, asked, queue, current>> /\ pc = "mount"
        /\ \A q \in Paths : routes[q] # None => routes'[q] = routes[q]
        /\ pc' # "panicked" => routes'[MountOf[current[1]]] = "mcp"
    BY <1>10, <2>2, HandleKeeps DEF Mount
  <2> QED BY <2>3, MountedStays DEF Going
<1>11. CASE ConstructHooks
  BY <1>11 DEF ConstructHooks, Build, Mounted, Going, Done
<1>12. ASSUME NEW p \in Paths, RegisterHook(p) PROVE Mounted'
  <2>1. /\ UNCHANGED <<mode, asked, queue, current>> /\ pc = "hooks"
        /\ \A q \in Paths : routes[q] # None => routes'[q] = routes[q]
    BY <1>12, HandleKeeps DEF RegisterHook
  <2>2. current \in Instances
    BY <2>1 DEF Phases, Working
  <2>3. MountOf[current[1]] \in Paths
    BY <2>2, InstanceParts, NamesAssumption
  <2>4. routes'[MountOf[current[1]]] = "mcp" \/ mode # "router"
    BY <2>1, <2>3, NoneAssumption DEF Mounted, Serving
  <2> QED BY <2>1, <2>4, MountedStays DEF Going
<1>13. CASE NextAdapter
  <2>1. /\ mode' = mode /\ asked' = asked /\ queue' = Tail(queue) /\ pc' = "construct"
        /\ routes' = routes /\ pc = "hooks"
    BY <1>13 DEF NextAdapter
  <2>2. mode = "router" /\ queue # << >> /\ current = <<Head(queue), 1>>
    BY <2>1 DEF Phases, Working, TypeOK
  <2>3. Done' = Done + 1 /\ Done \in Nat /\ asked[Done + 1] = current[1]
    BY <2>1, <2>2, FirstOfQueue, NextName, AtWork
  <2>4. \A j \in 1 .. Done + 1 : routes[MountOf[asked[j]]] = "mcp"
    BY <2>1, <2>2, <2>3 DEF Mounted, Going
  <2> QED BY <2>1, <2>2, <2>3, <2>4 DEF Mounted
<1>14. CASE Listen
  BY <1>14 DEF Listen, Mounted, Going, Done
<1>15. CASE UNCHANGED vars
  BY <1>15 DEF vars, Mounted, Going, Done
<1> QED BY <1>1, <1>2, <1>3, <1>4, <1>5, <1>6, <1>7, <1>8, <1>9, <1>10, <1>11, <1>12, <1>13, <1>14, <1>15
           DEF Next

(***************************************************************************)
(* The start keeps its invariant, whatever it has come to.                 *)
(***************************************************************************)
THEOREM StartInvariant == Spec => []IInv
<1>1. IInv /\ [Next]_vars => IInv'
  BY TypeOKStep, QueueIsRestStep, PhasesStep, FirstWritesStep, BuiltSoFarStep,
     RegistryIsWireStep, MountedStep DEF IInv
<1> QED BY <1>1, InitIInv, PTL DEF Spec

(* The variables of a start have their types.                              *)
THEOREM StartTypes == Spec => []TypeOK
<1>1. IInv => TypeOK
  BY DEF IInv
<1> QED BY <1>1, StartInvariant, PTL

(* The tools and the config keys of a router's server are those of the one *)
(* first construction of its adapter (router.go:16-44): none of another    *)
(* adapter, and none of its own second construction, for the vendor routes.*)
THEOREM ServersAreOwn == Spec => []OwnServer
<1>1. IInv => OwnServer
  <2> SUFFICES ASSUME IInv, mode = "router", NEW s \in Servers, NEW t \in Tools, NEW k \in Keys
               PROVE  /\ wire[s][t] # None => wire[s][t][1] = s
                      /\ schema[s][k] # None => schema[s][k][1] = s
                      /\ wire[s][t] # None /\ schema[s][k] # None => wire[s][t] = schema[s][k]
    BY DEF OwnServer
  <2>1. wire[s][t] \in {None, <<s, 1>>} /\ schema[s][k] \in {None, <<s, 1>>}
    BY DEF IInv, FirstWrites
  <2> QED BY <2>1
<1> QED BY <1>1, StartInvariant, PTL

(* When an adapter has registered, the tools that PublishableToolNames     *)
(* lists are exactly those on the wire of its server (addtool.go:15).      *)
THEOREM HeldToolsOffTheWire == Spec => []HoldListsMatchWire
<1>1. IInv => HoldListsMatchWire
  <2> SUFFICES ASSUME IInv, pc \in {"mount", "hooks", "listening"}, current # None
               PROVE  RegisteredNames(FALSE) = OnWire(ServerOf(current))
    BY DEF HoldListsMatchWire
  <2>1. RegistryIsWire /\ Going /\ mode \in {"router", "registry"}
    BY DEF IInv, Going, TypeOK
  <2> QED BY <2>1 DEF RegistryIsWire, ServerOf
<1> QED BY <1>1, StartInvariant, PTL

(* A start that listens has constructed every adapter it was asked for, as *)
(* often as its mode does, and a router has mounted them all next to the   *)
(* gateways; a name without a constructor is not among those asked for     *)
(* (adapter.go:66-98, router.go:86-109).                                   *)
THEOREM ListensWithAll == Spec => []AllOrNothing
<1>1. ASSUME IInv, pc = "listening" PROVE Done = Len(asked) /\ Going /\ Len(asked) \in Nat
  <2>1. queue = << >>
    BY <1>1 DEF IInv, Phases, TypeOK
  <2>2. Len(queue) = 0 /\ Len(asked) \in Nat
    BY <1>1, <2>1, EmptySeq, LenProperties DEF IInv, TypeOK
  <2> QED BY <1>1, <2>2 DEF Done, Going
<1>2. ASSUME IInv, pc = "listening", mode = "registry", NEW a \in Adapters
      PROVE  built[a] = Occurrences(a)
  <2>1. DOMAIN asked = 1 .. Done
    BY <1>1, <1>2, LenProperties DEF IInv, TypeOK
  <2> QED BY <1>1, <1>2, <2>1 DEF IInv, BuiltSoFar, Occurrences
<1>3. ASSUME IInv, pc = "listening", mode = "router", NEW a \in Adapters
      PROVE  built[a] = 2 /\ Occurrences(a) = 1 /\ routes[MountOf[a]] = "mcp"
  <2> DEFINE n == Len(asked)
  <2>1. /\ asked \in [1 .. n -> Adapters] /\ n = Cardinality(Adapters) /\ n \in Nat
        /\ \A j, k \in 1 .. n : j # k => asked[j] # asked[k]
    BY <1>3, RouterNames, LenProperties DEF IInv, Phases
  <2>2. Done = n /\ Going
    BY <1>1, <1>3
  <2>3. \A j \in 1 .. n : built[asked[j]] = 2 /\ routes[MountOf[asked[j]]] = "mcp"
    BY <1>3, <2>2 DEF IInv, BuiltSoFar, Mounted
  <2> HIDE DEF n
  <2>4. PICK m \in 1 .. n : asked[m] = a
    <3>1. asked \in Injection(1 .. n, Adapters)
      BY <2>1 DEF Injection, IsInjective
    <3>2. Cardinality(1 .. n) = Cardinality(Adapters)
      BY <2>1, FS_Interval
    <3>3. asked \in Surjection(1 .. n, Adapters)
      BY <3>1, <3>2, FS_Injection, NamesAssumption
    <3> QED BY <3>3 DEF Surjection
  <2>5. {j \in DOMAIN asked : asked[j] = a} = {m}
    BY <2>1, <2>4
  <2> QED BY <2>3, <2>4, <2>5, FS_Singleton DEF Occurrences
<1>4. IInv => AllOrNothing
  <2> SUFFICES ASSUME IInv, pc = "listening"
               PROVE  /\ \A a \in Adapters :
                           built[a] = (IF mode = "router" THEN 2 ELSE 1) * Occurrences(a)
                      /\ mode = "router" =>
                           /\ \A a \in Adapters : routes[MountOf[a]] = "mcp"
                           /\ \A p \in GatewayPaths : routes[p] = "gateway"
                      /\ \A j \in DOMAIN asked : asked[j] \in Adapters
    BY DEF AllOrNothing
  <2>1. built \in [Adapters -> Nat] /\ mode \in {"router", "registry"}
    BY DEF IInv, TypeOK
  <2>2. \A a \in Adapters : built[a] = (IF mode = "router" THEN 2 ELSE 1) * Occurrences(a)
    <3>1. CASE mode = "router"
      BY <1>3, <3>1
    <3>2. CASE mode = "registry"
      <4> TAKE a \in Adapters
      <4>1. built[a] = Occurrences(a) /\ built[a] \in Nat
        BY <1>2, <2>1, <3>2
      <4> QED BY <3>2, <4>1
    <3> QED BY <2>1, <3>1, <3>2
  <2>3. \A p \in GatewayPaths : mode = "router" => routes[p] = "gateway"
    BY DEF IInv, Mounted
  <2>4. \A j \in DOMAIN asked : asked[j] \in Adapters
    BY <1>1, LenProperties DEF IInv, TypeOK, QueueIsRest
  <2> QED BY <1>3, <2>2, <2>3, <2>4
<1> QED BY <1>4, StartInvariant, PTL
================================================================================
