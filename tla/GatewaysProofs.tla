----------------------------- MODULE GatewaysProofs -----------------------------
(***************************************************************************)
(* Proofs about the gateways and the config middleware, for any schema,    *)
(* environment, payloads and lists of tools: what decides a request is     *)
(* what Control answered for that very request, and the greatest index at  *)
(* which the environment, or a list of headers, has a name.                *)
(***************************************************************************)
EXTENDS Gateways, SequenceTheorems, WellFoundedInduction, TLAPS

(***************************************************************************)
(* The library.                                                            *)
(***************************************************************************)

(* A set of naturals has a least element.                                  *)
LEMMA LeastNatural ==
  ASSUME NEW T \in SUBSET Nat, T # {}
  PROVE  \E x \in T : \A y \in T : x <= y
<1>1. PICK x \in T : \A y \in T : ~(<<y, x>> \in OpToRel(<, Nat))
  BY NatLessThanWellFounded, WFMin
<1>2. \A y \in T : y < x => <<y, x>> \in OpToRel(<, Nat)
  BY DEF OpToRel
<1>3. \A y \in T : ~(y < x)
  BY <1>1, <1>2
<1>4. \A y \in T : x <= y
  BY <1>3
<1> QED BY <1>4

(* The least and the greatest index of a set of them.                      *)
LEMMA LeastIndex ==
  ASSUME NEW T \in SUBSET Nat, T # {}
  PROVE  Min(T) \in T
<1>1. \E x \in T : \A y \in T : x <= y
  BY LeastNatural
<1> QED BY <1>1 DEF Min

LEMMA GreatestIndex ==
  ASSUME NEW n \in Nat, NEW T \in SUBSET (1 .. n), T # {}
  PROVE  Max(T) \in T /\ \A y \in T : y <= Max(T)
<1> DEFINE U == {z \in Nat : \E x \in T : z = n - x}
<1>1. U \in SUBSET Nat /\ U # {}
  <2>1. PICK x \in T : TRUE
    OBVIOUS
  <2>2. n - x \in U
    BY <2>1
  <2> QED BY <2>2
<1> HIDE DEF U
<1>2. PICK u \in U : \A v \in U : u <= v
  BY <1>1, LeastNatural
<1>3. PICK x \in T : u = n - x
  BY DEF U
<1>4. \A y \in T : x >= y
  <2> TAKE y \in T
  <2>1. y \in 1 .. n /\ x \in 1 .. n
    OBVIOUS
  <2>2. n - y \in U
    BY <2>1 DEF U
  <2>3. n - x <= n - y
    BY <1>2, <1>3, <2>2
  <2> QED BY <2>1, <2>3
<1>5. \E m \in T : \A y \in T : m >= y
  BY <1>4
<1>6. Max(T) \in T /\ \A y \in T : Max(T) >= y
  BY <1>5 DEF Max
<1> QED BY <1>6

(* A partial function is one from a part of the keys.                      *)
LEMMA PartialFunction ==
  ASSUME NEW K, NEW V, NEW f
  PROVE  f \in Partial(K, V) <=> DOMAIN f \subseteq K /\ f \in [DOMAIN f -> V]
BY DEF Partial

LEMMA NothingKnown ==
  ASSUME NEW K, NEW V
  PROVE  << >> \in Partial(K, V) /\ DOMAIN << >> = {}
<1>1. DOMAIN << >> = {} /\ << >> \in [{} -> V]
  OBVIOUS
<1> QED BY <1>1 DEF Partial

(***************************************************************************)
(* The environment (env_config.go): of each name, the last variable that   *)
(* is not blank; of each key, the one without a prefix before the other.   *)
(***************************************************************************)

Of(n) == {i \in DOMAIN environ : environ[i].name = n /\ environ[i].value # Blank}

Beats(i, j) ==
  LET p == environ[i].name[1]
      q == environ[j].name[1]
  IN  (p = "plain" /\ q = "AR_") \/ (p = q /\ i > j)

LEMMA VariableParts ==
  ASSUME TypeOK, NEW i \in DOMAIN environ
  PROVE  /\ Len(environ) \in Nat /\ DOMAIN environ = 1 .. Len(environ)
         /\ environ[i].name = <<environ[i].name[1], environ[i].name[2]>>
         /\ environ[i].name[1] \in {"plain", "AR_"} /\ environ[i].name[2] \in Keys
         /\ environ[i].value \in EnvValues \cup {Blank}
<1>1. environ \in Seq(Variables)
  BY DEF TypeOK
<1>2. Len(environ) \in Nat /\ DOMAIN environ = 1 .. Len(environ) /\ environ[i] \in Variables
  BY <1>1, LenProperties, ElementOfSeq
<1>3. environ[i].name \in {"plain", "AR_"} \X Keys /\ environ[i].value \in EnvValues \cup {Blank}
  BY <1>2 DEF Variables
<1> QED BY <1>2, <1>3

LEMMA LastOfName ==
  ASSUME TypeOK, NEW n
  PROVE  /\ n \in DOMAIN EnvIdx <=> Of(n) # {}
         /\ Of(n) # {} => \E m \in Of(n) : /\ \A j \in Of(n) : j <= m
                                           /\ EnvIdx[n] = environ[m].value
<1> DEFINE filled == {i \in DOMAIN environ : environ[i].value # Blank}
           last(x) == Max({i \in filled : environ[i].name = x})
<1>1. EnvIdx = [x \in {environ[i].name : i \in filled} |-> environ[last(x)].value]
  BY DEF EnvIdx
<1>2. {i \in filled : environ[i].name = n} = Of(n)
  BY DEF Of
<1>3. n \in {environ[i].name : i \in filled} <=> Of(n) # {}
  BY DEF Of
<1>4. Of(n) # {} => Max(Of(n)) \in Of(n) /\ \A j \in Of(n) : j <= Max(Of(n))
  <2>1. Len(environ) \in Nat /\ Of(n) \in SUBSET (1 .. Len(environ))
    BY LenProperties DEF TypeOK, Of
  <2> QED BY <2>1, GreatestIndex
<1>5. Of(n) # {} => EnvIdx[n] = environ[Max(Of(n))].value
  BY <1>1, <1>2, <1>3
<1>6. n \in DOMAIN EnvIdx <=> Of(n) # {}
  BY <1>1, <1>3
<1> QED BY <1>4, <1>5, <1>6

LEMMA EnvGives ==
  ASSUME TypeOK, NEW k \in Keys
  PROVE  /\ Speaking(k) = {} => LookupSchemaEnv(k) = None
         /\ Speaking(k) # {} => \E i \in Speaking(k) :
              /\ \A j \in Speaking(k) \ {i} : Beats(i, j)
              /\ LookupSchemaEnv(k) = environ[i].value /\ environ[i].value \in EnvValues
<1>6. \A i \in DOMAIN environ :
        /\ environ[i].name = <<"plain", k>> <=> environ[i].name[1] = "plain" /\ environ[i].name[2] = k
        /\ environ[i].name = <<"AR_", k>> <=> environ[i].name[1] = "AR_" /\ environ[i].name[2] = k
  BY VariableParts
<1>1. Of(<<"plain", k>>) \cup Of(<<"AR_", k>>) = Speaking(k)
  BY <1>6, VariableParts DEF Of, Speaking
<1>2. ASSUME NEW i \in Speaking(k)
      PROVE  /\ i \in Nat /\ environ[i].value \in EnvValues
             /\ i \in Of(<<"plain", k>>) <=> environ[i].name[1] = "plain"
             /\ i \in Of(<<"AR_", k>>) <=> environ[i].name[1] = "AR_"
  BY <1>6, VariableParts DEF Of, Speaking
<1>3. CASE Of(<<"plain", k>>) # {}
  <2>1. PICK i \in Of(<<"plain", k>>) : /\ \A j \in Of(<<"plain", k>>) : j <= i
                                   /\ EnvIdx[<<"plain", k>>] = environ[i].value
    BY <1>3, LastOfName
  <2>2. LookupSchemaEnv(k) = environ[i].value
    BY <1>3, <2>1, LastOfName DEF LookupSchemaEnv
  <2>3. \A j \in Speaking(k) \ {i} : Beats(i, j)
    <3> TAKE j \in Speaking(k) \ {i}
    <3>1. CASE j \in Of(<<"plain", k>>)
      BY <1>1, <1>2, <2>1, <3>1 DEF Beats
    <3>2. CASE j \in Of(<<"AR_", k>>)
      BY <1>1, <1>2, <2>1, <3>2 DEF Beats
    <3> QED BY <1>1, <3>1, <3>2
  <2> QED BY <1>1, <1>2, <2>1, <2>2, <2>3
<1>4. CASE Of(<<"plain", k>>) = {} /\ Of(<<"AR_", k>>) # {}
  <2>1. PICK i \in Of(<<"AR_", k>>) : /\ \A j \in Of(<<"AR_", k>>) : j <= i
                                      /\ EnvIdx[<<"AR_", k>>] = environ[i].value
    BY <1>4, LastOfName
  <2>2. LookupSchemaEnv(k) = environ[i].value
    BY <1>4, <2>1, LastOfName DEF LookupSchemaEnv
  <2>3. \A j \in Speaking(k) \ {i} : Beats(i, j)
    BY <1>1, <1>2, <1>4, <2>1 DEF Beats
  <2> QED BY <1>1, <1>2, <2>1, <2>2, <2>3
<1>5. CASE Of(<<"plain", k>>) = {} /\ Of(<<"AR_", k>>) = {}
  <2>1. LookupSchemaEnv(k) = None
    BY <1>5, LastOfName DEF LookupSchemaEnv
  <2> QED BY <1>1, <1>5, <2>1
<1> QED BY <1>3, <1>4, <1>5

(* What the environment overrides, and what is merged.                     *)
LEMMA OverridesGiven ==
  ASSUME TypeOK
  PROVE  /\ DOMAIN schema \subseteq Keys
         /\ DOMAIN EnvOverrides = {k \in DOMAIN schema : Speaking(k) # {}}
         /\ \A k \in DOMAIN EnvOverrides : EnvOverrides[k] = LookupSchemaEnv(k)
         /\ EnvOverrides \in Partial(Keys, EnvValues)
<1>1. DOMAIN schema \subseteq Keys
  BY PartialFunction DEF TypeOK
<1>2. \A k \in DOMAIN schema : /\ LookupSchemaEnv(k) # None <=> Speaking(k) # {}
                               /\ Speaking(k) # {} => LookupSchemaEnv(k) \in EnvValues
  BY <1>1, EnvGives, ValuesAssumption
<1>3. /\ DOMAIN EnvOverrides = {k \in DOMAIN schema : Speaking(k) # {}}
      /\ \A k \in DOMAIN EnvOverrides : EnvOverrides[k] = LookupSchemaEnv(k)
      /\ EnvOverrides \in [DOMAIN EnvOverrides -> EnvValues]
  BY <1>2 DEF EnvOverrides
<1> QED BY <1>1, <1>3, PartialFunction

LEMMA MergeIsTyped ==
  ASSUME TypeOK, NEW view \in Partial(Keys, ControlValues)
  PROVE  Merge(view) \in Partial(Keys, EnvValues \cup ControlValues)
<1>1. /\ DOMAIN EnvOverrides \subseteq Keys /\ EnvOverrides \in [DOMAIN EnvOverrides -> EnvValues]
      /\ DOMAIN view \subseteq Keys /\ view \in [DOMAIN view -> ControlValues]
  BY OverridesGiven, PartialFunction
<1>2. Merge(view) \in [DOMAIN Merge(view) -> EnvValues \cup ControlValues]
      /\ DOMAIN Merge(view) \subseteq Keys
  BY <1>1 DEF Merge, Over
<1> QED BY <1>2, PartialFunction

(***************************************************************************)
(* The middleware (middleware.go).                                         *)
(***************************************************************************)

(* What the handler gets of Control, and why it may have gone without.     *)
Answered ==
  IF control # None /\ Resolved(control) THEN View(control) ELSE << >>

Decided ==
  /\ pc # "idle" => request \in Requests
  /\ pc = "start" => control = None
  /\ pc = "served" /\ request.kind # "schema" =>
       /\ cfg = Merge(Answered)
       /\ ~NeedsControl \/ ~MayRefuse \/ (control # None /\ Resolved(control))
  /\ pc = "refused" =>
       /\ MayRefuse /\ status \in 400 .. 599 /\ status # 403
       /\ status = 401 => ~request.token /\ control = None

GateInv == TypeOK /\ Decided

(* An answer that resolves the config says what of Control is to be used.  *)
LEMMA ViewIsTyped ==
  ASSUME NEW a \in Answers, Resolved(a)
  PROVE  View(a) \in Partial(Keys, ControlValues)
<1>1. a.config \in Partial(Keys, ControlValues) \cup {None}
  BY DEF Answers, Resolved
<1> QED BY <1>1, NothingKnown DEF View

(* A failure of Control reaches the client as an error, and never as one   *)
(* about its own token.                                                    *)
LEMMA StatusForClient ==
  ASSUME NEW a \in Answers
  PROVE  ClientStatus(a) \in 400 .. 599 /\ ClientStatus(a) \notin {401, 403}
<1>1. a.status \in Nat \/ a.status \in {None, 200}
  <2>1. a.status \in Statuses \/ a.status \in {None, 200}
    BY DEF Answers
  <2> QED BY <2>1, ValuesAssumption
<1>2. CASE a.status \in {None, 200}
  BY <1>2 DEF ClientStatus
<1>3. CASE a.status \in Nat
  BY <1>3 DEF ClientStatus
<1> QED BY <1>1, <1>2, <1>3

LEMMA GateInit == Init => GateInv
<1> SUFFICES ASSUME Init PROVE GateInv
  OBVIOUS
<1>1. environ \in Seq(Variables)
  <2>1. PICK n \in 0 .. MaxEnviron : environ \in [1 .. n -> Variables]
    BY DEF Init
  <2> QED BY <2>1, ValuesAssumption
<1> QED BY <1>1 DEF Init, GateInv, TypeOK, Decided

(* A step that leaves the schema, the environment and the settings alone   *)
(* leaves what they say alone.                                             *)
LEMMA SameInputs ==
  ASSUME UNCHANGED <<schema, environ, settings>>
  PROVE  /\ EnvOverrides' = EnvOverrides /\ MayRefuse' = MayRefuse
         /\ \A view : Merge(view)' = Merge(view)
<1>1. EnvIdx' = EnvIdx
  BY DEF EnvIdx
<1>2. \A k : LookupSchemaEnv(k)' = LookupSchemaEnv(k)
  BY <1>1 DEF LookupSchemaEnv
<1>3. EnvOverrides' = EnvOverrides
  BY <1>2 DEF EnvOverrides
<1> QED BY <1>3 DEF MayRefuse, EnvAloneSatisfiesRequired, RequiredConfigSatisfied, Merge

(* The handler is served with the two merged.                              *)
LEMMA ServedAsMerged ==
  ASSUME GateInv, pc # "idle", NEW view \in Partial(Keys, ControlValues), Serve(view),
         UNCHANGED <<schema, environ, settings, request>>,
         control' \in Answers \cup {None}, Answered' = view,
         ~NeedsControl \/ ~MayRefuse \/ (control' # None /\ Resolved(control'))
  PROVE  GateInv'
<1>1. Merge(view) \in Partial(Keys, EnvValues \cup ControlValues)
  BY MergeIsTyped DEF GateInv
<1>2. Merge(view)' = Merge(view) /\ MayRefuse' = MayRefuse /\ NeedsControl' = NeedsControl
  BY SameInputs DEF NeedsControl
<1>3. /\ pc' = "served" /\ cfg' = Merge(view) /\ status' = status
  BY DEF Serve
<1>4. TypeOK'
  BY <1>1, <1>3 DEF GateInv, TypeOK
<1>5. Decided'
  BY <1>2, <1>3 DEF GateInv, Decided, Resolved
<1> QED BY <1>4, <1>5 DEF GateInv

LEMMA GateStep ==
  ASSUME GateInv, [Next]_vars
  PROVE  GateInv'
<1> USE DEF GateInv
<1>1. ASSUME NEW r \in Requests, Arrive(r) PROVE GateInv'
  BY <1>1 DEF Arrive, TypeOK, Decided
<1>2. CASE ServeSchema
  BY <1>2 DEF ServeSchema, Inputs, TypeOK, Decided
<1>3. CASE ServeWithoutConfig
  <2>1. /\ Serve(<< >>) /\ UNCHANGED <<schema, environ, settings, request, control>>
        /\ pc = "start" /\ ~NeedsControl
    BY <1>3 DEF ServeWithoutConfig, Inputs
  <2>2. control = None /\ Answered' = << >>
    BY <2>1 DEF Decided, Answered
  <2> QED BY <2>1, <2>2, ServedAsMerged, NothingKnown
<1>4. CASE AskControl
  BY <1>4 DEF AskControl, Inputs, TypeOK, Decided
<1>5. CASE CannotAsk
  <2>1. /\ UNCHANGED <<schema, environ, settings, request, control>>
        /\ pc = "start" /\ control = None /\ ~(settings.controlBase /\ request.token)
    BY <1>5 DEF CannotAsk, Inputs, Decided
  <2>2. CASE ~MayRefuse /\ Serve(<< >>)
    BY <2>1, <2>2, ServedAsMerged, NothingKnown DEF Answered
  <2>3. CASE MayRefuse /\ Refuse(IF settings.controlBase THEN 401 ELSE 503)
    BY <2>1, <2>3, SameInputs DEF Refuse, TypeOK, Decided
  <2> QED BY <1>5, <2>2, <2>3 DEF CannotAsk
<1>6. ASSUME NEW a \in Answers, ControlResolves(a) PROVE GateInv'
  <2>1. /\ UNCHANGED <<schema, environ, settings, request>> /\ control' = a
        /\ pc = "fetching" /\ Serve(View(a)) /\ Resolved(a)
    BY <1>6 DEF ControlResolves, Inputs
  <2>2. Answered' = View(a)
    BY <2>1, NoneAssumption DEF Answered, View, Resolved
  <2> QED BY <2>1, <2>2, ViewIsTyped, ServedAsMerged, NoneAssumption DEF Resolved
<1>7. ASSUME NEW a \in Answers, ControlFails(a) PROVE GateInv'
  <2>1. /\ UNCHANGED <<schema, environ, settings, request>> /\ control' = a
        /\ pc = "fetching" /\ ~Resolved(a)
    BY <1>7 DEF ControlFails, Inputs
  <2>2. CASE ~MayRefuse /\ Serve(<< >>)
    <3>1. Answered' = << >>
      BY <2>1 DEF Answered, Resolved
    <3> QED BY <2>1, <2>2, <3>1, ServedAsMerged, NothingKnown
  <2>3. CASE MayRefuse /\ Refuse(ClientStatus(a))
    BY <2>1, <2>3, SameInputs, StatusForClient DEF Refuse, TypeOK, Decided
  <2> QED BY <1>7, <2>2, <2>3 DEF ControlFails
<1>8. CASE UNCHANGED vars
  BY <1>8, SameInputs DEF vars, TypeOK, Decided, Answered, NeedsControl, Resolved, View
<1> QED BY <1>1, <1>2, <1>3, <1>4, <1>5, <1>6, <1>7, <1>8 DEF Next

LEMMA GateRefusesRightly == GateInv => RefusedRightly
<1> SUFFICES ASSUME GateInv PROVE RefusedRightly
  OBVIOUS
<1>1. \A k \in MustHave : Speaking(k) # {} <=> k \in DOMAIN EnvOverrides
  BY OverridesGiven DEF GateInv, MustHave
<1>2. MayRefuse <=> settings.configRequired /\ \E k \in MustHave : k \notin DOMAIN EnvOverrides
  BY DEF MayRefuse, EnvAloneSatisfiesRequired, RequiredConfigSatisfied, MustHave
<1>3. RequiredOrRefused
  <2>1. CASE pc = "refused"
    BY <1>1, <1>2, <2>1 DEF GateInv, Decided, RequiredOrRefused
  <2>2. CASE pc = "served" /\ request.kind = "call" /\ settings.configRequired
    <3>1. cfg = Merge(Answered)
      BY <2>2 DEF GateInv, Decided
    <3>2. DOMAIN EnvOverrides \subseteq DOMAIN cfg
      BY <3>1 DEF Merge, Over
    <3>3. ~NeedsControl => MustHave = {}
      BY <2>2 DEF NeedsControl, MustHave
    <3> QED BY <1>2, <2>2, <3>2, <3>3 DEF GateInv, Decided, RequiredOrRefused
  <2> QED BY <2>1, <2>2 DEF RequiredOrRefused
<1>4. OnlyMissingTokenIs401
  BY DEF GateInv, Decided, OnlyMissingTokenIs401
<1> QED BY <1>3, <1>4 DEF RefusedRightly

LEMMA EnvironmentWins == GateInv => EnvWins
<1> SUFFICES ASSUME GateInv, pc = "served", request.kind # "schema", NEW k \in Keys
             PROVE  IF k \in DOMAIN schema /\ Speaking(k) # {}
                    THEN \E i \in Speaking(k) :
                           /\ \A j \in Speaking(k) \ {i} : Beats(i, j)
                           /\ k \in DOMAIN cfg /\ cfg[k] = environ[i].value
                    ELSE /\ k \in DOMAIN cfg <=> k \in DOMAIN Answered
                         /\ k \in DOMAIN cfg => cfg[k] = Answered[k]
  BY DEF EnvWins, Beats, Answered
<1>1. cfg = Merge(Answered) /\ TypeOK
  BY DEF GateInv, Decided
<1>2. /\ DOMAIN cfg = DOMAIN EnvOverrides \cup DOMAIN Answered
      /\ \A x \in DOMAIN cfg :
           cfg[x] = IF x \in DOMAIN EnvOverrides THEN EnvOverrides[x] ELSE Answered[x]
  BY <1>1 DEF Merge, Over
<1>3. CASE k \in DOMAIN schema /\ Speaking(k) # {}
  <2>1. k \in DOMAIN EnvOverrides /\ EnvOverrides[k] = LookupSchemaEnv(k)
    BY <1>1, <1>3, OverridesGiven
  <2> QED BY <1>1, <1>2, <1>3, <2>1, EnvGives
<1>4. CASE ~(k \in DOMAIN schema /\ Speaking(k) # {})
  <2>1. k \notin DOMAIN EnvOverrides
    BY <1>1, <1>4, OverridesGiven
  <2> QED BY <1>2, <1>4, <2>1
<1> QED BY <1>3, <1>4

(***************************************************************************)
(* What goes upstream, and what comes back (bridge_auth.go, composio.go,   *)
(* proxy.go).                                                              *)
(***************************************************************************)

LEMMA PayloadParts ==
  ASSUME NEW p \in Payloads
  PROVE  /\ p.config \in Partial(Keys, ControlValues \cup {Blank})
         /\ p.bridge # None => /\ p.bridge.headers \in Seq(Mappings)
                               /\ p.bridge.auth \in Mappings \cup {None}
         /\ p.composio # None => p.composio \in Composios
BY PayloadsAssumption DEF Bridges

LEMMA ValueGiven ==
  ASSUME NEW p \in Payloads, NEW k, Value(p, k) # Blank
  PROVE  /\ k \in DOMAIN p.config /\ p.config[k] = Value(p, k)
         /\ Value(p, k) \in ControlValues
<1>1. p.config \in [DOMAIN p.config -> ControlValues \cup {Blank}]
  BY PayloadParts, PartialFunction
<1> QED BY <1>1 DEF Value

(* Of the headers with one name, the last counts; they are all supplied,   *)
(* and the mapping for authentication comes after them.                    *)
LEMMA MappedHeadersApply ==
  ASSUME NEW p \in Payloads, p.bridge # None, HeadersApply(p)
  PROVE  LET ms == p.bridge.headers
         IN  /\ DOMAIN MappedHeaders(p) = {ms[i].name : i \in DOMAIN ms}
             /\ \A h \in DOMAIN MappedHeaders(p) :
                  /\ h \in Headers
                  /\ MappedHeaders(p)[h] \in ControlValues /\ MappedHeaders(p)[h] # Blank
                  /\ Maps(p, h, MappedHeaders(p)[h])
<1> DEFINE ms == p.bridge.headers
           named(h) == {i \in DOMAIN ms : ms[i].name = h}
           last(h) == Max(named(h))
<1>1. DOMAIN ms = 1 .. Len(ms) /\ Len(ms) \in Nat /\ \A i \in DOMAIN ms : ms[i] \in Mappings
  <2>1. ms \in Seq(Mappings)
    BY PayloadParts
  <2> QED BY <2>1, LenProperties, ElementOfSeq
<1>2. \A i \in DOMAIN ms : ms[i].name \in Headers /\ Supplied(p, ms[i])
  <2>1. \A i \in DOMAIN ms : ms[i].name # None /\ Supplied(p, ms[i])
    BY DEF HeadersApply
  <2> QED BY <1>1, <2>1 DEF Mappings
<1>3. MappedHeaders(p) = [h \in {ms[i].name : i \in DOMAIN ms} |-> Value(p, ms[last(h)].from)]
  BY DEF MappedHeaders
<1>4. ASSUME NEW h \in {ms[i].name : i \in DOMAIN ms}
      PROVE  /\ last(h) \in DOMAIN ms /\ last(h) \in named(h)
             /\ \A j \in named(h) : j <= last(h)
  <2>1. named(h) \in SUBSET (1 .. Len(ms)) /\ named(h) # {}
    BY <1>1
  <2> HIDE DEF named
  <2>2. Max(named(h)) \in named(h) /\ \A j \in named(h) : j <= Max(named(h))
    BY <1>1, <2>1, GreatestIndex
  <2> QED BY <1>1, <2>1, <2>2
<1>5. ASSUME NEW h \in DOMAIN MappedHeaders(p)
      PROVE  /\ h \in Headers
             /\ MappedHeaders(p)[h] \in ControlValues /\ MappedHeaders(p)[h] # Blank
             /\ Maps(p, h, MappedHeaders(p)[h])
  <2>1. h \in {ms[i].name : i \in DOMAIN ms}
    BY <1>3
  <2>2. h \in Headers /\ Supplied(p, ms[last(h)])
    BY <1>2, <1>4, <2>1
  <2>3. MappedHeaders(p)[h] = Value(p, ms[last(h)].from)
    BY <1>3, <2>1
  <2>4. Value(p, ms[last(h)].from) # Blank /\ Value(p, ms[last(h)].from) \in ControlValues
    BY <2>2, ValueGiven DEF Supplied
  <2>5. Maps(p, h, MappedHeaders(p)[h])
    BY <1>4, <2>1, <2>3 DEF Maps
  <2> QED BY <2>2, <2>3, <2>4, <2>5
<1> QED BY <1>3, <1>5

LEMMA AuthHeadersApply ==
  ASSUME NEW p \in Payloads, p.bridge # None, AuthApplies(p, p.bridge.auth)
  PROVE  LET m == p.bridge.auth
         IN  /\ m = None => DOMAIN AuthHeaders(p) = {}
             /\ m # None => DOMAIN AuthHeaders(p) =
                             {IF m.type = "bearer" THEN Authorization ELSE m.name}
             /\ \A h \in DOMAIN AuthHeaders(p) :
                  /\ h \in Headers /\ AuthHeaders(p)[h] = Value(p, m.from)
                  /\ AuthHeaders(p)[h] \in ControlValues /\ AuthHeaders(p)[h] # Blank
<1> DEFINE m == p.bridge.auth
<1>1. CASE m = None
  BY <1>1, NothingKnown DEF AuthHeaders
<1>2. CASE m # None
  <2>1. m \in Mappings
    BY <1>2, PayloadParts
  <2>2. /\ Supplied(p, m)
        /\ (IF m.type = "bearer" THEN Authorization ELSE m.name) \in Headers
    BY <1>2, <2>1, NamesAssumption DEF AuthApplies, Mappings
  <2>3. Value(p, m.from) # Blank /\ Value(p, m.from) \in ControlValues
    BY <2>2, ValueGiven DEF Supplied
  <2>4. AuthHeaders(p) = [h \in {IF m.type = "bearer" THEN Authorization ELSE m.name} |-> Value(p, m.from)]
    BY <1>2 DEF AuthHeaders
  <2> QED BY <1>2, <2>2, <2>3, <2>4
<1> QED BY <1>1, <1>2

LEMMA BridgeHeadersApply ==
  ASSUME NEW p \in Payloads, p.bridge # None,
         AuthApplies(p, p.bridge.auth), HeadersApply(p)
  PROVE  /\ BridgeHeaders(p) \in Partial(Headers, ControlValues)
         /\ \A h \in DOMAIN BridgeHeaders(p) :
              BridgeHeaders(p)[h] # Blank /\ Maps(p, h, BridgeHeaders(p)[h])
         /\ \A i \in DOMAIN p.bridge.headers :
              p.bridge.headers[i].name \in DOMAIN BridgeHeaders(p)
         /\ p.bridge.auth # None => BridgeHeaders(p) # << >>
<1> DEFINE B == BridgeHeaders(p)
           M == MappedHeaders(p)
           A == AuthHeaders(p)
<1>1. /\ DOMAIN B = DOMAIN M \cup DOMAIN A
      /\ \A h \in DOMAIN B : B[h] = IF h \in DOMAIN M THEN M[h] ELSE A[h]
      /\ B \in [DOMAIN B -> {B[h] : h \in DOMAIN B}]
  BY DEF BridgeHeaders, Over
<1>2. ASSUME NEW h \in DOMAIN B, h \notin DOMAIN M PROVE Maps(p, h, B[h])
  <2>1. h \in DOMAIN A /\ B[h] = A[h]
    BY <1>1, <1>2
  <2>2. {i \in DOMAIN p.bridge.headers : p.bridge.headers[i].name = h} = {}
    BY <1>2, MappedHeadersApply
  <2> QED BY <2>1, <2>2, AuthHeadersApply DEF Maps
<1>3. \A h \in DOMAIN B : /\ h \in Headers /\ B[h] \in ControlValues /\ B[h] # Blank
                          /\ Maps(p, h, B[h])
  <2> SUFFICES ASSUME NEW h \in DOMAIN B
               PROVE  h \in Headers /\ B[h] \in ControlValues /\ B[h] # Blank /\ Maps(p, h, B[h])
    OBVIOUS
  <2>1. CASE h \in DOMAIN M
    BY <1>1, <2>1, MappedHeadersApply
  <2>2. CASE h \notin DOMAIN M
    BY <1>1, <1>2, <2>2, AuthHeadersApply
  <2> QED BY <2>1, <2>2
<1>4. B \in Partial(Headers, ControlValues)
  <2>1. DOMAIN B \subseteq Headers /\ B \in [DOMAIN B -> ControlValues]
    BY <1>1, <1>3
  <2> QED BY <2>1, PartialFunction
<1>5. \A i \in DOMAIN p.bridge.headers : p.bridge.headers[i].name \in DOMAIN B
  BY <1>1, MappedHeadersApply
<1>6. p.bridge.auth # None => B # << >>
  <2>1. p.bridge.auth # None => DOMAIN B # {}
    BY <1>1, AuthHeadersApply
  <2> QED BY <2>1, NothingKnown
<1> QED BY <1>3, <1>4, <1>5, <1>6

(* What is published of a tool: its name and, if it is one of Composio's,  *)
(* its slug.                                                               *)
LEMMA PublishedParts ==
  ASSUME NEW c \in Composios
  PROVE  /\ DOMAIN c.published = 1 .. Len(c.published) /\ Len(c.published) \in Nat
         /\ \A i \in DOMAIN c.published : /\ c.published[i].name \in Names
                                          /\ c.published[i].slug \in Slugs \cup {None}
<1> DEFINE Tool == [name : Names, slug : Slugs \cup {None}]
<1>1. c.published \in Seq(Tool)
  BY DEF Composios
<1>2. \A t \in Tool : t.name \in Names /\ t.slug \in Slugs \cup {None}
  OBVIOUS
<1> HIDE DEF Tool
<1>3. DOMAIN c.published = 1 .. Len(c.published) /\ Len(c.published) \in Nat
      /\ \A i \in DOMAIN c.published : c.published[i] \in Tool
  BY <1>1, LenProperties, ElementOfSeq
<1> QED BY <1>2, <1>3

LEMMA SlugIsTyped ==
  ASSUME NEW c \in Composios, NEW n \in Names
  PROVE  SlugForTool(c, n) \in Slugs
<1> DEFINE slugged == {i \in DOMAIN c.published :
                         Fold[c.published[i].name] = Fold[n] /\ c.published[i].slug # None}
<1>1. SlugForTool(c, n) = IF slugged = {} THEN DefaultSlug[n] ELSE c.published[Min(slugged)].slug
  BY DEF SlugForTool
<1>2. slugged # {} => Min(slugged) \in slugged
  <2>1. slugged \in SUBSET Nat
    BY PublishedParts
  <2> QED BY <2>1, LeastIndex
<1>3. \A i \in slugged : c.published[i].slug \in Slugs
  BY PublishedParts
<1> HIDE DEF slugged
<1> QED BY <1>1, <1>2, <1>3, NamesAssumption

LEMMA PublishedIsTyped ==
  ASSUME NEW c \in Composios
  PROVE  PublishedTools(c) \in Seq(Shown)
<1>1. \A i \in DOMAIN c.published :
        [name |-> c.published[i].name, overlaid |-> FALSE] \in Shown
  BY PublishedParts DEF Shown
<1>2. PublishedTools(c) \in [1 .. Len(c.published) -> Shown]
  BY <1>1, PublishedParts DEF PublishedTools
<1> QED BY <1>2, PublishedParts

LEMMA MergedTools ==
  ASSUME NEW tools \in Seq(Names), NEW overlay
  PROVE  /\ MergeTools(tools, overlay) \in Seq(Shown)
         /\ [i \in DOMAIN MergeTools(tools, overlay) |-> MergeTools(tools, overlay)[i].name] = tools
<1>1. /\ DOMAIN tools = 1 .. Len(tools) /\ Len(tools) \in Nat
      /\ \A i \in DOMAIN tools : tools[i] \in Names
      /\ tools = [i \in DOMAIN tools |-> tools[i]]
  BY LenProperties, ElementOfSeq
<1> DEFINE M == MergeTools(tools, overlay)
<1>2. DOMAIN M = DOMAIN tools /\ \A i \in DOMAIN tools :
        M[i] = [name |-> tools[i], overlaid |-> tools[i] \in overlay]
  BY DEF MergeTools
<1>3. \A i \in DOMAIN tools : [name |-> tools[i], overlaid |-> tools[i] \in overlay] \in Shown
  BY <1>1 DEF Shown
<1>4. M \in [1 .. Len(tools) -> Shown]
  BY <1>1, <1>3 DEF MergeTools
<1>5. M \in Seq(Shown)
  BY <1>1, <1>4
<1>6. \A i \in DOMAIN tools : M[i].name = tools[i]
  BY <1>2
<1>7. [i \in DOMAIN M |-> M[i].name] = [i \in DOMAIN tools |-> tools[i]]
  BY <1>2, <1>6
<1> QED BY <1>1, <1>5, <1>7

(***************************************************************************)
(* The gateways.                                                           *)
(***************************************************************************)

Plain == message.method \notin {"schema", "other", "broken"}

(* What is known of a request at each of its stages.                       *)
Stages ==
  /\ endpoint = "adapter" => gpc = "idle"
  /\ gpc # "idle" => message \in Messages
  /\ gpc \in {"idle", "received", "resolved"} => posted = None
  /\ gpc # "done" => reply = None
  /\ gpc = "resolved" =>
       /\ AsksControl /\ asked = ToolAsked
       /\ payload \in IF settings.controlBase THEN Payloads ELSE {Nothing}
  /\ gpc = "posted" =>
       /\ Plain /\ posted \in Posts
       /\ ~Intercepted => posted.id = "client"

GatewayInv == GatewayTypeOK /\ Stages /\ PostedAsAdmitted /\ AnswersAreUpstreams

LEMMA MessageParts ==
  ASSUME NEW m \in Messages
  PROVE  /\ m.tool \in Names \cup {None} /\ m.header \in Names \cup {None}
         /\ m.method \in {"schema", "other", "broken", "initialize", "ping", "list",
                         "unknown", "call"}
BY DEF Messages

LEMMA ToolAskedIsTyped ==
  ASSUME message \in Messages
  PROVE  ToolAsked \in Names \cup {None}
BY MessageParts DEF ToolAsked

(* An answer without a call upstream.                                      *)
LEMMA AnsweredAlone ==
  ASSUME GatewayInv, gpc \in {"received", "resolved"},
         NEW kind \in {"result", "error", "http"}, NEW id \in {"client", None},
         NEW tools \in Seq(Shown),
         id = IF Plain THEN "client" ELSE None,
         Intercepted /\ kind # "error" => endpoint = "composio" /\ message.method = "list",
         Answer(kind, id, tools),
         UNCHANGED <<endpoint, message, payload, posted, outcome, settings>>,
         asked' \in Names \cup {None}
  PROVE  GatewayInv'
<1>1. /\ gpc' = "done" /\ posted = None /\ endpoint # "adapter" /\ message \in Messages
      /\ reply' = [kind |-> kind, id |-> id, tools |-> tools]
  BY DEF GatewayInv, Stages, Answer
<1>2. reply' \in Replies
  BY <1>1 DEF Replies
<1>3. GatewayTypeOK'
  BY <1>1, <1>2 DEF GatewayInv, GatewayTypeOK
<1>4. Stages'
  BY <1>1 DEF Stages
<1>5. PostedAsAdmitted'
  BY <1>1 DEF PostedAsAdmitted
<1>6. AnswersAreUpstreams'
  BY <1>1 DEF AnswersAreUpstreams, ResultsAreUpstreams, OwnIdsStayInside, Intercepted, Plain
<1> QED BY <1>3, <1>4, <1>5, <1>6 DEF GatewayInv

(* A call upstream.                                                        *)
LEMMA PostedWell ==
  ASSUME GatewayInv, gpc \in {"received", "resolved"}, Plain,
         NEW id \in {"client", "own"}, NEW tool \in Names \cup Slugs \cup {None},
         NEW headers \in Partial(Headers, ControlValues),
         ~Intercepted => id = "client",
         Post(id, tool, headers), PostedAsAdmitted',
         UNCHANGED <<endpoint, message, asked, payload, outcome, settings>>
  PROVE  GatewayInv'
<1>1. /\ gpc' = "posted" /\ reply' = reply /\ reply = None /\ endpoint # "adapter"
      /\ message \in Messages /\ posted' = [id |-> id, tool |-> tool, headers |-> headers]
  BY DEF GatewayInv, Stages, Post
<1>2. posted' \in Posts /\ posted'.id = id
  BY <1>1 DEF Posts
<1>3. GatewayTypeOK'
  BY <1>1, <1>2 DEF GatewayInv, GatewayTypeOK
<1>4. Stages'
  BY <1>1, <1>2 DEF Stages, Plain, Intercepted
<1>5. AnswersAreUpstreams'
  BY <1>1 DEF AnswersAreUpstreams, ResultsAreUpstreams, OwnIdsStayInside
<1> QED BY <1>3, <1>4, <1>5 DEF GatewayInv

LEMMA BridgePostsWell ==
  ASSUME GatewayInv, BridgePosts, settings' = settings
  PROVE  GatewayInv'
<1>1. /\ gpc = "resolved" /\ endpoint = "bridge" /\ message \in Messages /\ Plain
      /\ asked = ToolAsked /\ asked \in Names \cup {None}
      /\ payload \in IF settings.controlBase THEN Payloads ELSE {Nothing}
      /\ UNCHANGED <<endpoint, message, asked, payload, outcome, settings>>
  BY DEF GatewayInv, GatewayTypeOK, Stages, BridgePosts, AsksControl, Plain
<1>2. CASE Answer("error", "client", << >>) /\ UNCHANGED posted
  <2>1. << >> \in Seq(Shown)
    BY EmptySeq
  <2> QED BY <1>1, <1>2, <2>1, AnsweredAlone
<1>3. CASE /\ payload.bridge # None /\ payload.bridge.url
           /\ AuthApplies(payload, payload.bridge.auth) /\ HeadersApply(payload)
           /\ Post("client", message.tool, BridgeHeaders(payload))
  <2>1. settings.controlBase /\ payload \in Payloads
    BY <1>1, <1>3 DEF Nothing
  <2>2. posted' = [id |-> "client", tool |-> message.tool, headers |-> BridgeHeaders(payload)]
    BY <1>3 DEF Post
  <2>3. posted'.headers = BridgeHeaders(payload)
    BY <2>2
  <2>4. /\ \A h \in DOMAIN BridgeHeaders(payload) : /\ BridgeHeaders(payload)[h] # Blank
                                                  /\ Maps(payload, h, BridgeHeaders(payload)[h])
        /\ \A i \in DOMAIN payload.bridge.headers :
             payload.bridge.headers[i].name \in DOMAIN BridgeHeaders(payload)
        /\ payload.bridge.auth # None => BridgeHeaders(payload) # << >>
        /\ BridgeHeaders(payload) \in Partial(Headers, ControlValues)
    BY <1>3, <2>1, BridgeHeadersApply
  <2>5. message.method = "call" /\ message.tool # None => asked = message.tool
    BY <1>1 DEF ToolAsked
  <2>6. PostedAsAdmitted'
    BY <1>1, <1>3, <2>1, <2>3, <2>4, <2>5 DEF PostedAsAdmitted
  <2>7. message.tool \in Names \cup Slugs \cup {None}
    BY <1>1, MessageParts
  <2> QED BY <1>1, <1>3, <2>4, <2>6, <2>7, PostedWell
<1> QED BY <1>2, <1>3 DEF BridgePosts

LEMMA ComposioExecutesWell ==
  ASSUME GatewayInv, ComposioExecutes, settings' = settings
  PROVE  GatewayInv'
<1> DEFINE c == payload.composio
           slug == SlugForTool(payload.composio, message.tool)
<1>1. /\ gpc = "resolved" /\ endpoint = "composio" /\ message \in Messages /\ Plain
      /\ asked = ToolAsked /\ message.method = "call"
      /\ payload \in IF settings.controlBase THEN Payloads ELSE {Nothing}
      /\ UNCHANGED <<endpoint, message, asked, payload, outcome, settings>>
      /\ ComposioConfigured /\ ComposioAdmits(payload, message.tool)
      /\ Post("client", slug, << >>)
  BY DEF GatewayInv, Stages, ComposioExecutes, Plain
<1>2. settings.controlBase /\ payload \in Payloads
  BY <1>1 DEF Nothing, ComposioConfigured
<1>3. c \in Composios /\ message.tool \in Names
  BY <1>1, <1>2, PayloadParts, MessageParts DEF ComposioConfigured, ComposioAdmits
<1>4. slug \in Slugs
  BY <1>3, SlugIsTyped
<1>5. /\ c.allowlist # {} => slug \in c.allowlist
      /\ \A k \in {ApiKey, UserId} : k \in DOMAIN payload.config /\ payload.config[k] # Blank
  BY <1>1, <1>2, ValueGiven DEF ComposioAdmits, Allowlisted
<1>6. posted' = [id |-> "client", tool |-> slug, headers |-> << >>] /\ posted'.tool = slug
  BY <1>1 DEF Post
<1>7. asked = message.tool
  BY <1>1, <1>3, NamesAssumption DEF ToolAsked
<1> HIDE DEF slug
<1>8. PostedAsAdmitted'
  BY <1>1, <1>2, <1>5, <1>6, <1>7 DEF PostedAsAdmitted
<1> QED BY <1>1, <1>4, <1>8, NothingKnown, PostedWell

LEMMA UpstreamEndsWell ==
  ASSUME GatewayInv, NEW a \in Outcomes, NEW tools \in UpstreamLists \cup {<< >>},
         NEW overlay, UpstreamEnds(a, tools, overlay), settings' = settings
  PROVE  GatewayInv'
<1> DEFINE shown == MergeTools(tools, IF endpoint = "overlay" THEN overlay ELSE {})
           id == IF ReplyKind(a) = "error" THEN "client" ELSE ReplyId
<1>1. tools \in Seq(Names)
  BY ListsAssumption, EmptySeq
<1>2. shown \in Seq(Shown) /\ [i \in DOMAIN shown |-> shown[i].name] = tools
  BY <1>1, MergedTools
<1>3. /\ gpc = "posted" /\ endpoint # "adapter" /\ message \in Messages /\ Plain
      /\ posted \in Posts /\ posted # None
      /\ ~Intercepted => posted.id = "client"
      /\ UNCHANGED <<endpoint, message, asked, payload, posted, settings>>
      /\ outcome' = [kind |-> a, tools |-> tools] /\ gpc' = "done"
      /\ reply' = [kind |-> ReplyKind(a), id |-> id, tools |-> shown]
  BY PostsAssumption DEF GatewayInv, Stages, UpstreamEnds, Answer
<1> HIDE DEF shown
<1>4. id = "client"
  BY <1>3 DEF ReplyId
<1>5. /\ ReplyKind(a) \in {"result", "toolError", "error"}
      /\ Intercepted /\ ReplyKind(a) # "error" => a \in {"done", "failed", "unsaid"}
      /\ Intercepted /\ ReplyKind(a) # "error" => (ReplyKind(a) = "toolError" <=> a = "failed")
  BY DEF ReplyKind, Outcomes
<1> HIDE DEF id
<1>6. reply' \in Replies /\ outcome' \in [kind : Outcomes, tools : Seq(Names)]
  BY <1>1, <1>2, <1>3, <1>4, <1>5 DEF Replies
<1>7. GatewayTypeOK'
  BY <1>3, <1>6 DEF GatewayInv, GatewayTypeOK
<1>8. Stages'
  BY <1>3 DEF Stages
<1>9. PostedAsAdmitted'
  BY <1>3 DEF GatewayInv, PostedAsAdmitted
<1>10. AnswersAreUpstreams'
  <2>1. reply'.kind = ReplyKind(a) /\ reply'.id = "client" /\ reply'.tools = shown
        /\ outcome'.kind = a /\ outcome'.tools = tools
    BY <1>3, <1>4
  <2>2. [i \in DOMAIN reply'.tools |-> reply'.tools[i].name] = outcome'.tools
    BY <1>2, <2>1
  <2>3. Intercepted' <=> Intercepted
    BY <1>3 DEF Intercepted
  <2>4. ResultsAreUpstreams'
    <3>1. posted' # None
      BY <1>3
    <3>2. Intercepted' /\ reply'.kind # "error" =>
            /\ outcome'.kind \in {"done", "failed", "unsaid"}
            /\ reply'.kind = "toolError" <=> outcome'.kind = "failed"
      BY <1>5, <2>1, <2>3
    <3> QED BY <2>2, <3>1, <3>2 DEF ResultsAreUpstreams
  <2>5. OwnIdsStayInside'
    BY <1>3, <2>1 DEF OwnIdsStayInside, Plain
  <2> QED BY <2>4, <2>5 DEF AnswersAreUpstreams
<1> QED BY <1>7, <1>8, <1>9, <1>10 DEF GatewayInv

LEMMA GatewayStep ==
  ASSUME GatewayInv, Gateway, endpoint # "adapter", settings' = settings
  PROVE  GatewayInv'
<1>0. << >> \in Seq(Shown)
  BY EmptySeq
<1>1. ASSUME NEW m \in Messages, Receive(m) PROVE GatewayInv'
  BY <1>1 DEF Receive, GatewayInv, GatewayTypeOK, Stages, PostedAsAdmitted, AnswersAreUpstreams,
              ResultsAreUpstreams, OwnIdsStayInside
<1>2. CASE AnswerAlone
  <2>1. /\ gpc = "received" /\ UNCHANGED <<endpoint, message, asked, payload, posted, outcome>>
        /\ asked \in Names \cup {None}
    BY <1>2 DEF AnswerAlone, GatewayInv, GatewayTypeOK
  <2>2. CASE message.method \in {"other", "schema"} /\ Answer("http", None, << >>)
    BY <1>0, <2>1, <2>2, AnsweredAlone DEF Plain, Intercepted
  <2>3. CASE message.method = "broken" /\ Answer("error", None, << >>)
    BY <1>0, <2>1, <2>3, AnsweredAlone DEF Plain, Intercepted
  <2>4. CASE message.method \in {"initialize", "ping"} /\ Answer("result", "client", << >>)
    BY <1>0, <2>1, <2>4, AnsweredAlone DEF Plain, Intercepted
  <2> QED BY <1>2, <2>2, <2>3, <2>4 DEF AnswerAlone
<1>3. ASSUME NEW p \in Payloads \cup {Nothing}, ControlGives(p) PROVE GatewayInv'
  <2>1. /\ gpc = "received" /\ gpc' = "resolved" /\ AsksControl /\ asked' = ToolAsked
        /\ payload' = p /\ p \in IF settings.controlBase THEN Payloads ELSE {Nothing}
        /\ UNCHANGED <<endpoint, message, posted, outcome, reply>>
        /\ posted = None /\ reply = None /\ message \in Messages /\ endpoint # "adapter"
    BY <1>3 DEF ControlGives, GatewayInv, Stages
  <2>2. asked' \in Names \cup {None}
    BY <2>1, ToolAskedIsTyped
  <2>3. GatewayTypeOK'
    BY <2>1, <2>2 DEF GatewayInv, GatewayTypeOK
  <2>4. Stages'
    BY <2>1 DEF Stages, AsksControl, ToolAsked
  <2> QED BY <2>1, <2>3, <2>4 DEF GatewayInv, PostedAsAdmitted, AnswersAreUpstreams,
                                  ResultsAreUpstreams, OwnIdsStayInside
<1>4. CASE ControlRefuses
  <2>1. /\ gpc = "received" /\ AsksControl /\ asked' = ToolAsked /\ message \in Messages
        /\ UNCHANGED <<endpoint, message, payload, posted, outcome>>
    BY <1>4 DEF ControlRefuses, GatewayInv, Stages
  <2>2. asked' \in Names \cup {None}
    BY <2>1, ToolAskedIsTyped
  <2>3. CASE message.method = "schema" /\ Answer("http", None, << >>)
    BY <1>0, <2>1, <2>2, <2>3, AnsweredAlone DEF Plain, Intercepted
  <2>4. CASE message.method # "schema" /\ Answer("error", "client", << >>)
    BY <1>0, <2>1, <2>2, <2>4, AnsweredAlone DEF Plain, AsksControl
  <2> QED BY <1>4, <2>3, <2>4 DEF ControlRefuses
<1>5. CASE AnswerSchema
  BY <1>0, <1>5, AnsweredAlone DEF AnswerSchema, Plain, Intercepted, GatewayInv, GatewayTypeOK
<1>6. CASE BridgePosts
  BY <1>6, BridgePostsWell
<1>7. CASE ComposioAnswers
  <2>1. /\ gpc = "resolved" /\ endpoint = "composio" /\ AsksControl
        /\ UNCHANGED <<endpoint, message, asked, payload, posted, outcome>>
        /\ asked \in Names \cup {None}
        /\ payload \in IF settings.controlBase THEN Payloads ELSE {Nothing}
    BY <1>7 DEF ComposioAnswers, GatewayInv, GatewayTypeOK, Stages
  <2>2. CASE message.method # "schema" /\ Answer("error", "client", << >>)
    BY <1>0, <2>1, <2>2, AnsweredAlone DEF Plain, AsksControl
  <2>3. CASE /\ message.method = "list" /\ ComposioConfigured
             /\ Answer("result", "client", PublishedTools(payload.composio))
    <3>1. payload \in Payloads
      BY <2>1, <2>3 DEF ComposioConfigured, Nothing
    <3>2. payload.composio \in Composios
      BY <2>3, <3>1, PayloadParts DEF ComposioConfigured
    <3>3. PublishedTools(payload.composio) \in Seq(Shown)
      BY <3>2, PublishedIsTyped
    <3> QED BY <2>1, <2>3, <3>3, AnsweredAlone DEF Plain
  <2> QED BY <1>7, <2>2, <2>3 DEF ComposioAnswers
<1>8. CASE ComposioExecutes
  BY <1>8, ComposioExecutesWell
<1>9. CASE ProxyPosts
  <2>1. /\ gpc = "received" /\ endpoint = "overlay" /\ Plain /\ message \in Messages
        /\ UNCHANGED <<endpoint, message, asked, payload, outcome>>
        /\ Post(IF Intercepted THEN "own" ELSE "client", message.tool, << >>)
    BY <1>9 DEF ProxyPosts, GatewayInv, Stages, Plain, Intercepted
  <2>2. PostedAsAdmitted'
    BY <2>1 DEF PostedAsAdmitted
  <2>3. message.tool \in Names \cup Slugs \cup {None}
    BY <2>1, MessageParts
  <2> QED BY <2>1, <2>2, <2>3, NothingKnown, PostedWell
<1>10. ASSUME NEW a \in Outcomes, NEW tools \in UpstreamLists \cup {<< >>}, NEW overlay \in Overlays,
              UpstreamEnds(a, tools, overlay)
       PROVE  GatewayInv'
  BY <1>10, UpstreamEndsWell
<1> QED BY <1>1, <1>2, <1>3, <1>4, <1>5, <1>6, <1>7, <1>8, <1>9, <1>10 DEF Gateway

(***************************************************************************)
(* The router as a whole.                                                  *)
(***************************************************************************)

RouterInv == GateInv /\ GatewayInv

(* What the middleware and the gateways have decided of the request that   *)
(* they handle follows from that request, at each of its stages.           *)
THEOREM RouterInvariant == RouterSpec => []RouterInv
<1>1. RouterInit => RouterInv
  <2>1. GatewayInit => GatewayInv
    BY DEF GatewayInit, GatewayInv, GatewayTypeOK, Stages, PostedAsAdmitted, AnswersAreUpstreams,
           ResultsAreUpstreams, OwnIdsStayInside
  <2> QED BY <2>1, GateInit DEF RouterInit, RouterInv
<1>2. RouterInv /\ [RouterNext]_routerVars => RouterInv'
  <2> SUFFICES ASSUME RouterInv, [RouterNext]_routerVars PROVE RouterInv'
    OBVIOUS
  <2>1. CASE endpoint # "adapter" /\ Gateway /\ UNCHANGED vars
    BY <2>1, GateStep, GatewayStep DEF RouterInv, vars
  <2>2. CASE [Next]_vars /\ UNCHANGED gatewayVars
    <3>1. settings' = settings
      BY <2>2 DEF Next, Arrive, ServeSchema, ServeWithoutConfig, AskControl, CannotAsk,
                  ControlResolves, ControlFails, Inputs, vars
    <3>2. GatewayInv'
      <4>1. UNCHANGED <<endpoint, message, gpc, asked, payload, posted, outcome, reply, settings>>
        BY <2>2, <3>1 DEF gatewayVars
      <4>2. GatewayTypeOK' /\ AnswersAreUpstreams'
        BY <4>1
           DEF RouterInv, GatewayInv, GatewayTypeOK, AnswersAreUpstreams, ResultsAreUpstreams,
                    Intercepted, OwnIdsStayInside
      <4>3. Stages' /\ PostedAsAdmitted'
        BY <4>1
           DEF RouterInv, GatewayInv, Stages, PostedAsAdmitted, AsksControl, ToolAsked, Plain,
                    Intercepted
      <4> QED BY <4>2, <4>3 DEF GatewayInv
    <3> QED BY <2>2, <3>2, GateStep DEF RouterInv
  <2> QED BY <2>1, <2>2 DEF RouterNext, routerVars
<1> QED BY <1>1, <1>2, PTL DEF RouterSpec

(* The variables of the middleware and the gateways have their types: a    *)
(* header that goes upstream always has a name and a value.                *)
THEOREM RouterTypes == RouterSpec => []RouterTypeOK
<1>1. RouterInv => RouterTypeOK
  BY DEF RouterInv, GateInv, GatewayInv, RouterTypeOK
<1> QED BY <1>1, RouterInvariant, PTL

(* The middleware refuses a request only if a required key has no value    *)
(* from anywhere, and says 401 only to a client without a token            *)
(* (middleware.go:53-102).                                                 *)
THEOREM RefusalsAreDue == RouterSpec => []RefusedRightly
<1>1. RouterInv => RefusedRightly
  BY GateRefusesRightly DEF RouterInv
<1> QED BY <1>1, RouterInvariant, PTL

(* A key of the schema has the value of the last variable that gives it    *)
(* one, whatever Control says (env_config.go, middleware.go:53).           *)
THEOREM EnvironmentOverControl == RouterSpec => []EnvWins
<1>1. RouterInv => EnvWins
  BY EnvironmentWins DEF RouterInv
<1> QED BY <1>1, RouterInvariant, PTL

(* A gateway calls upstream only for a message that Control has resolved,  *)
(* with exactly the headers it mapped or a slug it allowed                 *)
(* (bridge_auth.go, composio.go).                                          *)
THEOREM PostsAreAdmitted == RouterSpec => []PostedAsAdmitted
<1>1. RouterInv => PostedAsAdmitted
  BY DEF RouterInv, GatewayInv
<1> QED BY <1>1, RouterInvariant, PTL

(* What a client gets is what upstream answered, under the client's id     *)
(* (bridge.go, composio.go, proxy.go).                                     *)
THEOREM AnswersPassedOn == RouterSpec => []AnswersAreUpstreams
<1>1. RouterInv => AnswersAreUpstreams
  BY DEF RouterInv, GatewayInv
<1> QED BY <1>1, RouterInvariant, PTL
================================================================================
