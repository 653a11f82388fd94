------------------------------ MODULE ConfigGate ------------------------------
(***************************************************************************)
(* The middleware in front of an adapter's MCP handler (middleware.go):    *)
(* for each request it decides whether Control has to be asked for the     *)
(* config, what to make of Control's answer (control.go) and of the        *)
(* environment (env_config.go), and refuses the request or passes it on    *)
(* with the two merged.                                                    *)
(*                                                                         *)
(* How often Control is really asked is the matter of ConfigCache: here an *)
(* answer is what fetchControlConfigCached returns for it.  A name of the  *)
(* environment is a pair, "AR_" or without it "plain", and the schema key, *)
(* in lower case; two variables whose names differ in case only have the   *)
(* same pair.                                                              *)
(***************************************************************************)
EXTENDS Naturals, Sequences, FiniteSetsExt

CONSTANTS
  Keys,       \* what adapters and Control may call a config key
  EnvValues,  \* values of variables, Blank apart
  ControlValues,
  MaxEnviron, \* bound on the variables that are about config keys
  Statuses,   \* of Control's answers
  Garbled,    \* the body of an answer that is no JSON
  Blank,      \* a variable that is set, to white space
  None

ASSUME ValuesAssumption ==
  /\ Blank \notin EnvValues /\ None \notin EnvValues \cup {Blank}
  /\ Statuses \subseteq Nat /\ MaxEnviron \in Nat

VARIABLES
  schema,      \* configSchema: the adapter's keys and what they say
  environ,     \* os.Environ(), the variables that name a key
  settings,    \* MCP_CONFIG_FETCH_REQUIRED, and is there a Control URL
  request,     \* what is being handled
  pc,
  control,     \* Control's answer to this request, or None
  status,      \* the status the middleware itself answered with, or None
  cfg          \* the config in the context of the handler, or None

vars == <<schema, environ, settings, request, pc, control, status, cfg>>

Fields == [required : BOOLEAN, default : BOOLEAN]

Variables == [name : {"plain", "AR_"} \X Keys, value : EnvValues \cup {Blank}]

Partial(K, V) == UNION {[S -> V] : S \in SUBSET K}

(* f, and what only g has.                                                 *)
Over(f, g) == [x \in DOMAIN f \cup DOMAIN g |-> IF x \in DOMAIN f THEN f[x] ELSE g[x]]

(* GET <mount>/config/schema; a method of noConfigMethods; any other method*)
(* and a body that cannot be read or parsed.                               *)
Requests == [kind : {"schema", "definitions", "call"}, token : BOOLEAN]

(* config: what the body of a 200 has under "config", None if it is not an *)
(* object, Garbled if the body is no JSON.  status None: no answer.        *)
Answers ==
       [status : (Statuses \ {200}) \cup {None}, config : {None}]
  \cup [status : {200},
        config : Partial(Keys, ControlValues) \cup {None, Garbled}]

ASSUME NoneAssumption == None \notin Answers

TypeOK ==
  /\ schema \in Partial(Keys, Fields)
  /\ environ \in Seq(Variables)
  /\ settings \in [configRequired : BOOLEAN, controlBase : BOOLEAN]
  /\ request \in Requests \cup {None}
  /\ pc \in {"idle", "start", "fetching", "served", "refused"}
  /\ control \in Answers \cup {None}
  /\ status \in {None} \cup 200 .. 599
  /\ cfg \in Partial(Keys, EnvValues \cup ControlValues) \cup {None}

Init ==
  /\ schema \in Partial(Keys, Fields)
  /\ environ \in UNION {[1 .. n -> Variables] : n \in 0 .. MaxEnviron}
  /\ settings \in [configRequired : BOOLEAN, controlBase : BOOLEAN]
  /\ request = None /\ pc = "idle"
  /\ control = None /\ status = None /\ cfg = None

-------------------------------------------------------------------------------
(* env_config.go                                                           *)

EnvIdx ==
  LET filled == {i \in DOMAIN environ : environ[i].value # Blank}
      last(n) == Max({i \in filled : environ[i].name = n})
  IN  [n \in {environ[i].name : i \in filled} |-> environ[last(n)].value]

LookupSchemaEnv(k) ==
  CASE <<"plain", k>> \in DOMAIN EnvIdx -> EnvIdx[<<"plain", k>>]
    [] <<"plain", k>> \notin DOMAIN EnvIdx /\ <<"AR_", k>> \in DOMAIN EnvIdx ->
         EnvIdx[<<"AR_", k>>]
    [] OTHER -> None

EnvOverrides ==
  LET given == {k \in DOMAIN schema : LookupSchemaEnv(k) # None}
  IN  [k \in given |-> LookupSchemaEnv(k)]

RequiredConfigSatisfied(view) ==
  \A k \in DOMAIN schema :
    schema[k].required => k \in DOMAIN view \/ schema[k].default

EnvAloneSatisfiesRequired == RequiredConfigSatisfied(EnvOverrides)

(* Fault: Control overwrites the environment.                              *)
MergeControlFirst(view) == Over(view, EnvOverrides)

Merge(view) == Over(EnvOverrides, view)

-------------------------------------------------------------------------------
(* The answer of Control: resolved, or an error with the status the client *)
(* is to see.                                                              *)

Resolved(a) == a.status = 200 /\ a.config # Garbled

View(a) == IF a.config = None THEN << >> ELSE a.config

(* Fault: any status is passed on; Control's 401 and 403 are.              *)
ClientStatusUnclamped(a) ==
  CASE a.status \in {None, 200} -> 502
    [] a.status \in {401, 403} -> 422
    [] OTHER -> a.status

(* Fault: Control's 401 and 403 are passed on.                             *)
ClientStatusOfControl(a) ==
  IF a.status \in 400 .. 599 THEN a.status ELSE 502

ClientStatus(a) ==
  LET own == CASE a.status \in {None, 200} -> 502
               [] a.status \in {401, 403} -> 422
               [] OTHER -> a.status
  IN  IF own < 400 \/ own >= 600 THEN 502 ELSE own

-------------------------------------------------------------------------------
(* The middleware                                                          *)

NeedsControl == DOMAIN schema # {} /\ request.kind = "call"

MayRefuse == settings.configRequired /\ ~EnvAloneSatisfiesRequired

Refuse(code) == pc' = "refused" /\ status' = code /\ UNCHANGED cfg

Serve(view) == pc' = "served" /\ cfg' = Merge(view) /\ UNCHANGED status

Arrive(r) ==
  /\ pc \in {"idle", "served", "refused"}
  /\ request' = r /\ pc' = "start"
  /\ control' = None /\ status' = None /\ cfg' = None
  /\ UNCHANGED <<schema, environ, settings>>

Inputs == <<schema, environ, settings, request>>

ServeSchema ==
  /\ pc = "start" /\ request.kind = "schema"
  /\ pc' = "served" /\ status' = 200
  /\ UNCHANGED <<Inputs, control, cfg>>

ServeWithoutConfig ==
  /\ pc = "start" /\ request.kind # "schema" /\ ~NeedsControl
  /\ Serve(<< >>)
  /\ UNCHANGED <<Inputs, control>>

AskControl ==
  /\ pc = "start" /\ NeedsControl
  /\ settings.controlBase /\ request.token
  /\ pc' = "fetching"
  /\ UNCHANGED <<Inputs, control, status, cfg>>

(* Fault: a missing token is no reason to refuse.                          *)
CannotAskTrusting ==
  /\ pc = "start" /\ NeedsControl
  /\ ~(settings.controlBase /\ request.token)
  /\ IF MayRefuse /\ ~settings.controlBase THEN Refuse(503) ELSE Serve(<< >>)
  /\ UNCHANGED <<Inputs, control>>

CannotAsk ==
  /\ pc = "start" /\ NeedsControl
  /\ ~(settings.controlBase /\ request.token)
  /\ \/ MayRefuse /\ Refuse(IF settings.controlBase THEN 401 ELSE 503)
     \/ ~MayRefuse /\ Serve(<< >>)
  /\ UNCHANGED <<Inputs, control>>

ControlResolves(a) ==
  /\ pc = "fetching" /\ Resolved(a)
  /\ control' = a
  /\ Serve(View(a))
  /\ UNCHANGED Inputs

ControlFails(a) ==
  /\ pc = "fetching" /\ ~Resolved(a)
  /\ control' = a
  /\ \/ MayRefuse /\ Refuse(ClientStatus(a))
     \/ ~MayRefuse /\ Serve(<< >>)
  /\ UNCHANGED Inputs

Next ==
  \/ \E r \in Requests : Arrive(r)
  \/ ServeSchema \/ ServeWithoutConfig \/ AskControl \/ CannotAsk
  \/ \E a \in Answers : ControlResolves(a) \/ ControlFails(a)

Spec == Init /\ [][Next]_vars

-------------------------------------------------------------------------------
(* Properties.  They speak of the raw environment: a variable is about a   *)
(* key under its name or with AR_ before it, and a blank one says nothing. *)

Speaking(k) ==
  {i \in DOMAIN environ : environ[i].name[2] = k /\ environ[i].value # Blank}

MustHave == {k \in DOMAIN schema : schema[k].required /\ ~schema[k].default}

(* middleware.go:53: "If Control fails or is skipped but env supplies all  *)
(* required keys, the request still proceeds."  Whatever the method, the   *)
(* token, the URL and Control's answer, a refusal needs a required key     *)
(* that no variable, under either name, gives a value; and it never        *)
(* happens when MCP_CONFIG_FETCH_REQUIRED is "false".  Conversely, with    *)
(* that setting on, the handler of a call runs without a required key only *)
(* if Control was asked and resolved the config without it.                *)
RequiredOrRefused ==
  /\ pc = "refused" =>
       settings.configRequired /\ \E k \in MustHave : Speaking(k) = {}
  /\ pc = "served" /\ request.kind = "call" /\ settings.configRequired =>
       \A k \in MustHave :
         k \in DOMAIN cfg \/ (control # None /\ Resolved(control))

(* middleware.go:53, "Env wins on key clash with Control": each schema key *)
(* has the value of the last variable with its own name or, with none, of  *)
(* the last with AR_; every other key has what Control resolved, if        *)
(* anything, and blank variables hide nothing.                             *)
EnvWins ==
  LET beats(i, j) ==
        LET p == environ[i].name[1]
            q == environ[j].name[1]
        IN  (p = "plain" /\ q = "AR_") \/ (p = q /\ i > j)
      answered == IF control # None /\ Resolved(control)
                  THEN View(control) ELSE << >>
  IN  pc = "served" /\ request.kind # "schema" =>
        \A k \in Keys :
          IF k \in DOMAIN schema /\ Speaking(k) # {}
          THEN \E i \in Speaking(k) :
                 /\ \A j \in Speaking(k) \ {i} : beats(i, j)
                 /\ k \in DOMAIN cfg /\ cfg[k] = environ[i].value
          ELSE /\ k \in DOMAIN cfg <=> k \in DOMAIN answered
               /\ k \in DOMAIN cfg => cfg[k] = answered[k]

(* middleware.go:92-102: the client is told to authenticate only when it   *)
(* sent no token; Control's own 401 or 403, and an answer that is no       *)
(* error status, reach it as other errors.                                 *)
OnlyMissingTokenIs401 ==
  pc = "refused" =>
    /\ status \in 400 .. 599 /\ status # 403
    /\ status = 401 => ~request.token /\ control = None

(* A refusal is due, and has the status that the client can act on.        *)
RefusedRightly == RequiredOrRefused /\ OnlyMissingTokenIs401
==============================================================================
