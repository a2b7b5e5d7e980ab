-------------------------- MODULE InstallPlan_proofs --------------------------
(***************************************************************************)
(* Proofs about InstallPlan: the choices of the operator are honoured, and *)
(* the configuration they make survives the response artifact.             *)
(***************************************************************************)
EXTENDS InstallPlan, TLAPS

-----------------------------------------------------------------------------
(* Texts, and the artifact.                                                *)

(* An accepted text has one of the option's values.                        *)
LEMMA AcceptedValue ==
    ASSUME NEW option \in RunOptions, NEW text \in Texts(option),
           Accepts(option, text)
    PROVE  Value(option, text) \in Values(option)
<1>1. CASE option \in DurationOptions
  BY <1>1, ConfigurationAssumption
     DEF RunOptions, DurationOptions, ToggleOptions, Accepts, Value, Values
<1>2. CASE option \in ToggleOptions
  BY <1>2 DEF DurationOptions, ToggleOptions, Accepts, Value, Values
<1>3. CASE option = "--source"
  BY <1>3 DEF DurationOptions, ToggleOptions, Accepts, Value, Values, Texts
<1>4. CASE option = "--name"
  BY <1>4 DEF DurationOptions, ToggleOptions, Accepts, Value, Values, Texts
<1>5. QED BY <1>1, <1>2, <1>3, <1>4 DEF RunOptions

(* A value is written as a text that is accepted and means it.             *)
LEMMA WrittenValue ==
    ASSUME NEW option \in RunOptions, NEW value \in Values(option)
    PROVE  /\ Accepts(option, Written(option, value))
           /\ Value(option, Written(option, value)) = value
<1>1. CASE option \in DurationOptions
  BY <1>1 DEF DurationOptions, ToggleOptions, Accepts, Value, Values, Written
<1>2. CASE option \in ToggleOptions
  <2>1. value \in BOOLEAN
    BY <1>2 DEF DurationOptions, ToggleOptions, Values
  <2>2. CASE value = TRUE
    BY <1>2, <2>2 DEF DurationOptions, ToggleOptions, Accepts, Value, Written
  <2>3. CASE value = FALSE
    BY <1>2, <2>3 DEF DurationOptions, ToggleOptions, Accepts, Value, Written
  <2>4. QED BY <2>1, <2>2, <2>3
<1>3. CASE option = "--source"
  BY <1>3 DEF DurationOptions, ToggleOptions, Accepts, Value, Values, Written, Paths
<1>4. CASE option = "--name"
  BY <1>4 DEF DurationOptions, ToggleOptions, Accepts, Value, Values, Written
<1>5. QED BY <1>1, <1>2, <1>3, <1>4 DEF RunOptions

LEMMA DefaultValue ==
    ASSUME NEW option \in RunOptions \ {"--source", "--name"}
    PROVE  Default(option) \in Values(option)
BY ConfigurationAssumption
   DEF RunOptions, DurationOptions, ToggleOptions, Default, Values

(* Every option has one place in the artifact.                             *)
LEMMA OrderComplete ==
    /\ DOMAIN ResponseOrder = 1 .. 7
    /\ \A i \in 1 .. 7 : ResponseOrder[i] \in RunOptions
    /\ \A option \in RunOptions : \E i \in 1 .. 7 : ResponseOrder[i] = option
    /\ \A i, j \in 1 .. 7 : ResponseOrder[i] = ResponseOrder[j] => i = j
<1>1. DOMAIN ResponseOrder = 1 .. 7
  BY DEF ResponseOrder
<1>2. /\ ResponseOrder[1] = "--source"
      /\ ResponseOrder[2] = "--name"
      /\ ResponseOrder[3] = "--activity-timeout-ms"
      /\ ResponseOrder[4] = "--detection-throttle-ms"
      /\ ResponseOrder[5] = "--running-motion-activity"
      /\ ResponseOrder[6] = "--paused-motion-activity"
      /\ ResponseOrder[7] = "--start-paused"
  BY DEF ResponseOrder
<1>3. \A i \in 1 .. 7 : i \in {1, 2, 3, 4, 5, 6, 7}
  OBVIOUS
<1>4. \A i \in 1 .. 7 : ResponseOrder[i] \in RunOptions
  BY <1>2, <1>3 DEF RunOptions, DurationOptions, ToggleOptions
<1>5. ASSUME NEW option \in RunOptions
      PROVE  \E i \in 1 .. 7 : ResponseOrder[i] = option
  <2>1. option \in {"--source", "--name", "--activity-timeout-ms",
                    "--detection-throttle-ms", "--running-motion-activity",
                    "--paused-motion-activity", "--start-paused"}
    BY DEF RunOptions, DurationOptions, ToggleOptions
  <2>2. QED BY <1>2, <2>1
<1>6. \A i, j \in 1 .. 7 : ResponseOrder[i] = ResponseOrder[j] => i = j
  BY <1>2, <1>3
<1>7. QED BY <1>1, <1>4, <1>5, <1>6

(* Of a configuration with a path of one line, the artifact is read as it  *)
(* was written, is accepted, and gives the same configuration.             *)
THEOREM ResponseRoundTrip ==
    ASSUME NEW c, IsConfig(c), c["--source"] # "two lines"
    PROVE  /\ RunAccepts(ReadResponse(Response(c)))
           /\ \A option \in RunOptions :
                 Configured(ReadResponse(Response(c)))[option] = c[option]
<1> DEFINE r == Response(c)
<1>1. /\ DOMAIN r = 1 .. 7
      /\ \A i \in 1 .. 7 :
            /\ r[i].option = ResponseOrder[i]
            /\ r[i].text = Written(ResponseOrder[i], c[ResponseOrder[i]])
  BY OrderComplete DEF Response
<1> HIDE DEF r
<1>3. \A i \in 1 .. 7 : r[i].option = "--source" => r[i].text # "two lines"
  BY <1>1 DEF Written, ToggleOptions
<1>4. ReadResponse(r) = r
  BY <1>1, <1>3 DEF ReadResponse
<1>5. Supplied(r) = RunOptions
  <2>1. \A i \in DOMAIN r : r[i].option \in RunOptions
    BY <1>1, OrderComplete
  <2>2. ASSUME NEW option \in RunOptions
        PROVE  \E i \in DOMAIN r : r[i].option = option
    <3>1. PICK i \in 1 .. 7 : ResponseOrder[i] = option
      BY OrderComplete
    <3>2. i \in DOMAIN r /\ r[i].option = option
      BY <1>1, <3>1, Zenon
    <3>3. QED BY <3>2, Zenon
  <2>3. QED BY <2>1, <2>2 DEF Supplied
<1>6. Distinct(r)
  <2>1. ASSUME NEW i \in DOMAIN r, NEW j \in DOMAIN r,
               r[i].option = r[j].option
        PROVE  i = j
    <3>1. i \in 1 .. 7 /\ j \in 1 .. 7
      BY <1>1, Zenon
    <3>2. ResponseOrder[i] = ResponseOrder[j]
      BY <1>1, <2>1, <3>1, Zenon
    <3>3. QED BY <3>1, <3>2, OrderComplete, Zenon
  <2>2. QED BY <2>1, Zenon DEF Distinct
<1>7. \A i \in DOMAIN r : Accepts(r[i].option, r[i].text)
  <2> TAKE i \in DOMAIN r
  <2>1. /\ r[i].option = ResponseOrder[i]
        /\ r[i].text = Written(ResponseOrder[i], c[ResponseOrder[i]])
        /\ ResponseOrder[i] \in RunOptions
    BY <1>1, OrderComplete
  <2>2. c[ResponseOrder[i]] \in Values(ResponseOrder[i])
    BY <2>1 DEF IsConfig
  <2>3. QED BY <2>1, <2>2, WrittenValue
<1>8. RunAccepts(r)
  BY <1>5, <1>6, <1>7 DEF RunAccepts, RunOptions
<1>9. ASSUME NEW option \in RunOptions
      PROVE  Configured(r)[option] = c[option]
  <2>1. PICK i \in 1 .. 7 : ResponseOrder[i] = option
    BY OrderComplete
  <2> DEFINE j == CHOOSE k \in DOMAIN r : r[k].option = option
  <2>2. j \in 1 .. 7 /\ r[j].option = option
    BY <1>1, <2>1
  <2>3. r[j].text = Written(option, c[option])
    BY <1>1, <2>2
  <2>4. TextOf(r, option) = Written(option, c[option])
    BY <2>3 DEF TextOf
  <2>5. Configured(r)[option] = Value(option, TextOf(r, option))
    BY <1>5 DEF Configured
  <2>6. QED BY <2>4, <2>5, WrittenValue DEF IsConfig
<1>10. QED BY <1>4, <1>8, <1>9 DEF r

-----------------------------------------------------------------------------
(* The inductive invariant: the plan has what the operator said (Recorded),*)
(* with a usable source and name once it is created (Complete), what was   *)
(* decided is what the device offers (Decided), and the artifact and the   *)
(* service have the plan (Carried).                                        *)

Recorded ==
    /\ \A option \in RunOptions :
          request[option] = IF option \in DOMAIN given
                                THEN Value(option, given[option])
                                ELSE Defaults[option]
    /\ \A option \in RunOptions \cap DOMAIN given :
          request[option] \in Values(option)
    /\ \A option \in ChoiceOptions :
          IF option \in DOMAIN given
              THEN /\ given[option] \in {"yes", "no"}
                   /\ choices[option] = given[option]
              ELSE choices[option] = "unresolved"

Complete ==
    /\ stage \notin {"parse", "source", "failed"} =>
           "--source" \in DOMAIN given
    /\ stage \notin {"parse", "source", "name", "failed"} =>
           "--name" \in DOMAIN given
    /\ stage \notin {"parse", "source", "name", "create", "failed"} =>
           request["--source"] \in Paths /\ request["--name"] = "valid"

Decided ==
    stage \in {"write", "start", "started"} =>
        /\ ChoicesValid
        /\ ChoicesResolved
        /\ resolution = Resolved

Carried ==
    /\ stage # "service failed"
    /\ stage \in {"start", "started"} => response = Response(PlanConfig)
    /\ stage = "started" =>
           \A option \in RunOptions : config[option] = PlanConfig[option]

PlanInv ==
    /\ PlanTypeOK
    /\ Recorded
    /\ Complete
    /\ Decided
    /\ Carried

LEMMA PlanInitInv == PlanInit => PlanInv
<1> SUFFICES ASSUME PlanInit PROVE PlanInv
  OBVIOUS
<1>1. DOMAIN given = {}
  BY DEF PlanInit
<1>2. IsRequest(Defaults)
  <2>1. DOMAIN Defaults = RunOptions
    BY DEF Defaults
  <2>2. ASSUME NEW option \in RunOptions, option \notin {"--source", "--name"}
        PROVE  Defaults[option] \in Values(option)
    BY <2>2, DefaultValue DEF Defaults
  <2>3. Defaults["--source"] = None /\ Defaults["--name"] = None
    BY DEF Defaults, RunOptions
  <2>4. QED BY <2>1, <2>2, <2>3 DEF IsRequest
<1>3. PlanTypeOK
  BY <1>1, <1>2 DEF PlanInit, PlanTypeOK, Stages, NoReadiness, NoResolution,
     Readiness, LibinputStatuses
<1>4. Recorded
  BY <1>1 DEF PlanInit, Recorded
<1>5. Complete /\ Decided /\ Carried
  BY DEF PlanInit, Complete, Decided, Carried
<1>6. QED BY <1>3, <1>4, <1>5 DEF PlanInv

(* A step that changes only the stage, to one that asks for nothing more.  *)
LEMMA StageStep ==
    ASSUME PlanInv, stage' \in Stages,
           stage' \notin {"write", "start", "started", "service failed"},
           UNCHANGED <<interactive, given, request, choices, readiness,
                       resolution, response, config>>,
           response = <<>>,
           Complete'
    PROVE  PlanInv'
<1>1. PlanTypeOK'
  BY DEF PlanInv, PlanTypeOK, IsRequest
<1>2. Recorded'
  BY DEF PlanInv, Recorded
<1>3. Decided' /\ Carried'
  BY DEF Decided, Carried
<1>4. QED BY <1>1, <1>2, <1>3 DEF PlanInv

LEMMA FailInv == ASSUME PlanInv, Fail, response = <<>> PROVE PlanInv'
<1>1. Complete'
  BY DEF Fail, Complete
<1>2. QED BY <1>1, StageStep DEF Fail, Stages

LEMMA ListedArgument ==
    ASSUME NEW list \in ArgumentLists, InstallAccepts(list),
           NEW option \in Supplied(list)
    PROVE  /\ TextOf(list, option) \in InstallTexts(option)
           /\ IF option \in ChoiceOptions
                  THEN TextOf(list, option) \in {"yes", "no"}
                  ELSE Accepts(option, TextOf(list, option))
<1> DEFINE j == CHOOSE i \in DOMAIN list : list[i].option = option
<1>1. PICK n \in 0 .. MaxArguments : list \in [1 .. n -> InstallArguments]
  BY DEF ArgumentLists
<1>2. \E i \in DOMAIN list : list[i].option = option
  BY DEF Supplied
<1>3. j \in DOMAIN list /\ list[j].option = option
  BY <1>2
<1> HIDE DEF j
<1>4. list[j] \in InstallArguments
  BY <1>1, <1>3
<1>5. option \in InstallOptions
  BY DEF InstallAccepts
<1>6. list[j].text \in InstallTexts(option)
  <2>1. CASE list[j] \in [option : {"--verbose"}, text : {"missing"}]
    BY <2>1, <1>3, <1>5
       DEF InstallOptions, RunOptions, ChoiceOptions, DurationOptions, ToggleOptions
  <2>2. CASE list[j] \in UNION {[option : {o}, text : InstallTexts(o)] :
                                   o \in InstallOptions}
    <3>1. PICK o \in InstallOptions :
              list[j] \in [option : {o}, text : InstallTexts(o)]
      BY <2>2
    <3>2. list[j].option = o /\ list[j].text \in InstallTexts(o)
      BY <3>1
    <3>3. o = option
      BY <3>2, <1>3
    <3>4. QED BY <3>2, <3>3
  <2>3. QED BY <2>1, <2>2, <1>4 DEF InstallArguments
<1>7. IF option \in ChoiceOptions
          THEN list[j].text \in {"yes", "no"}
          ELSE Accepts(option, list[j].text)
  BY <1>3 DEF InstallAccepts
<1>8. QED BY <1>6, <1>7 DEF TextOf, j

LEMMA OptionsDisjoint ==
    /\ RunOptions \cap ChoiceOptions = {}
    /\ "--source" \in RunOptions
    /\ "--name" \in RunOptions
  BY DEF RunOptions, ChoiceOptions, DurationOptions, ToggleOptions

LEMMA ParseInv == ASSUME PlanInv, ParseArguments PROVE PlanInv'
<1>1. PICK list \in ArgumentLists :
          /\ InstallAccepts(list)
          /\ given' = [option \in Supplied(list) |-> TextOf(list, option)]
          /\ request' = [option \in RunOptions |->
                            IF option \in Supplied(list)
                                THEN Value(option, TextOf(list, option))
                                ELSE Defaults[option]]
          /\ choices' = [option \in ChoiceOptions |->
                            IF option \in Supplied(list)
                                THEN TextOf(list, option)
                                ELSE "unresolved"]
  BY DEF ParseArguments
<1>2. DOMAIN given' = Supplied(list) /\ Supplied(list) \subseteq InstallOptions
  BY <1>1 DEF InstallAccepts
<1>3. ASSUME NEW option \in RunOptions, option \in Supplied(list)
      PROVE  request'[option] \in Values(option)
  <2>1. /\ TextOf(list, option) \in Texts(option)
        /\ Accepts(option, TextOf(list, option))
    BY <1>1, <1>3, ListedArgument, OptionsDisjoint DEF InstallTexts
  <2>2. QED BY <1>1, <1>3, <2>1, AcceptedValue
<1>9. Recorded'
  <2>1. ASSUME NEW option \in RunOptions
        PROVE  request'[option] = IF option \in DOMAIN given'
                                      THEN Value(option, given'[option])
                                      ELSE Defaults[option]
    BY <1>1, <1>2
  <2>2. ASSUME NEW option \in ChoiceOptions
        PROVE  IF option \in DOMAIN given'
                   THEN /\ given'[option] \in {"yes", "no"}
                        /\ choices'[option] = given'[option]
                   ELSE choices'[option] = "unresolved"
    BY <1>1, <1>2, ListedArgument
  <2>3. QED BY <1>2, <1>3, <2>1, <2>2 DEF Recorded
<1>4. IsRequest(request')
  <2>1. DOMAIN request' = RunOptions
    BY <1>1
  <2>3. ASSUME NEW option \in RunOptions, option \notin Supplied(list)
        PROVE  \/ request'[option] \in Values(option)
               \/ option \in {"--source", "--name"} /\ request'[option] = None
    BY <1>1, <2>3, DefaultValue DEF Defaults
  <2>4. QED BY <1>3, <2>1, <2>3 DEF IsRequest
<1>5. choices' \in [ChoiceOptions -> {"unresolved", "yes", "no"}]
  BY <1>1, ListedArgument
<1>6. PlanTypeOK'
  BY <1>2, <1>4, <1>5 DEF PlanInv, PlanTypeOK, ParseArguments, Stages
<1>7. Complete' /\ Decided' /\ Carried'
  BY DEF ParseArguments, Complete, Decided, Carried
<1>8. QED BY <1>9, <1>6, <1>7 DEF PlanInv

(* The path or the name is asked for, unless it was supplied.              *)
LEMMA PromptInv == ASSUME PlanInv, PromptSource \/ PromptName PROVE PlanInv'
<1>1. PICK option \in {"--source", "--name"} :
          /\ IF request[option] # None
                 THEN UNCHANGED <<given, request>>
                 ELSE \E text \in Texts(option) \ {"empty", "two lines", "missing"} :
                      /\ given' = [o \in DOMAIN given \cup {option} |->
                                      IF o = option THEN text ELSE given[o]]
                      /\ request' = [request EXCEPT ![option] = text]
          /\ \/ option = "--source" /\ stage = "source" /\ stage' = "name"
             \/ option = "--name" /\ stage = "name" /\ stage' = "create"
          /\ UNCHANGED <<interactive, choices, readiness, resolution,
                         response, config>>
  BY DEF PromptSource, PromptName, PromptLine
<1>2. CASE request[option] # None
  <2>1. option \in DOMAIN given
    BY <1>2, OptionsDisjoint DEF PlanInv, Recorded, Defaults
  <2>2. response = <<>>
    BY <1>1 DEF PlanInv, PlanTypeOK
  <2>3. Complete'
    BY <1>1, <1>2, <2>1 DEF PlanInv, Complete
  <2>4. stage' \in {"name", "create"}
    BY <1>1
  <2>5. UNCHANGED <<interactive, given, request, choices, readiness,
                    resolution, response, config>>
    BY <1>1, <1>2
  <2>6. QED BY <2>2, <2>3, <2>4, <2>5, StageStep DEF Stages
<1>3. CASE request[option] = None
  <2>1. PICK text \in Texts(option) \ {"empty", "two lines", "missing"} :
            /\ given' = [o \in DOMAIN given \cup {option} |->
                            IF o = option THEN text ELSE given[o]]
            /\ request' = [request EXCEPT ![option] = text]
    BY <1>1, <1>3
  <2>2. /\ Value(option, text) = text
        /\ text \in Values(option)
    BY DEF Value, Values, Texts, ToggleOptions, DurationOptions, Paths
  <2>3. DOMAIN given' = DOMAIN given \cup {option}
    BY <2>1
  <2>4. DOMAIN request = RunOptions
    BY DEF PlanInv, PlanTypeOK, IsRequest
  <2>5. IsRequest(request')
    BY <2>1, <2>2, <2>4 DEF PlanInv, PlanTypeOK, IsRequest
  <2>6. Recorded'
    <3>1. ASSUME NEW o \in RunOptions
          PROVE  request'[o] = IF o \in DOMAIN given'
                                   THEN Value(o, given'[o])
                                   ELSE Defaults[o]
      BY <2>1, <2>2, <2>3, <2>4 DEF PlanInv, Recorded
    <3>2. ASSUME NEW o \in ChoiceOptions
          PROVE  IF o \in DOMAIN given'
                     THEN /\ given'[o] \in {"yes", "no"}
                          /\ choices'[o] = given'[o]
                     ELSE choices'[o] = "unresolved"
      <4>1. o # option
        BY OptionsDisjoint
      <4>2. QED BY <1>1, <2>1, <2>3, <4>1 DEF PlanInv, Recorded
    <3>3. ASSUME NEW o \in RunOptions \cap DOMAIN given'
          PROVE  request'[o] \in Values(o)
      BY <2>1, <2>2, <2>3, <2>4 DEF PlanInv, Recorded
    <3>4. QED BY <3>1, <3>2, <3>3 DEF Recorded
  <2>7. PlanTypeOK'
    BY <1>1, <2>3, <2>5, OptionsDisjoint
       DEF PlanInv, PlanTypeOK, Stages, InstallOptions
  <2>8. Complete'
    BY <1>1, <2>3 DEF PlanInv, Complete
  <2>9. Decided' /\ Carried'
    BY <1>1 DEF Decided, Carried
  <2>10. QED BY <2>6, <2>7, <2>8, <2>9 DEF PlanInv
<1>4. QED BY <1>2, <1>3

LEMMA CreateInv == ASSUME PlanInv, CreatePlan \/ ResolveIdentity PROVE PlanInv'
<1>1. response = <<>>
  BY DEF PlanInv, PlanTypeOK, CreatePlan, ResolveIdentity
<1>2. stage' \in {"identity", "assess"}
  BY DEF CreatePlan, ResolveIdentity
<1>3. UNCHANGED <<interactive, given, request, choices, readiness, resolution,
                  response, config>>
  BY DEF CreatePlan, ResolveIdentity
<1>4. Complete'
  <2>1. CASE CreatePlan
    <3>1. "--source" \in DOMAIN given /\ "--name" \in DOMAIN given
      BY <2>1 DEF PlanInv, Complete, CreatePlan
    <3>2. request["--source"] \in Values("--source")
      BY <3>1, OptionsDisjoint DEF PlanInv, Recorded
    <3>3. request["--source"] \in Paths
      BY <2>1, <3>2 DEF Values, DurationOptions, ToggleOptions, CreatePlan
    <3>4. QED BY <2>1, <3>1, <3>3 DEF Complete, CreatePlan
  <2>2. CASE ResolveIdentity
    BY <2>2 DEF PlanInv, Complete, ResolveIdentity
  <2>3. QED BY <2>1, <2>2
<1>5. QED BY <1>1, <1>2, <1>3, <1>4, StageStep DEF Stages

LEMMA AssessInv == ASSUME PlanInv, Assess \/ AssessUnresolved PROVE PlanInv'
<1>1. readiness' \in Readiness
  <2>1. CASE Assess
    BY <2>1 DEF Assess, Readiness, PersistentPath, Paths, LibinputStatuses, IsNarrow
  <2>2. CASE AssessUnresolved
    BY <2>2 DEF AssessUnresolved, NoReadiness, Readiness, LibinputStatuses
  <2>3. QED BY <2>1, <2>2
<1>2. /\ stage = "assess" /\ stage' = "preferred"
      /\ UNCHANGED <<interactive, given, request, choices, resolution,
                     response, config>>
  BY DEF Assess, AssessUnresolved
<1>3. PlanTypeOK'
  BY <1>1, <1>2 DEF PlanInv, PlanTypeOK, Stages, IsRequest
<1>4. Recorded' /\ Complete'
  BY <1>2 DEF PlanInv, Recorded, Complete
<1>5. Decided' /\ Carried'
  BY <1>2 DEF Decided, Carried
<1>6. QED BY <1>3, <1>4, <1>5 DEF PlanInv

(* One of the choices is made, or need not be.                             *)
LEMMA ChooseInv == ASSUME PlanInv, ChoosePreferred \/ ChooseRule PROVE PlanInv'
<1>1. /\ stage \in {"preferred", "rule"} /\ stage' \in {"rule", "resolve"}
      /\ UNCHANGED <<interactive, request, readiness, resolution, response,
                     config>>
      /\ \/ UNCHANGED <<given, choices>>
         \/ \E option \in ChoiceOptions, answer \in {"yes", "no"} :
               /\ given' = [o \in DOMAIN given \cup {option} |->
                               IF o = option THEN answer ELSE given[o]]
               /\ choices' = [choices EXCEPT ![option] = answer]
  BY DEF ChoosePreferred, ChooseRule, Decide, ChoiceOptions
<1>2. response = <<>>
  BY <1>1 DEF PlanInv, PlanTypeOK
<1>3. CASE UNCHANGED <<given, choices>>
  <2>1. Complete'
    BY <1>1, <1>3 DEF PlanInv, Complete
  <2>2. UNCHANGED <<interactive, given, request, choices, readiness,
                    resolution, response, config>>
    BY <1>1, <1>3
  <2>3. QED BY <1>1, <1>2, <2>1, <2>2, StageStep DEF Stages
<1>4. ASSUME NEW option \in ChoiceOptions, NEW answer \in {"yes", "no"},
             given' = [o \in DOMAIN given \cup {option} |->
                          IF o = option THEN answer ELSE given[o]],
             choices' = [choices EXCEPT ![option] = answer]
      PROVE  PlanInv'
  <2>1. DOMAIN given' = DOMAIN given \cup {option}
    BY <1>4
  <2>2. choices' \in [ChoiceOptions -> {"unresolved", "yes", "no"}]
    BY <1>4 DEF PlanInv, PlanTypeOK
  <2>3. PlanTypeOK'
    BY <1>1, <2>1, <2>2 DEF PlanInv, PlanTypeOK, Stages, InstallOptions, IsRequest
  <2>4. Recorded'
    <3>1. ASSUME NEW o \in RunOptions
          PROVE  request'[o] = IF o \in DOMAIN given'
                                   THEN Value(o, given'[o])
                                   ELSE Defaults[o]
      <4>1. o # option
        BY OptionsDisjoint
      <4>2. QED BY <1>1, <1>4, <2>1, <4>1 DEF PlanInv, Recorded
    <3>2. ASSUME NEW o \in ChoiceOptions
          PROVE  IF o \in DOMAIN given'
                     THEN /\ given'[o] \in {"yes", "no"}
                          /\ choices'[o] = given'[o]
                     ELSE choices'[o] = "unresolved"
      BY <1>4, <2>1 DEF PlanInv, PlanTypeOK, Recorded
    <3>3. RunOptions \cap DOMAIN given' = RunOptions \cap DOMAIN given
      BY <2>1, OptionsDisjoint
    <3>4. QED BY <1>1, <3>1, <3>2, <3>3 DEF PlanInv, Recorded
  <2>5. Complete'
    BY <1>1, <2>1 DEF PlanInv, Complete
  <2>6. Decided' /\ Carried'
    BY <1>1 DEF Decided, Carried
  <2>7. QED BY <2>3, <2>4, <2>5, <2>6 DEF PlanInv
<1>5. QED BY <1>1, <1>3, <1>4

LEMMA ResolveInv == ASSUME PlanInv, Resolve PROVE PlanInv'
<1>1. Resolved' = Resolved /\ ChoicesValid' = ChoicesValid
      /\ ChoicesResolved' = ChoicesResolved
  BY DEF Resolve, Resolved, ChoicesValid, ChoicesResolved, PreferredDiffers
<1>2. Decided'
  BY <1>1 DEF Resolve, Decided
<1>3. Resolved.source \in Paths
  BY DEF PlanInv, PlanTypeOK, Readiness, Resolve, Resolved, ChoicesValid,
     PreferredDiffers, Complete
<1>4. Resolved.rule \in BOOLEAN
  BY DEF PlanInv, PlanTypeOK, Readiness, Resolved
<1>5. resolution' \in [source : Paths \cup {None}, rule : BOOLEAN]
  <2>1. Resolved = [source |-> Resolved.source, rule |-> Resolved.rule]
    BY DEF Resolved
  <2>2. QED BY <1>3, <1>4, <2>1 DEF Resolve
<1>6. PlanTypeOK'
  BY <1>5 DEF PlanInv, PlanTypeOK, Stages, Resolve, IsRequest
<1>7. Recorded' /\ Complete'
  BY DEF PlanInv, Recorded, Complete, Resolve
<1>8. Carried'
  BY DEF Carried, Resolve
<1>9. QED BY <1>2, <1>6, <1>7, <1>8 DEF PlanInv

(* What is written and started is a configuration of one line an option.   *)
LEMMA PlannedConfig ==
    ASSUME PlanInv, stage \in {"write", "start", "started"}
    PROVE  IsConfig(PlanConfig) /\ PlanConfig["--source"] \in Paths
<1>1. resolution.source \in Paths
  <2>1. resolution = Resolved /\ ChoicesValid
    BY DEF PlanInv, Decided
  <2>2. request["--source"] \in Paths
    BY DEF PlanInv, Complete
  <2>3. readiness.preferred \in Paths \cup {None}
    BY DEF PlanInv, PlanTypeOK, Readiness
  <2>4. QED BY <2>1, <2>2, <2>3 DEF Resolved, ChoicesValid, PreferredDiffers
<1>2. request["--name"] = "valid"
  BY DEF PlanInv, Complete
<1>3. /\ DOMAIN request = RunOptions
      /\ \A option \in RunOptions :
            \/ request[option] \in Values(option)
            \/ option \in {"--source", "--name"} /\ request[option] = None
  BY DEF PlanInv, PlanTypeOK, IsRequest
<1>4. DOMAIN PlanConfig = RunOptions
  BY <1>3 DEF PlanConfig
<1>5. PlanConfig["--source"] = resolution.source
  BY <1>3, OptionsDisjoint DEF PlanConfig
<1>6. \A option \in RunOptions \ {"--source"} :
          PlanConfig[option] = request[option]
  BY <1>3 DEF PlanConfig
<1>7. /\ resolution.source \in Values("--source")
      /\ request["--name"] \in Values("--name")
  BY <1>1, <1>2 DEF Values, DurationOptions, ToggleOptions
<1>8. ASSUME NEW option \in RunOptions
      PROVE  PlanConfig[option] \in Values(option)
  BY <1>3, <1>5, <1>6, <1>7
<1>9. QED BY <1>1, <1>4, <1>5, <1>8 DEF IsConfig

LEMMA WriteInv == ASSUME PlanInv, WriteResponse PROVE PlanInv'
<1>1. PlanConfig' = PlanConfig
  BY DEF WriteResponse, PlanConfig
<1>2. Carried'
  BY <1>1 DEF WriteResponse, Carried
<1>3. PlanTypeOK'
  BY DEF PlanInv, PlanTypeOK, Stages, WriteResponse, IsRequest
<1>4. Recorded' /\ Complete'
  BY DEF PlanInv, Recorded, Complete, WriteResponse
<1>5. Decided'
  BY DEF PlanInv, Decided, WriteResponse, Resolved, ChoicesValid,
     ChoicesResolved, PreferredDiffers
<1>6. QED BY <1>2, <1>3, <1>4, <1>5 DEF PlanInv

LEMMA StartInv == ASSUME PlanInv, StartService PROVE PlanInv'
<1> DEFINE list == ReadResponse(response)
<1>1. response = Response(PlanConfig) /\ stage = "start"
  BY DEF PlanInv, Carried, StartService
<1>2. IsConfig(PlanConfig) /\ PlanConfig["--source"] # "two lines"
  BY <1>1, PlannedConfig DEF Paths
<1>3. /\ RunAccepts(list)
      /\ \A option \in RunOptions : Configured(list)[option] = PlanConfig[option]
  BY <1>1, <1>2, ResponseRoundTrip
<1>4. /\ stage' = "started" /\ config' = Configured(list)
      /\ UNCHANGED <<interactive, given, request, choices, readiness,
                     resolution, response>>
  BY <1>3 DEF StartService
<1>5. PlanConfig' = PlanConfig
  BY <1>4 DEF PlanConfig
<1>6. Carried'
  BY <1>1, <1>3, <1>4, <1>5 DEF Carried
<1>7. IsConfig(config')
  <2>1. DOMAIN config' = RunOptions
    BY <1>4 DEF Configured
  <2>2. QED BY <1>2, <1>3, <1>4, <2>1 DEF IsConfig
<1>8. PlanTypeOK'
  BY <1>4, <1>7 DEF PlanInv, PlanTypeOK, Stages, IsRequest
<1>9. Recorded' /\ Complete'
  BY <1>1, <1>4 DEF PlanInv, Recorded, Complete
<1>10. Decided'
  BY <1>1, <1>4 DEF PlanInv, Decided, Resolved, ChoicesValid, ChoicesResolved,
     PreferredDiffers
<1>11. QED BY <1>6, <1>8, <1>9, <1>10 DEF PlanInv

LEMMA PlanNextInv == ASSUME PlanInv, [PlanNext]_plan_vars PROVE PlanInv'
<1>1. CASE NotRoot \/ ArgumentsInvalid \/ PromptLineFails \/ CreatePlanFails
           \/ ResolveIdentityFails \/ DecisionFails \/ NotReady \/ WriteFails
  <2>1. Fail /\ stage \notin {"start", "started", "service failed"}
    BY <1>1 DEF NotRoot, ArgumentsInvalid, PromptLineFails, CreatePlanFails,
       ResolveIdentityFails, DecisionFails, NotReady, WriteFails
  <2>2. response = <<>>
    BY <2>1 DEF PlanInv, PlanTypeOK
  <2>3. QED BY <2>1, <2>2, FailInv
<1>2. CASE UNCHANGED plan_vars
  <2>1. PlanTypeOK'
    BY <1>2 DEF PlanInv, PlanTypeOK, IsRequest, plan_vars
  <2>2. Recorded' /\ Complete'
    BY <1>2 DEF PlanInv, Recorded, Complete, plan_vars
  <2>3. Decided'
    BY <1>2 DEF PlanInv, Decided, Resolved, ChoicesValid, ChoicesResolved,
       PreferredDiffers, plan_vars
  <2>4. PlanConfig' = PlanConfig
    BY <1>2 DEF PlanConfig, plan_vars
  <2>5. Carried'
    BY <1>2, <2>4 DEF PlanInv, Carried, plan_vars
  <2>6. QED BY <2>1, <2>2, <2>3, <2>5 DEF PlanInv
<1>3. QED
  BY <1>1, <1>2, ParseInv, PromptInv, CreateInv, AssessInv, ChooseInv,
     ResolveInv, WriteInv, StartInv
     DEF PlanNext

(* The inductive invariant of the plan holds.                              *)
THEOREM PlanCorrect == PlanSpec => []PlanInv
<1>1. PlanInit => PlanInv
  BY PlanInitInv
<1>2. PlanInv /\ [PlanNext]_plan_vars => PlanInv'
  BY PlanNextInv
<1>3. QED BY <1>1, <1>2, PTL DEF PlanSpec

-----------------------------------------------------------------------------

(* Type correctness of the plan.                                           *)
THEOREM PlanTypeCorrect == PlanSpec => []PlanTypeOK
<1>1. PlanInv => PlanTypeOK
  BY DEF PlanInv
<1>2. QED BY <1>1, PlanCorrect, PTL

(* The source of an accepted plan is the one the operator chose.           *)
LEMMA SourceChosen ==
    ASSUME PlanInv, stage \in {"write", "start", "started"}
    PROVE  resolution.source = ChosenSource
<1>1. /\ "--source" \in DOMAIN given
      /\ request["--source"] = given["--source"]
  BY OptionsDisjoint
     DEF PlanInv, Complete, Recorded, Value, ToggleOptions
<1>2. choices["--use-preferred-run-source"] = "yes" <=>
          /\ "--use-preferred-run-source" \in DOMAIN given
          /\ given["--use-preferred-run-source"] = "yes"
  BY DEF PlanInv, Recorded, ChoiceOptions
<1>3. QED BY <1>1, <1>2 DEF PlanInv, Decided, Resolved, ChosenSource

LEMMA DecidedHonours == PlanInv => ChoicesHonoured
<1>1. ASSUME PlanInv, stage \in {"write", "start", "started"}
      PROVE  /\ resolution.rule <=>
                    /\ "--add-libinput-ignore-rule" \in DOMAIN given
                    /\ given["--add-libinput-ignore-rule"] = "yes"
             /\ PreferredDiffers =>
                    "--use-preferred-run-source" \in DOMAIN given
             /\ readiness.rule_available =>
                    "--add-libinput-ignore-rule" \in DOMAIN given
  <2>1. /\ resolution = Resolved
        /\ ChoicesValid
        /\ ChoicesResolved
    BY <1>1 DEF PlanInv, Decided
  <2>2. \A option \in ChoiceOptions :
            /\ choices[option] = "yes" <=>
                   option \in DOMAIN given /\ given[option] = "yes"
            /\ choices[option] # "unresolved" => option \in DOMAIN given
    BY <1>1 DEF PlanInv, Recorded
  <2>3. readiness.rule_available \in BOOLEAN
    BY <1>1 DEF PlanInv, PlanTypeOK, Readiness
  <2>4. QED BY <2>1, <2>2, <2>3
       DEF Resolved, ChoicesValid, ChoicesResolved, ChoiceOptions
<1>2. QED
  BY <1>1, SourceChosen DEF ChoicesHonoured

(* install does what its operator asked for and nothing else.              *)
THEOREM InstallHonoursChoices == PlanSpec => []ChoicesHonoured
  BY DecidedHonours, PlanCorrect, PTL

LEMMA CarriedRuns == PlanInv => ServiceRunsPlan
<1>1. ASSUME PlanInv, stage = "started"
      PROVE  /\ config["--source"] = ChosenSource
             /\ \A option \in RunOptions \ {"--source"} :
                   config[option] = IF option \in DOMAIN given
                                        THEN Value(option, given[option])
                                        ELSE Default(option)
  <2>1. \A option \in RunOptions : config[option] = PlanConfig[option]
    BY <1>1 DEF PlanInv, Carried
  <2>2. DOMAIN request = RunOptions
    BY <1>1 DEF PlanInv, PlanTypeOK, IsRequest
  <2>3. config["--source"] = resolution.source
    BY <2>1, <2>2, OptionsDisjoint DEF PlanConfig
  <2>4. ASSUME NEW option \in RunOptions \ {"--source"}
        PROVE  config[option] = IF option \in DOMAIN given
                                    THEN Value(option, given[option])
                                    ELSE Default(option)
    <3>1. config[option] = request[option]
      BY <2>1, <2>2 DEF PlanConfig
    <3>2. option = "--name" => option \in DOMAIN given
      BY <1>1 DEF PlanInv, Complete
    <3>3. QED BY <1>1, <3>1, <3>2 DEF PlanInv, Recorded, Defaults
  <2>5. QED BY <1>1, <2>3, <2>4, SourceChosen
<1>2. QED
  BY <1>1 DEF PlanInv, Carried, ServiceRunsPlan

(* The service has the configuration that the operator of install stated,  *)
(* whatever it is: the artifact of every plan is accepted by `run'.        *)
THEOREM ServiceGetsPlan == PlanSpec => []ServiceRunsPlan
  BY CarriedRuns, PlanCorrect, PTL

=============================================================================
