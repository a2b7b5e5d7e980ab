----------------------------- MODULE InstallPlan -----------------------------
(***************************************************************************)
(* How install gets from its arguments, the answers of its operator and    *)
(* what it finds on the host to a response artifact, and the service from  *)
(* the artifact to its configuration (install_command.c,                   *)
(* installation_planner.c, installed_instance.c, main.c).                  *)
(*                                                                         *)
(* InstallCommand has the same command as it acts on the host; here it is  *)
(* what it decides.  A `stage' is a call the command makes next.           *)
(***************************************************************************)
EXTENDS RunConfiguration

CONSTANT MaxArguments   \* the longest argument list

VARIABLES
    stage,
    interactive,   \* standard input is a terminal
    given,         \* what the operator said: a text for each option
    request,       \* the requested policies, as parse_arguments has them
    choices,       \* the two deployment choices
    readiness,     \* what assess found
    resolution,    \* what resolve decided
    response,      \* the response artifact, empty when there is none
    config         \* the configuration of the service, empty before it runs

plan_vars == <<stage, interactive, given, request, choices, readiness,
               resolution, response, config>>

-----------------------------------------------------------------------------

Stages == {"parse", "source", "name", "create", "identity", "assess",
           "preferred", "rule", "resolve", "write", "start",
           "failed", "started", "service failed"}

ChoiceOptions == {"--use-preferred-run-source", "--add-libinput-ignore-rule"}

InstallOptions == RunOptions \cup ChoiceOptions

InstallTexts(option) ==
    IF option \in ChoiceOptions THEN {"yes", "no", "other", "missing"}
                                ELSE Texts(option)

InstallArguments ==
    (UNION {[option : {option}, text : InstallTexts(option)] :
                option \in InstallOptions})
        \cup [option : {"--verbose"}, text : {"missing"}]

LibinputStatuses == {"INDETERMINATE", "IGNORED", "NOT_IGNORED"}

None == "none"

NoReadiness == [preferred |-> None, libinput |-> "INDETERMINATE",
                rule_available |-> FALSE, blocked |-> TRUE]

NoResolution == [source |-> None, rule |-> FALSE]

Readiness == [preferred : Paths \cup {None}, libinput : LibinputStatuses,
              rule_available : BOOLEAN, blocked : BOOLEAN]

(* A preferred source is one that is not the source that was supplied.     *)
PreferredDiffers ==
    readiness.preferred \notin {None, request["--source"]}

(* A function as IsConfig's, which may lack a source or a name.            *)
IsRequest(r) ==
    /\ DOMAIN r = RunOptions
    /\ \A option \in RunOptions :
          \/ r[option] \in Values(option)
          \/ option \in {"--source", "--name"} /\ r[option] = None

PlanTypeOK ==
    /\ stage \in Stages
    /\ interactive \in BOOLEAN
    /\ DOMAIN given \subseteq InstallOptions
    /\ IsRequest(request)
    /\ choices \in [ChoiceOptions -> {"unresolved", "yes", "no"}]
    /\ readiness \in Readiness
    /\ resolution \in [source : Paths \cup {None}, rule : BOOLEAN]
    /\ response # <<>> => stage \in {"start", "started", "service failed"}
    /\ stage = "started" => IsConfig(config)

Defaults ==
    [option \in RunOptions |->
        IF option \in {"--source", "--name"} THEN None ELSE Default(option)]

PlanInit ==
    /\ stage = "parse"
    /\ interactive \in BOOLEAN
    /\ given = <<>>
    /\ request = Defaults
    /\ choices = [option \in ChoiceOptions |-> "unresolved"]
    /\ readiness = NoReadiness
    /\ resolution = NoResolution
    /\ response = <<>>
    /\ config = <<>>

-----------------------------------------------------------------------------

InstallAccepts(list) ==
    /\ Supplied(list) \subseteq InstallOptions
    /\ Distinct(list)
    /\ \A i \in DOMAIN list :
          IF list[i].option \in ChoiceOptions
              THEN list[i].text \in {"yes", "no"}
              ELSE Accepts(list[i].option, list[i].text)

Fail ==
    /\ stage' = "failed"
    /\ UNCHANGED <<interactive, given, request, choices, readiness,
                   resolution, response, config>>

NotRoot == stage = "parse" /\ Fail

ArgumentLists == UNION {[1 .. n -> InstallArguments] : n \in 0 .. MaxArguments}

(* parse_arguments.                                                        *)
ParseArguments ==
    /\ stage = "parse"
    /\ \E list \in ArgumentLists :
          /\ InstallAccepts(list)
          /\ given' = [option \in Supplied(list) |-> TextOf(list, option)]
          /\ request' = [option \in RunOptions |->
                            IF option \in Supplied(list)
                                THEN Value(option, TextOf(list, option))
                                ELSE Defaults[option]]
          /\ choices' = [option \in ChoiceOptions |->
                            IF option \in Supplied(list)
                                THEN TextOf(list, option)
                                ELSE "unresolved"]
    /\ stage' = "source"
    /\ UNCHANGED <<interactive, readiness, resolution, response, config>>

ArgumentsInvalid ==
    /\ stage = "parse"
    /\ \E list \in ArgumentLists : ~InstallAccepts(list)
    /\ Fail

(* prompt_line for an option that was not supplied.  A line is read to its *)
(* end, so an answer has no newline; an empty one is refused.              *)
PromptLine(at, option, next) ==
    /\ stage = at
    /\ IF request[option] # None
           THEN stage' = next /\ UNCHANGED <<given, request>>
           ELSE /\ interactive
                /\ \E text \in Texts(option) \ {"empty", "two lines", "missing"} :
                      /\ given' = [o \in DOMAIN given \cup {option} |->
                                      IF o = option THEN text ELSE given[o]]
                      /\ request' = [request EXCEPT ![option] = text]
                /\ stage' = next
    /\ UNCHANGED <<interactive, choices, readiness, resolution, response, config>>

PromptSource == PromptLine("source", "--source", "name")

PromptName == PromptLine("name", "--name", "create")

(* Standard input is not a terminal, it ends, or the line is empty.        *)
PromptLineFails ==
    /\ \/ stage = "source" /\ request["--source"] = None
       \/ stage = "name" /\ request["--name"] = None
    /\ Fail

(* input_proxy_installation_plan_create, which also needs the name to be   *)
(* free; InstallCommand has how that is found out.                         *)
CreatePlan ==
    /\ stage = "create"
    /\ request["--source"] \notin {"empty", "two lines"}
    /\ request["--name"] = "valid"
    /\ stage' = "identity"
    /\ UNCHANGED <<interactive, given, request, choices, readiness,
                   resolution, response, config>>

CreatePlanFails == stage = "create" /\ Fail

(* input_proxy_service_environment_resolve: the service user, its group,   *)
(* the input group and the membership in it are all there, or are not.     *)
ResolveIdentity ==
    /\ stage = "identity"
    /\ stage' = "assess"
    /\ UNCHANGED <<interactive, given, request, choices, readiness,
                   resolution, response, config>>

ResolveIdentityFails == stage = "identity" /\ Fail

-----------------------------------------------------------------------------
(* input_proxy_installation_plan_assess.                                   *)

(* input_proxy_find_persistent_input_path: a link in by-id, or one in      *)
(* by-path.                                                                *)
PersistentPath(links) ==
    IF "by-id" \in links THEN "by-id"
    ELSE IF "by-path" \in links THEN "by-path" ELSE None

(* input_proxy_rule_identity_is_narrow: which of the identifiers of the    *)
(* device are there and safe in a rule.                                    *)
IsNarrow(safe) ==
    /\ "path" \in safe
    /\ "udev" \in safe \/ "kernel" \in safe

(* The source is a device node that is there and has an event device.      *)
Assess ==
    /\ stage = "assess"
    /\ \E links \in SUBSET {"by-id", "by-path"},
          status \in LibinputStatuses,
          safe \in SUBSET {"path", "udev", "kernel"},
          physical, source_accessible, uinput_accessible \in BOOLEAN :
          readiness' =
              [preferred      |-> PersistentPath(links),
               libinput       |-> status,
               rule_available |-> IsNarrow(safe) /\ status = "NOT_IGNORED",
               blocked        |-> ~(physical /\ source_accessible
                                             /\ uinput_accessible)]
    /\ stage' = "preferred"
    /\ UNCHANGED <<interactive, given, request, choices, resolution,
                   response, config>>

(* It is not: a blocker, and nothing else is found out.                    *)
AssessUnresolved ==
    /\ stage = "assess"
    /\ readiness' = NoReadiness
    /\ stage' = "preferred"
    /\ UNCHANGED <<interactive, given, request, choices, resolution,
                   response, config>>

-----------------------------------------------------------------------------
(* The two decisions.                                                      *)

(* A decision is asked for when the host calls for it and no option made   *)
(* it.                                                                     *)
Decide(at, called_for, option, next) ==
    /\ stage = at
    /\ IF called_for /\ choices[option] = "unresolved"
           THEN /\ interactive
                /\ \E answer \in {"yes", "no"} :
                      /\ given' = [o \in DOMAIN given \cup {option} |->
                                      IF o = option THEN answer ELSE given[o]]
                      /\ choices' = [choices EXCEPT ![option] = answer]
           ELSE UNCHANGED <<given, choices>>
    /\ stage' = next
    /\ UNCHANGED <<interactive, request, readiness, resolution, response, config>>

ChoosePreferred ==
    Decide("preferred", PreferredDiffers, "--use-preferred-run-source", "rule")

ChooseRule ==
    Decide("rule", readiness.rule_available, "--add-libinput-ignore-rule",
           "resolve")

(* There is nobody to ask, or the answer is not one.                       *)
DecisionFails ==
    /\ \/ /\ stage = "preferred"
          /\ PreferredDiffers
          /\ choices["--use-preferred-run-source"] = "unresolved"
       \/ /\ stage = "rule"
          /\ readiness.rule_available
          /\ choices["--add-libinput-ignore-rule"] = "unresolved"
    /\ Fail

(* A choice that the device does not offer is refused.                     *)
ChoicesValid ==
    /\ choices["--use-preferred-run-source"] = "yes" => PreferredDiffers
    /\ choices["--add-libinput-ignore-rule"] = "yes" =>
           readiness.rule_available

ChoicesResolved ==
    /\ PreferredDiffers => choices["--use-preferred-run-source"] # "unresolved"
    /\ readiness.rule_available =>
           choices["--add-libinput-ignore-rule"] # "unresolved"

Resolved ==
    [source |-> IF choices["--use-preferred-run-source"] = "yes"
                    THEN readiness.preferred ELSE request["--source"],
     rule   |-> /\ readiness.rule_available
                /\ choices["--add-libinput-ignore-rule"] = "yes"]

(* Faulty: what is not offered is passed over.                             *)
ResolveLeniently ==
    /\ stage = "resolve"
    /\ ChoicesResolved
    /\ ~readiness.blocked
    /\ resolution' = Resolved
    /\ stage' = "write"
    /\ UNCHANGED <<interactive, given, request, choices, readiness,
                   response, config>>

(* input_proxy_installation_plan_resolve, for a plan that is then ready.   *)
Resolve ==
    /\ stage = "resolve"
    /\ ChoicesValid
    /\ ChoicesResolved
    /\ ~readiness.blocked
    /\ resolution' = Resolved
    /\ stage' = "write"
    /\ UNCHANGED <<interactive, given, request, choices, readiness,
                   response, config>>

NotReady ==
    /\ stage = "resolve"
    /\ ~ChoicesValid \/ ~ChoicesResolved \/ readiness.blocked
    /\ Fail

-----------------------------------------------------------------------------
(* The response artifact and the service.                                  *)

PlanConfig == [request EXCEPT !["--source"] = resolution.source]

(* input_proxy_installed_instance_create.                                  *)
WriteResponse ==
    /\ stage = "write"
    /\ resolution.source # "two lines"
    /\ response' = Response(PlanConfig)
    /\ stage' = "start"
    /\ UNCHANGED <<interactive, given, request, choices, readiness,
                   resolution, config>>

WriteFails == stage = "write" /\ Fail

(* `run @artifact', as the unit has it.                                    *)
StartService ==
    /\ stage = "start"
    /\ LET list == ReadResponse(response) IN
          IF RunAccepts(list)
              THEN stage' = "started" /\ config' = Configured(list)
              ELSE stage' = "service failed" /\ UNCHANGED config
    /\ UNCHANGED <<interactive, given, request, choices, readiness,
                   resolution, response>>

-----------------------------------------------------------------------------

PlanNext ==
    \/ NotRoot \/ ParseArguments \/ ArgumentsInvalid
    \/ PromptSource \/ PromptName \/ PromptLineFails
    \/ CreatePlan \/ CreatePlanFails
    \/ ResolveIdentity \/ ResolveIdentityFails
    \/ Assess \/ AssessUnresolved
    \/ ChoosePreferred \/ ChooseRule \/ DecisionFails
    \/ Resolve \/ NotReady
    \/ WriteResponse \/ WriteFails
    \/ StartService

PlanSpec == PlanInit /\ [][PlanNext]_plan_vars

-----------------------------------------------------------------------------
(* Properties.                                                             *)

(* The source the operator chose: the one supplied, or the preferred one   *)
(* by an explicit yes.                                                     *)
ChosenSource ==
    IF /\ "--use-preferred-run-source" \in DOMAIN given
       /\ given["--use-preferred-run-source"] = "yes"
        THEN readiness.preferred
        ELSE given["--source"]

(* The service runs with what the operator of install said, option by      *)
(* option, and with the defaults of `run' for what was not said: nothing   *)
(* is lost or changed between the parser of install, the plan, the         *)
(* artifact and the parser of `run', which accepts every artifact.         *)
ServiceRunsPlan ==
    /\ stage # "service failed"
    /\ stage = "started" =>
          /\ config["--source"] = ChosenSource
          /\ \A option \in RunOptions \ {"--source"} :
                config[option] = IF option \in DOMAIN given
                                     THEN Value(option, given[option])
                                     ELSE Default(option)

(* An install that goes through has done what its operator asked for and   *)
(* nothing else: the rule is planned exactly after a yes, a wish the       *)
(* device cannot fulfil is refused and not passed over, and a source or    *)
(* rule that calls for a decision has had one.                             *)
ChoicesHonoured ==
    stage \in {"write", "start", "started"} =>
        /\ resolution.rule <=>
               /\ "--add-libinput-ignore-rule" \in DOMAIN given
               /\ given["--add-libinput-ignore-rule"] = "yes"
        /\ resolution.source = ChosenSource
        /\ PreferredDiffers => "--use-preferred-run-source" \in DOMAIN given
        /\ readiness.rule_available =>
               "--add-libinput-ignore-rule" \in DOMAIN given

=============================================================================
