-------------------------- MODULE RunConfiguration --------------------------
(***************************************************************************)
(* How a session is configured: the options of `run' (main.c,              *)
(* runtime_policy.c), and the response artifact in which install keeps     *)
(* them for the service (installed_instance.c, response_file.c).           *)
(*                                                                         *)
(* An argument list is a sequence of options, each with its text.  A text  *)
(* is what the parser tells apart: a number, or NotANumber; a word; a      *)
(* path, which may be empty or contain a newline.  --verbose is left out.  *)
(***************************************************************************)
EXTENDS Integers, Sequences

CONSTANTS
    MaxDuration,      \* the largest duration accepted, UINT32_MAX
    DurationTexts,    \* the numbers given as durations
    DefaultTimeout,   \* INPUT_PROXY_DEFAULT_ACTIVITY_TIMEOUT_MS
    DefaultThrottle   \* INPUT_PROXY_DEFAULT_DETECTION_THROTTLE_MS

ASSUME ConfigurationAssumption ==
    /\ MaxDuration \in Nat
    /\ DurationTexts \subseteq Nat
    /\ DefaultTimeout \in 0 .. MaxDuration
    /\ DefaultThrottle \in 0 .. MaxDuration

DurationOptions == {"--activity-timeout-ms", "--detection-throttle-ms"}

ToggleOptions == {"--running-motion-activity", "--paused-motion-activity",
                  "--start-paused"}

RunOptions == {"--source", "--name"} \cup DurationOptions \cup ToggleOptions

-----------------------------------------------------------------------------
(* Texts and what they mean.                                               *)

NotANumber == -1

Paths == {"event", "by-id", "by-path"}

(* The text "missing" stands for the end of the list.                      *)
Texts(option) ==
    CASE option \in DurationOptions -> DurationTexts \cup {NotANumber}
      [] option \in ToggleOptions -> {"on", "off", "other"}
      [] option = "--source" -> Paths \cup {"empty", "two lines", "missing"}
      [] option = "--name" -> {"valid", "invalid", "missing"}

Accepts(option, text) ==
    CASE option \in DurationOptions -> text \in 0 .. MaxDuration
      [] option \in ToggleOptions -> text \in {"on", "off"}
      [] OTHER -> text # "missing"

Value(option, text) ==
    IF option \in ToggleOptions THEN text = "on" ELSE text

Default(option) ==
    CASE option = "--activity-timeout-ms" -> DefaultTimeout
      [] option = "--detection-throttle-ms" -> DefaultThrottle
      [] option \in {"--running-motion-activity",
                     "--paused-motion-activity"} -> TRUE
      [] option = "--start-paused" -> FALSE

Values(option) ==
    CASE option \in DurationOptions -> 0 .. MaxDuration
      [] option \in ToggleOptions -> BOOLEAN
      [] option = "--source" -> Paths \cup {"empty", "two lines"}
      [] option = "--name" -> {"valid", "invalid"}

(* A configuration has a value for every option.                           *)
IsConfig(config) ==
    /\ DOMAIN config = RunOptions
    /\ \A option \in RunOptions : config[option] \in Values(option)

-----------------------------------------------------------------------------
(* Argument lists.                                                         *)

Supplied(list) == {list[i].option : i \in DOMAIN list}

TextOf(list, option) ==
    list[CHOOSE i \in DOMAIN list : list[i].option = option].text

Distinct(list) ==
    \A i, j \in DOMAIN list : list[i].option = list[j].option => i = j

(* parse_run_config: no option twice, every value accepted, and source and *)
(* name are there.                                                         *)
RunAccepts(list) ==
    /\ Supplied(list) \subseteq RunOptions
    /\ Distinct(list)
    /\ \A i \in DOMAIN list : Accepts(list[i].option, list[i].text)
    /\ {"--source", "--name"} \subseteq Supplied(list)

Configured(list) ==
    [option \in RunOptions |->
        IF option \in Supplied(list)
            THEN Value(option, TextOf(list, option))
            ELSE Default(option)]

-----------------------------------------------------------------------------
(* The response artifact: a line for each option and for each value.       *)

ResponseOrder ==
    <<"--source", "--name", "--activity-timeout-ms",
      "--detection-throttle-ms", "--running-motion-activity",
      "--paused-motion-activity", "--start-paused">>

Written(option, value) ==
    IF option \in ToggleOptions
        THEN IF value THEN "on" ELSE "off"
        ELSE value

(* Faulty: both kinds of motion activity are written as the one of the     *)
(* running session.                                                        *)
ResponseWithOneToggle(config) ==
    [i \in DOMAIN ResponseOrder |->
        [option |-> ResponseOrder[i],
         text   |-> IF ResponseOrder[i] = "--paused-motion-activity"
                        THEN Written("--running-motion-activity",
                                     config["--running-motion-activity"])
                        ELSE Written(ResponseOrder[i],
                                     config[ResponseOrder[i]])]]

Response(config) ==
    [i \in DOMAIN ResponseOrder |->
        [option |-> ResponseOrder[i],
         text   |-> Written(ResponseOrder[i], config[ResponseOrder[i]])]]

(* input_proxy_response_file_read: one argument for each line.  A path of  *)
(* two lines ends as an option of its own, and what follows shifts.        *)
ReadResponse(response) ==
    IF \E i \in DOMAIN response : /\ response[i].option = "--source"
                                  /\ response[i].text = "two lines"
        THEN <<[option |-> "--source", text |-> "event"],
               [option |-> "the second line", text |-> "--name"]>>
        ELSE response

=============================================================================
