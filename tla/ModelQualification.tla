------------------------- MODULE ModelQualification -------------------------
(***************************************************************************)
(* Model configs, training templates and the validation every training run  *)
(* goes through: the compatibility of the model family with the dataset and  *)
(* the qualification of the dataset for the task.  POST /training-runs       *)
(* applies the same validation as the preflight and takes what it accepts.   *)
(*                                                                         *)
(* A dataset is the metadata the checks read; Unknown stands for what the    *)
(* metadata does not say.                                                    *)
(***************************************************************************)
EXTENDS Integers, FiniteSets, Sequences, SequencesExt

CONSTANTS
    Datasets,       \* dataset -> its metadata
    ModelConfigs,   \* config payloads: family and the numbers the checks read
    ConfigSlots,    \* ids of stored model configs
    TemplatePosts,       \* templates a client posts
    RunRequests     \* training run requests

Unknown == "unknown"
NotSaid == -1          \* an unknown number
NoConfig == [family |-> Unknown]

\* Parameters are a dictionary, and a template names its validation profile.
OneValueEach(params) == \A p, q \in params : p[1] = q[1] => p = q

ASSUME QualificationConstants ==
    /\ \A t \in TemplatePosts : t.profile # Unknown /\ OneValueEach(t.params)
    /\ \A r \in RunRequests :
        /\ OneValueEach(r.params)
        /\ r = [config |-> r.config, dataset |-> r.dataset, task |-> r.task,
                profile |-> r.profile, params |-> r.params]
    /\ \A d \in DOMAIN Datasets :
        {Datasets[d].history, Datasets[d].universe, Datasets[d].members} \subseteq Int

VARIABLES
    configs,    \* id -> config, for those stored
    templates,  \* the templates posted
    verdicts,   \* the latest validation: request, config and response
    accepted    \* the latest training run taken: request, config and response

qualificationVars == <<configs, templates, verdicts, accepted>>

-----------------------------------------------------------------------------
(* The model families and their configs. *)
Requirement ==
    [torch_nn_timeseries |-> {"ohlcv.close", "entity_id", "timestamp"},
     hmm_regime_switching |-> {"returns.log"},
     arima |-> {"ohlcv.close"},
     kalman_filter |-> {"observations.state_signal"}]
Target(family) == IF family = "hmm_regime_switching" THEN "classification" ELSE "regression"

Lookbacks(least) == least .. 10000
Horizons == 1 .. 512

TorchConfigOK(c) ==
    /\ c.lookback \in Lookbacks(8) /\ c.horizon \in Horizons
    /\ c.heads = 1 \/ (c.transformer /\ c.hidden % c.heads = 0)

HmmConfigOK(c) == c.lookback \in Lookbacks(10)

\* Without the seasonal terms.
ArimaConfigOK(c) ==
    /\ c.p \in 0..10 /\ c.d \in 0..2 /\ c.q \in 0..10
    /\ <<c.p, c.d, c.q>> # <<0, 0, 0>>

KalmanConfigOK(c) ==
    /\ c.observed <= c.states
    /\ c.identity => c.observed = c.states

ValidConfig(c) ==
    \/ c.family = "torch_nn_timeseries" /\ TorchConfigOK(c)
    \/ c.family = "hmm_regime_switching" /\ HmmConfigOK(c)
    \/ c.family = "arima" /\ ArimaConfigOK(c)
    \/ c.family = "kalman_filter" /\ KalmanConfigOK(c)

\* _model_minimum_history_steps.
MinimumHistory(c) ==
    CASE c.family = "torch_nn_timeseries" -> c.lookback + c.horizon
      [] c.family = "hmm_regime_switching" -> c.lookback
      [] c.family = "arima" -> IF c.p + c.d + c.q > 20 THEN c.p + c.d + c.q + 10 ELSE 30
      [] OTHER -> 0

-----------------------------------------------------------------------------
(* _TASK_SUBTASK_REQUIREMENTS. *)
NoRequirement == [fields |-> {}, history |-> 0, multiAsset |-> FALSE, pit |-> FALSE]
EntityTask(steps, multi) ==
    [fields |-> {"entity_id", "timestamp"}, history |-> steps, multiAsset |-> multi, pit |-> FALSE]
ReturnsTask(steps, pointInTime) ==
    [fields |-> {"returns.log", "timestamp"}, history |-> steps, multiAsset |-> FALSE,
     pit |-> pointInTime]

TaskRequirement(task) ==
    CASE task = <<"time_series_momentum", "ranking">> -> EntityTask(60, TRUE)
      [] task = <<"time_series_momentum", "entry_signal">> -> EntityTask(30, FALSE)
      [] task = <<"time_series_momentum", "exit_signal">> -> EntityTask(30, FALSE)
      [] task = <<"cross_sectional", "ranking">> -> EntityTask(120, TRUE)
      [] task = <<"cross_sectional", "return_forecast">> -> EntityTask(90, TRUE)
      [] task = <<"cross_sectional", "allocation">> -> EntityTask(120, TRUE)
      [] task = <<"volatility", "vol_forecast">> -> ReturnsTask(120, FALSE)
      [] task = <<"regime_switching", "regime_state">> -> ReturnsTask(180, TRUE)
      [] OTHER -> NoRequirement

\* TASK_DEFINITIONS, with the default validation profile of each subtask.
DefaultProfile(task) ==
    CASE task = <<"time_series_momentum", "ranking">> -> "walk_forward"
      [] task[1] \in {"time_series_momentum", "volatility"} -> "rolling_split"
      [] task[1] = "cross_sectional" -> "purged_k_fold"
      [] task[1] = "regime_switching" -> "embargo"

Larger(a, b) == IF a > b THEN a ELSE b
RequiredHistory(task, c) == Larger(TaskRequirement(task).history, MinimumHistory(c))

-----------------------------------------------------------------------------
(* resolve_dataset_compatibility: what a timeframe stands in for. *)
KindOf(d) == IF d.kind = Unknown /\ d.timeframe # Unknown THEN "time_series" ELSE d.kind
IndexOf(d) == IF d.index = Unknown /\ KindOf(d) = "time_series" THEN "datetime" ELSE d.index
FrequencyOf(d) == IF d.frequency = Unknown THEN d.timeframe ELSE d.frequency

\* validate_model_dataset_compatibility: every family takes daily point-in-time
\* time series with a datetime index.  An unknown target is no error.
Incompatible(c, d) ==
    \/ KindOf(d) # "time_series"
    \/ IndexOf(d) # "datetime"
    \/ d.target \notin {Unknown, Target(c.family)}
    \/ ~(Requirement[c.family] \subseteq d.fields)
    \/ FrequencyOf(d) # "1d"
    \/ d.pit # "yes"

\* asset_universe_size, else the number of universe_members.
UniverseOf(d) == IF d.universe # NotSaid THEN d.universe ELSE d.members

QualificationErrors(task, c, d) ==
    {code \in {"missing_fields", "insufficient_history_window", "point_in_time_required",
               "insufficient_asset_universe"} :
        CASE code = "missing_fields" ->
                ~((Requirement[c.family] \cup TaskRequirement(task).fields) \subseteq d.fields)
          [] code = "insufficient_history_window" ->
                d.history # NotSaid /\ d.history < RequiredHistory(task, c)
          [] code = "point_in_time_required" -> d.pit # "yes"
          [] code = "insufficient_asset_universe" ->
                /\ TaskRequirement(task).multiAsset
                /\ UniverseOf(d) # NotSaid /\ UniverseOf(d) < 2}

QualificationWarnings(task, c, d) ==
    {code \in {"missing_history_window", "missing_asset_universe"} :
        IF code = "missing_history_window"
        THEN RequiredHistory(task, c) > 0 /\ d.history = NotSaid
        ELSE TaskRequirement(task).multiAsset /\ UniverseOf(d) = NotSaid}

\* _build_validation_response for a request.  Without a config or a dataset the
\* report is not evaluated; the profile is the requested one or the task's.
Response(r) ==
    LET stored == r.config \in DOMAIN configs
        found == r.dataset \in DOMAIN Datasets
        c == configs[r.config]
        d == Datasets[r.dataset]
    IN  [valid |-> /\ stored /\ found
                   /\ ~Incompatible(c, d) /\ QualificationErrors(r.task, c, d) = {},
         warnings |-> IF stored /\ found THEN QualificationWarnings(r.task, c, d) ELSE {},
         profile |-> IF r.profile # Unknown THEN r.profile ELSE DefaultProfile(r.task)]

Validated(r) ==
    [request |-> r, response |-> Response(r),
     config |-> IF r.config \in DOMAIN configs THEN configs[r.config] ELSE NoConfig]

-----------------------------------------------------------------------------
QualificationInit == configs = <<>> /\ templates = {} /\ verdicts = <<>> /\ accepted = <<>>

\* POST /model-configs: an unknown family is 404, a config its family's spec
\* refuses 422.
CreateModelConfig(id, c) ==
    /\ id \notin DOMAIN configs /\ ValidConfig(c)
    /\ configs' = [i \in DOMAIN configs \cup {id} |-> IF i = id THEN c ELSE configs[i]]
    /\ UNCHANGED <<templates, verdicts, accepted>>

\* PUT /model-configs/{id}: validated by the spec of the stored family.
UpdateModelConfig(id, c) ==
    /\ id \in DOMAIN configs
    /\ c.family = configs[id].family /\ ValidConfig(c)
    /\ configs' = [configs EXCEPT ![id] = c]
    /\ UNCHANGED <<templates, verdicts, accepted>>

\* POST .../compatibility and .../preflight.
PreflightRun(r) ==
    /\ verdicts' = <<Validated(r)>> /\ UNCHANGED <<configs, templates, accepted>>

\* The end of POST /training-runs: nothing is created unless the response is valid.
TakeTrainingRun(r) ==
    /\ verdicts' = <<Validated(r)>>
    /\ accepted' = IF Response(r).valid THEN <<Validated(r)>> ELSE accepted
    /\ UNCHANGED <<configs, templates>>

PostTemplate(t) ==
    /\ templates' = templates \cup {t} /\ UNCHANGED <<configs, verdicts, accepted>>

\* Mutant of Merged: what the request asks for comes first.
MergedRequestFirst(t, r) == [r EXCEPT !.params = {p \in t.params \cup r.params : TRUE}]

\* The template's task and profile; the request's parameters over the preset's.
Merged(t, r) ==
    [r EXCEPT !.task = t.task, !.profile = t.profile,
              !.params = r.params \cup {p \in t.params : ~\E q \in r.params : q[1] = p[1]}]

Applied(t, r) ==
    LET v == Validated(Merged(t, r))
    IN  [request |-> v.request, response |-> v.response, config |-> v.config,
         template |-> t, asked |-> r]

ApplyTemplate(t, r) ==
    /\ t \in templates
    /\ verdicts' = <<Applied(t, r)>>
    /\ UNCHANGED <<configs, templates, accepted>>

QualificationNext ==
    \/ \E id \in ConfigSlots, c \in ModelConfigs :
        CreateModelConfig(id, c) \/ UpdateModelConfig(id, c)
    \/ \E r \in RunRequests : PreflightRun(r) \/ TakeTrainingRun(r)
    \/ \E t \in TemplatePosts : PostTemplate(t)
    \/ \E t \in templates, r \in RunRequests : ApplyTemplate(t, r)

QualificationSpec == QualificationInit /\ [][QualificationNext]_qualificationVars

-----------------------------------------------------------------------------
\* Every stored config is one its family's spec takes, also after any number of
\* updates: a PUT cannot turn it into another family's.
ConfigsValid ==
    /\ DOMAIN configs \subseteq ConfigSlots
    /\ \A id \in DOMAIN configs : ValidConfig(configs[id])

\* A run that is taken has data for what it was asked to do: where the dataset
\* says how long its history is, it holds the windows of the model and those of
\* the task, and where it says how many assets it has, a ranking has two.
AcceptedHasTheData ==
    \A a \in ToSet(accepted) :
        LET d == Datasets[a.request.dataset]
            task == TaskRequirement(a.request.task)
        IN  /\ d.history # NotSaid =>
                /\ d.history >= task.history
                /\ a.config.family = "torch_nn_timeseries" =>
                    d.history >= a.config.lookback + a.config.horizon
            /\ task.multiAsset /\ d.universe # NotSaid => d.universe >= 2
            /\ task.fields \subseteq d.fields /\ d.pit = "yes"

\* What the dataset does not say is not held against it, but it is told: a run
\* taken without a known history or universe was answered with the warning.
UnknownIsTold ==
    \A a \in ToSet(accepted) :
        LET d == Datasets[a.request.dataset]
        IN  /\ d.history = NotSaid /\ a.config.family # "kalman_filter" =>
                "missing_history_window" \in a.response.warnings
            /\ TaskRequirement(a.request.task).multiAsset /\ UniverseOf(d) = NotSaid =>
                "missing_asset_universe" \in a.response.warnings

\* A template decides the task and the profile it was made for, whatever the
\* request says, while the request's own parameters are not overwritten and no
\* parameter has two values.
TemplateDecidesTask ==
    \A v \in ToSet(verdicts) : "template" \in DOMAIN v =>
        /\ v.request.task = v.template.task /\ v.response.profile = v.template.profile
        /\ v.asked.params \subseteq v.request.params
        /\ OneValueEach(v.request.params)

\* A training run that is taken fits: its stored config is valid, its data suffice for
\* model and task, what is unknown was told, and a template decided what it decides.
RunsQualified ==
    /\ ConfigsValid
    /\ AcceptedHasTheData
    /\ UnknownIsTold
    /\ TemplateDecidesTask
=============================================================================
