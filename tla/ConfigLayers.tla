---------------------------- MODULE ConfigLayers ----------------------------
(***************************************************************************)
(* How a process comes to its configuration (config/load.go,                 *)
(* config/validate.go): defaults, the user's file, the project's file, the   *)
(* environment and the flags are laid over one another, in this order, and   *)
(* the result is checked once, when all of them are applied.                 *)
(*                                                                           *)
(* A layer is the partial function of the fields it sets.  The fields of a   *)
(* profile are its provider, model, address and key variable, and whether it *)
(* has a timeout; of the other settings, which are merged alike, the approval *)
(* mode and the turns are kept.  A layer that sets a field to the empty text *)
(* is left out, and so is what a value looks like, but that a check refuses. *)
(***************************************************************************)
EXTENDS Integers, FiniteSets, Sequences, Functions

CONSTANTS
  Default,         \* DefaultProfileName
  Files,           \* config files, one of them absent: [sets, profiles, refused]
  Environments,    \* environments: [sets, model]
  Flags,           \* command lines: [sets, model]
  NoNumber,        \* a MENGDIE_MAX_TURNS that is none
  Malformed        \* values that Validate refuses

\* The settings beside the profiles, and the fields of a profile.
Settings == {"profile", "mode", "turns"}
Fields   == {"provider", "model", "address", "key", "timeout"}

ASSUME LayerShapes ==
  /\ \A f \in Files : /\ DOMAIN f.sets \subseteq Settings
                      /\ \A n \in DOMAIN f.profiles : DOMAIN f.profiles[n] \subseteq Fields
  /\ \A e \in Environments : DOMAIN e.sets \subseteq Settings \cup {"address", "key"}
  /\ \A c \in Flags : DOMAIN c.sets \subseteq Settings
  /\ \A e \in Environments \cup Flags : DOMAIN e.model \subseteq {"provider", "model"}

VARIABLES
  user, project,   \* the two files
  environment,     \* the variables
  flags,           \* the command line
  config,          \* [sets, profiles] as merged so far
  selected,        \* the profile the process will use
  loading          \* what is applied next; "loaded" or "failed" at the end

configVars == <<user, project, environment, flags, config, selected, loading>>

-----------------------------------------------------------------------------
(***************************************************************************)
(* One layer over another.                                                   *)
(***************************************************************************)

\* mutant: what is set stays
LowestWins(above, below) ==
  [f \in DOMAIN above \cup DOMAIN below |-> IF f \in DOMAIN below THEN below[f] ELSE above[f]]

\* A field that the layer sets replaces the one below.
Laid(above, below) ==
  [f \in DOMAIN above \cup DOMAIN below |-> IF f \in DOMAIN above THEN above[f] ELSE below[f]]

Only(layer, fields) == Restrict(layer, DOMAIN layer \cap fields)

Unset == [x \in {} |-> x]
ProfileOf(profiles, name) == IF name \in DOMAIN profiles THEN profiles[name] ELSE Unset

\* applyFile: field by field, and profile by profile.
Merged(below, file) ==
  [sets     |-> Laid(file.sets, below.sets),
   profiles |-> [n \in DOMAIN below.profiles \cup DOMAIN file.profiles |->
                   Laid(ProfileOf(file.profiles, n), ProfileOf(below.profiles, n))]]

\* Defaults: one profile, which has a timeout and no provider.
Defaults ==
  [sets     |-> [profile |-> Default, mode |-> "suggest", turns |-> "turns"],
   profiles |-> [n \in {Default} |-> [timeout |-> "timeout"]]]

\* applyModel: "model" or "provider:model".
WithModel(profiles, name, model) == [profiles EXCEPT ![name] = Laid(model, @)]

-----------------------------------------------------------------------------
(***************************************************************************)
(* Load.                                                                     *)
(***************************************************************************)

ConfigInit ==
  /\ user \in Files /\ project \in Files
  /\ environment \in Environments /\ flags \in Flags
  /\ config = Defaults /\ selected = Default
  /\ loading = "user"

FailLoading == loading' = "failed" /\ UNCHANGED <<config, selected>>

\* applyOptionalFile, twice; a file with a key in it, or that cannot be read, is refused.
LayFile(file, here, next) ==
  /\ loading = here
  /\ IF file.refused THEN FailLoading
     ELSE /\ config' = Merged(config, file) /\ loading' = next
          /\ UNCHANGED selected
  /\ UNCHANGED <<user, project, environment, flags>>

Named(sets, otherwise) == IF "profile" \in DOMAIN sets THEN sets.profile ELSE otherwise
EnvironmentProfile     == Named(environment.sets, config.sets.profile)

\* applyEnvironment: the profile it names, or the files do, takes its values.
ApplyEnvironment ==
  /\ loading = "environment"
  /\ IF \/ EnvironmentProfile \notin DOMAIN config.profiles
        \/ "turns" \in DOMAIN environment.sets /\ environment.sets.turns = NoNumber
     THEN FailLoading
     ELSE /\ config' =
               [sets     |-> Laid(Only(environment.sets, {"mode", "turns"}), config.sets),
                profiles |-> WithModel(config.profiles, EnvironmentProfile,
                               Laid(Only(environment.sets, {"address", "key"}), environment.model))]
          /\ loading' = "flags" /\ UNCHANGED selected
  /\ UNCHANGED <<user, project, environment, flags>>

\* The rest of Load: the flags name the profile that their model is for.
ApplyFlags ==
  /\ loading = "flags"
  /\ selected' = Named(flags.sets, EnvironmentProfile)
  /\ config' = [sets     |-> Laid(Only(flags.sets, {"mode", "turns"}), config.sets),
                profiles |-> IF selected' \in DOMAIN config.profiles
                             THEN WithModel(config.profiles, selected', flags.model) ELSE config.profiles]
  /\ loading' = "check"
  /\ UNCHANGED <<user, project, environment, flags>>

Sound(value) == value \notin Malformed

\* validateProfile: a profile that says anything names provider and model.
ValidProfile(profile) ==
  /\ DOMAIN profile \cap {"provider", "model", "address", "key"} # {} => {"provider", "model"} \subseteq DOMAIN profile
  /\ \A f \in DOMAIN profile : Sound(profile[f])
  /\ "timeout" \in DOMAIN profile

\* Validate.
Validate ==
  /\ loading = "check"
  /\ loading' = IF /\ selected \in DOMAIN config.profiles /\ ValidProfile(config.profiles[selected])
                   /\ Sound(config.sets.mode) /\ Sound(config.sets.turns)
                THEN "loaded" ELSE "failed"
  /\ UNCHANGED <<user, project, environment, flags, config, selected>>

ConfigNext ==
  \/ LayFile(user, "user", "project") \/ LayFile(project, "project", "environment")
  \/ ApplyEnvironment \/ ApplyFlags \/ Validate

ConfigSpec == ConfigInit /\ [][ConfigNext]_configVars

-----------------------------------------------------------------------------
(***************************************************************************)
(* Properties.                                                               *)
(***************************************************************************)

\* The profile that the environment or else the files name.
NamedBelowFlags == Named(environment.sets, Named(project.sets, Named(user.sets, Default)))

EnvironmentLayer == Laid(environment.model, environment.sets)

\* The layers of a field of a profile, the strongest first.
LayersOf(name) ==
  <<flags.model, EnvironmentLayer, ProfileOf(project.profiles, name), ProfileOf(user.profiles, name),
    IF name = Default THEN [timeout |-> "timeout"] ELSE Unset>>

SettingLayers == <<flags.sets, environment.sets, project.sets, user.sets, Defaults.sets>>

\* The first layer that sets the field decides it, and no layer, no value.
Decides(layers, field, settled) ==
  LET set == {i \in DOMAIN layers : field \in DOMAIN layers[i]}
  IN  IF set = {} THEN field \notin DOMAIN settled
      ELSE /\ field \in DOMAIN settled
           /\ settled[field] = layers[CHOOSE i \in set : \A j \in set : i <= j][field]

\* Load has laid the field on another profile than the flags then chose.
LaidElsewhere(field) ==
  field \in DOMAIN EnvironmentLayer \ DOMAIN flags.model /\ selected # NamedBelowFlags

\* What Load says of itself: a configuration that is used has, for every
\* setting and every field of the selected profile, the value of the strongest
\* layer that sets it, in the order flags, environment, project, user,
\* defaults, and a profile that is not the default inherits nothing.  The code
\* breaks this for what the environment sets of a profile, and no flag, when a
\* flag chooses another profile than the environment and the files name: it is
\* laid on that one, and the property says nothing about it.
StrongestLayerWins ==
  loading = "loaded" =>
    /\ \A s \in {"mode", "turns"} : Decides(SettingLayers, s, config.sets)
    /\ \A f \in Fields : LaidElsewhere(f) \/ Decides(LayersOf(selected), f, config.profiles[selected])
=============================================================================
