---------------------------- MODULE ModuleConfig ----------------------------
(***************************************************************************)
(* configure_set of src/build_set.rs and what build_set reads back: the    *)
(* .config file between the two commands, and the Modules.toml that is     *)
(* edited meanwhile.  A configuration file is a sequence of <<key, value>> *)
(* lines.                                                                  *)
(***************************************************************************)
EXTENDS Naturals, Sequences, FiniteSets

CONSTANTS
    ModuleName, \* module names
    Key,        \* configuration keys
    Prefixed,   \* the keys that begin with CONFIG_
    Target,     \* the three targets
    Sets,       \* the module sets Modules.toml may hold: records, see SetType
    Files,      \* the configuration files a user may put in place
    MaxSteps    \* bound on the commands

Mode == {"y", "m", "n"}

\* What parse_module_set accepts: no name is listed twice.
SetType(s) ==
    /\ s.listing \in Seq(ModuleName)                  \* the modules in file order
    /\ \A i, j \in DOMAIN s.listing : s.listing[i] = s.listing[j] => i = j
    /\ s.config \in [ModuleName -> Key]               \* the key of each
    /\ s.default \in [ModuleName -> Mode]
    /\ s.depends \in [ModuleName -> SUBSET ModuleName]
    /\ s.after \in [ModuleName -> SUBSET ModuleName]
    /\ s.targets \in [ModuleName -> SUBSET Target]    \* empty: every target

ASSUME ConfigAssumption ==
    /\ Prefixed \subseteq Key /\ MaxSteps \in Nat
    /\ \A s \in Sets : SetType(s)

VARIABLES
    set,       \* Modules.toml
    config,    \* the lines of the .config file
    written,   \* the set and the lines of the last successful configure_set, or <<>>
    command,   \* what happened last: the command, its target and its outcome
    steps      \* commands run

configVars == <<set, config, written, command, steps>>

Items(s) == {s[i] : i \in DOMAIN s}
Listed(s) == Items(s.listing)

\* parse_config refuses duplicates and keys without the prefix.
ParseOK(lines) ==
    /\ \A i \in DOMAIN lines : lines[i][1] \in Prefixed
    /\ \A i, j \in DOMAIN lines : lines[i][1] = lines[j][1] => i = j

KeysOf(lines) == {lines[i][1] : i \in DOMAIN lines}
ValueOf(lines, k) == (CHOOSE l \in Items(lines) : l[1] = k)[2]

\* resolve_modes: the configured value, or the default of the module.
Resolve(s, lines) ==
    [m \in Listed(s) |-> IF s.config[m] \in KeysOf(lines) THEN ValueOf(lines, s.config[m])
                                                           ELSE s.default[m]]

Active(s, t) == {m \in Listed(s) : s.targets[m] = {} \/ t \in s.targets[m]}

\* No cycle among the hard and the active soft dependencies: topological_order,
\* see CycleIsReal and CycleIsFound of ModuleOrder.
Ordered(s, t) ==
    \A C \in SUBSET Active(s, t) :
        C # {} => \E m \in C : (s.depends[m] \cup s.after[m]) \cap C = {}

\* active_modules, topological_order, validate_enabled_dependencies.
Valid(s, t, modes) ==
    /\ \A m \in Active(s, t) : s.depends[m] \subseteq Active(s, t)
    /\ Ordered(s, t)
    /\ \A m \in Active(s, t) : modes[m] # "n" => \A d \in s.depends[m] : modes[d] = modes[m]

\* The answer of configure_set for one key: the default, the value kept, or
\* what the user types, an empty line being the fallback.
Offers(how, m) ==
    IF how = "defconfig" THEN {set.default[m]}
    ELSE IF how = "oldconfig" /\ set.config[m] \in KeysOf(config) THEN {ValueOf(config, set.config[m])}
    ELSE Mode

\* A module's value is the answer to the last module with its key.
Selected(answers) ==
    [m \in Listed(set) |->
        LET last == CHOOSE i \in DOMAIN set.listing :
                        /\ set.config[set.listing[i]] = set.config[m]
                        /\ \A j \in DOMAIN set.listing :
                               set.config[set.listing[j]] = set.config[m] => j <= i
        IN  answers[set.listing[last]]]

\* Mutant: the file is written before the selection is validated.
ConfigureUnchecked(how) ==
    /\ ParseOK(config) /\ KeysOf(config) \subseteq {set.config[m] : m \in Listed(set)}
    /\ \E answers \in [Listed(set) -> Mode] :
          /\ \A m \in Listed(set) : answers[m] \in Offers(how, m)
          /\ config' = [i \in DOMAIN set.listing |->
                           <<set.config[set.listing[i]], Selected(answers)[set.listing[i]]>>]
          /\ written' = <<[set |-> set, lines |-> config']>>
          /\ command' = [name |-> how, ok |-> TRUE, target |-> "all"]
    /\ UNCHANGED set

\* configure_set: the existing file is parsed and may only hold keys of the
\* set; the selection is valid for all three targets; one line per module.
Configure(how) ==
    /\ ParseOK(config) /\ KeysOf(config) \subseteq {set.config[m] : m \in Listed(set)}
    /\ \E answers \in [Listed(set) -> Mode] :
          /\ \A m \in Listed(set) : answers[m] \in Offers(how, m)
          /\ \A t \in Target : Valid(set, t, Selected(answers))
          /\ config' = [i \in DOMAIN set.listing |->
                           <<set.config[set.listing[i]], Selected(answers)[set.listing[i]]>>]
          /\ written' = <<[set |-> set, lines |-> config']>>
          /\ command' = [name |-> how, ok |-> TRUE, target |-> "all"]
    /\ UNCHANGED set

\* Any of the checks fails: the file is left as it was.
ConfigureRefused(how) ==
    /\ \/ ~ParseOK(config)
       \/ ~(KeysOf(config) \subseteq {set.config[m] : m \in Listed(set)})
       \/ \E answers \in [Listed(set) -> Mode] :
              /\ \A m \in Listed(set) : answers[m] \in Offers(how, m)
              /\ \E t \in Target : ~Valid(set, t, Selected(answers))
    /\ command' = [name |-> how, ok |-> FALSE, target |-> "all"]
    /\ UNCHANGED <<set, config, written>>

\* build_set up to its validation: unknown keys do not matter here.
Build(t) ==
    /\ command' = [name |-> "build", target |-> t,
                   ok |-> ParseOK(config) /\ Valid(set, t, Resolve(set, config))]
    /\ UNCHANGED <<set, config, written>>

\* Modules.toml or the configuration file is edited.
Edit ==
    /\ \/ set' \in Sets \ {set} /\ config' = config
       \/ config' \in Files /\ set' = set
    /\ command' = [name |-> "edit", ok |-> TRUE, target |-> "all"]
    /\ UNCHANGED written

Hows == {"config", "oldconfig", "defconfig"}

ConfigNext ==
    /\ steps < MaxSteps /\ steps' = steps + 1
    /\ \/ \E how \in Hows : Configure(how) \/ ConfigureRefused(how)
       \/ \E t \in Target : Build(t)
       \/ Edit

ConfigInit ==
    /\ set \in Sets /\ config = <<>> /\ written = <<>>
    /\ command = [name |-> "none", ok |-> TRUE, target |-> "all"] /\ steps = 0

ConfigSpec == ConfigInit /\ [][ConfigNext]_configVars

-----------------------------------------------------------------------------
(* Properties. *)

\* Configured and not edited since.
Fresh == written = <<[set |-> set, lines |-> config]>>

\* Each module has a key of its own that begins with CONFIG_.
OwnKeys(s) ==
    /\ \A m \in Listed(s) : s.config[m] \in Prefixed
    /\ \A m, n \in Listed(s) : s.config[m] = s.config[n] => m = n

\* configure_set and build_set: a file that configure_set has written builds
\* on each target, with the modes that were chosen, while Modules.toml stays.
ConfiguredBuilds ==
    Fresh /\ OwnKeys(set) =>
        /\ command.name = "build" => command.ok
        /\ \A i \in DOMAIN set.listing : Resolve(set, config)[set.listing[i]] = config[i][2]

=============================================================================
