-------------------------------- MODULE Help --------------------------------
(***************************************************************************)
(* CLI::Formatter (include/CLI/CLI11.hpp): what the listing of --help says *)
(* about the options, without its columns and its descriptions.  The App   *)
(* of main has no subcommand, usage or footer.                             *)
(***************************************************************************)
EXTENDS CommandOptions

(* get_options, with the two filters that the listing uses. *)
positional_options(options)    == SelectSeq(options, get_positional)
nonpositional_options(options) == SelectSeq(options, nonpositional)

(* get_name with all_options: the names that are no positional one. *)
all_names(o) == {Letter(c) : c \in o.snames} \cup {Long(n, "") : n \in o.lnames}

make_option_name(o, is_positional) == IF is_positional THEN {Word(o.pname)} ELSE all_names(o)

(* How often an option is expected: what its row says, *)
TimesInRow(o) ==
  CASE o.expected_max = expected_max_vector_size -> "..."
    [] o.expected_max # expected_max_vector_size -> IF o.expected_min > 1 THEN "x" ELSE "once"

(* and what the usage line says. *)
TimesInUsage(o) ==
  CASE o.expected_max >= expected_max_vector_size -> "..."
    [] o.expected_max < expected_max_vector_size  -> IF o.expected_max > 1 THEN "x" ELSE "once"

make_option_opts(o) ==
  IF o.type_size_min = 0 THEN [type |-> {}, times |-> "once", REQUIRED |-> FALSE]
  ELSE [type |-> get_type_name(o), times |-> TimesInRow(o), REQUIRED |-> o.required]

(* Short names come before long ones. *)
make_option(o, is_positional) ==
  LET names == make_option_name(o, is_positional)
      left  == {n \in names : n.form # "long"}
  IN  [left |-> left, right |-> names \ left, opts |-> make_option_opts(o)]

make_group(opts, is_positional) == [i \in DOMAIN opts |-> make_option(opts[i], is_positional)]

make_positionals(options) == make_group(positional_options(options), TRUE)

get_groups(options) == {options[i].group : i \in DOMAIN options}

make_groups(options) ==
  [g \in get_groups(options) |->
     make_group(SelectSeq(nonpositional_options(options), LAMBDA o : o.group = g), FALSE)]

(* Mutant: brackets around what is required. *)
make_option_usage_Inverted(o) ==
  [name |-> make_option_name(o, TRUE), times |-> TimesInUsage(o), brackets |-> o.required]

make_option_usage(o) ==
  [name |-> make_option_name(o, TRUE), times |-> TimesInUsage(o), brackets |-> ~o.required]

make_usage(options) ==
  LET positionals == positional_options(options)
  IN  [badge       |-> nonpositional_options(options) # <<>>,
       positionals |-> [i \in DOMAIN positionals |-> make_option_usage(positionals[i])]]

make_help(options) ==
  [usage       |-> make_usage(options),
   POSITIONALS |-> make_positionals(options),
   OPTIONS     |-> make_groups(options)]
=============================================================================
