------------------------------ MODULE ToolArgs ------------------------------
(***************************************************************************)
(* The argument validator of ToolsService (validateParams and the          *)
(* validate* helpers of toolsService.ts): it turns the raw argument bag a  *)
(* model emitted into a typed call, or throws.                             *)
(*                                                                         *)
(* A raw argument is a JavaScript value as the tool-call parser delivers   *)
(* it: undefined (omitted), null, a boolean, a number or a string. Strings *)
(* are a fixed set of representative texts; what the helpers compute from *)
(* a text (truthiness, parseInt, includes('://'), URI.parse, the trailing  *)
(* slash) is given for each of them. Numbers are integers or an integer    *)
(* plus one half (frac), enough to tell integers from non-integers.        *)
(* Each tool's schema names, for every parameter, the helper that          *)
(* validates it; a call is valid when every parameter validates.           *)
(***************************************************************************)
EXTENDS Integers, Sequences, FiniteSets, TLC

CONSTANTS
    UriRaws,    \* raw values tried for URI parameters
    ValueRaws   \* raw values tried for every other parameter

(***************************************************************************)
(* Raw JavaScript values.                                                  *)
(***************************************************************************)
Texts == {"", "null", "undefined", "true", "false", "0", "1", "2", "2.5",
          "-1", "abc", "src/a.ts", "src/", "file:///a.ts", "a b://x"}

Undef == [t |-> "undefined"]
JNull == [t |-> "null"]
Str(x) == [t |-> "string", s |-> x]
Num(v, frac) == [t |-> "number", v |-> v, frac |-> frac]
Bool(b) == [t |-> "boolean", b |-> b]

\* JavaScript truthiness: !u.
Truthy(u) ==
    CASE u.t = "string"  -> u.s # ""
      [] u.t = "number"  -> u.v # 0 \/ u.frac
      [] u.t = "boolean" -> u.b
      [] OTHER           -> FALSE

\* parseInt of a text: the set holding its leading integer, empty for NaN.
ParseIntText(x) ==
    CASE x = "0" -> {0} [] x = "1" -> {1} [] x = "2" -> {2}
      [] x = "2.5" -> {2} [] x = "-1" -> {-1}
      [] OTHER -> {}

\* u + '': the text of a value, as far as parseInt is concerned.
ParseIntValue(u) ==
    CASE u.t = "string" -> ParseIntText(u.s)
      [] u.t = "number" -> {u.v}
      [] OTHER          -> {}

HasScheme(x) == x \in {"file:///a.ts", "a b://x"}   \* includes('://')
ParsesAsUri(x) == x = "file:///a.ts"                 \* URI.parse does not throw
EndsWithSlash(x) == x = "src/"

(***************************************************************************)
(* Typed values of a validated call, and the validate* helpers. Each       *)
(* helper returns the set of its results: empty when it throws.            *)
(***************************************************************************)
TNull == [ty |-> "null"]
TStr(x) == [ty |-> "str", s |-> x]
TNum(v, frac) == [ty |-> "num", v |-> v, frac |-> frac]
TBool(b) == [ty |-> "bool", b |-> b]
TUri(scheme, x) == [ty |-> "uri", scheme |-> scheme, s |-> x]

isFalsyNullOnly(u) == ~Truthy(u) \/ (u.t = "string" /\ u.s = "null")

isFalsy(u) == ~Truthy(u) \/ (u.t = "string" /\ u.s \in {"null", "undefined"})

validateStr(u) == IF u.t = "string" THEN {TStr(u.s)} ELSE {}

validateURIFallback(u) ==
    IF u.t # "string" THEN {}
    ELSE IF HasScheme(u.s) /\ ParsesAsUri(u.s)
         THEN {TUri("parsed", u.s)}
         ELSE {TUri("file", u.s)}

validateURI(u) ==
    IF u.t # "string" THEN {}
    ELSE IF HasScheme(u.s)
         THEN IF ParsesAsUri(u.s) THEN {TUri("parsed", u.s)} ELSE {}
         ELSE {TUri("file", u.s)}

validateOptionalURI(u) == IF isFalsy(u) THEN {TNull} ELSE validateURI(u)

validateOptionalStr(u) == IF isFalsy(u) THEN {TNull} ELSE validateStr(u)

validatePageNum(u) ==
    IF ~Truthy(u) THEN {TNum(1, FALSE)}
    ELSE LET p == ParseIntValue(u)
         IN IF p = {} THEN {}
            ELSE LET n == CHOOSE i \in p : TRUE
                 IN IF n < 1 THEN {} ELSE {TNum(n, FALSE)}

validateNumberUnparsed(u, default) ==
    IF u.t = "number" THEN {TNum(u.v, u.frac)}
    ELSE IF isFalsy(u) THEN {default}
    ELSE IF u.t = "string" THEN {TStr(u.s)}
    ELSE {default}

validateNumber(u, default) ==
    IF u.t = "number" THEN {TNum(u.v, u.frac)}
    ELSE IF isFalsy(u) THEN {default}
    ELSE IF u.t = "string"
         THEN IF ParseIntValue(u) = {} THEN {default}
              ELSE {TNum(CHOOSE i \in ParseIntValue(u) : TRUE, FALSE)}
    ELSE {default}

validateProposedTerminalId(u) ==
    IF ~Truthy(u) THEN {}
    ELSE {TStr(CASE u.t = "string" -> u.s
                 [] u.t = "number" -> ToString(u.v) \o (IF u.frac THEN ".5" ELSE "")
                 [] OTHER          -> IF u.b THEN "true" ELSE "false")}

validateBoolean(u, default) ==
    CASE u.t = "string" /\ u.s = "true"  -> {TBool(TRUE)}
      [] u.t = "string" /\ u.s = "false" -> {TBool(FALSE)}
      [] u.t = "boolean"                 -> {TBool(u.b)}
      [] OTHER                           -> {TBool(default)}

checkIfIsFolder(x) == EndsWithSlash(x)

(***************************************************************************)
(* How each kind of parameter is validated, with the tool-specific steps   *)
(* that follow the helper: read_file drops line numbers below 1,           *)
(* create/delete derive isFolder from the raw text, git_branch turns a     *)
(* false delete into null, git_stash / git_tag replace an unknown          *)
(* subcommand by their default.                                            *)
(***************************************************************************)
\* startLine < 1 for the number v (plus one half when frac): for an
\* integer v, v + 0.5 < 1 exactly when v < 1.
LessThanOne(n) == n.v < 1

EnumOr(u, allowed, default) ==
    { IF x.ty = "str" /\ x.s \notin allowed THEN TStr(default) ELSE x :
        x \in validateOptionalStr(u) }

ValidateParam(kind, u) ==
    CASE kind = "uri"       -> validateURI(u)
      [] kind = "uriFolder" -> { x @@ [isFolder |-> checkIfIsFolder(x.s)] : x \in validateURI(u) }
      [] kind = "str"       -> validateStr(u)
      [] kind = "optStr"    -> validateOptionalStr(u)
      [] kind = "optUri"    -> validateOptionalURI(u)
      [] kind = "page"      -> validatePageNum(u)
      [] kind = "line"      -> { IF n.ty = "num" /\ LessThanOne(n) THEN TNull ELSE n :
                                   n \in validateNumber(u, TNull) }
      [] kind = "pos"       -> validateNumber(u, TNum(1, FALSE))
      [] kind = "count"     -> validateNumber(u, TNum(10, FALSE))
      [] kind = "bool"      -> validateBoolean(u, FALSE)
      [] kind = "flag"      -> { IF b.b THEN TBool(TRUE) ELSE TNull : b \in validateBoolean(u, FALSE) }
      [] kind = "termId"    -> validateProposedTerminalId(u)
      [] kind = "stash"     -> EnumOr(u, {"push", "pop", "list", "apply"}, "push")
      [] kind = "tag"       -> EnumOr(u, {"list", "create", "delete"}, "list")

\* The schemas: for each tool, the kind of each raw parameter it reads.
ReadSchemas == [
    read_file             |-> [uri |-> "uri", start_line |-> "line", end_line |-> "line", page_number |-> "page"],
    ls_dir                |-> [uri |-> "uri", page_number |-> "page"],
    get_dir_tree          |-> [uri |-> "uri"],
    search_pathnames_only |-> [query |-> "str", search_in_folder |-> "optStr", page_number |-> "page"],
    search_for_files      |-> [query |-> "str", search_in_folder |-> "optUri", is_regex |-> "bool", page_number |-> "page"],
    search_in_file        |-> [uri |-> "uri", query |-> "str", is_regex |-> "bool"],
    read_lint_errors      |-> [uri |-> "uri"],
    create_file_or_folder |-> [uri |-> "uriFolder"],
    delete_file_or_folder |-> [uri |-> "uriFolder", is_recursive |-> "bool"],
    rewrite_file          |-> [uri |-> "uri", new_content |-> "str"],
    edit_file             |-> [uri |-> "uri", search_replace_blocks |-> "str"]]

ProcessSchemas == [
    run_command              |-> [command |-> "str", cwd |-> "optStr"],
    run_persistent_command   |-> [command |-> "str", persistent_terminal_id |-> "termId"],
    open_persistent_terminal |-> [cwd |-> "optStr"],
    kill_persistent_terminal |-> [persistent_terminal_id |-> "termId"],
    git_status   |-> [cwd |-> "optStr"],
    git_diff     |-> [cwd |-> "optStr", args |-> "optStr"],
    git_commit   |-> [cwd |-> "optStr", message |-> "str"],
    git_branch   |-> [cwd |-> "optStr", name |-> "optStr", delete |-> "flag"],
    git_push     |-> [cwd |-> "optStr", remote |-> "optStr", branch |-> "optStr"],
    git_log      |-> [cwd |-> "optStr", count |-> "count"],
    git_rebase   |-> [cwd |-> "optStr", branch |-> "str"],
    git_stash    |-> [cwd |-> "optStr", command |-> "stash"],
    git_tag      |-> [cwd |-> "optStr", command |-> "tag", name |-> "optStr"],
    git_checkout |-> [cwd |-> "optStr", branch |-> "str"]]

EditorSchemas == [
    move_file_or_folder  |-> [source_uri |-> "uri", target_uri |-> "uri"],
    copy_file_or_folder  |-> [source_uri |-> "uri", target_uri |-> "uri"],
    editor_close         |-> [uri |-> "uri"],
    editor_selection     |-> [uri |-> "uri", startLine |-> "pos", startColumn |-> "pos", endLine |-> "pos", endColumn |-> "pos"],
    lsp_rename           |-> [uri |-> "uri", line |-> "pos", column |-> "pos", newName |-> "str"],
    lsp_organize_imports |-> [uri |-> "uri"],
    lsp_code_actions     |-> [uri |-> "uri", line |-> "pos", column |-> "pos"],
    editor_scroll        |-> [uri |-> "uri", line |-> "pos"],
    terminal_focus       |-> [terminalId |-> "termId"],
    terminal_clear       |-> [terminalId |-> "termId"],
    lsp_symbols          |-> [uri |-> "uri"],
    lsp_definitions      |-> [uri |-> "uri", line |-> "pos", column |-> "pos"],
    lsp_references       |-> [uri |-> "uri", line |-> "pos", column |-> "pos"],
    lsp_hover            |-> [uri |-> "uri", line |-> "pos", column |-> "pos"],
    lsp_format           |-> [uri |-> "uri"],
    project_symbols      |-> [query |-> "str"],
    editor_open          |-> [uri |-> "uri"]]

Schema == ReadSchemas @@ ProcessSchemas @@ EditorSchemas

\* project_index and project_dependencies read no parameter.
Tools == DOMAIN Schema \cup {"project_index", "project_dependencies"}

Params(tool) == IF tool \in DOMAIN Schema THEN DOMAIN Schema[tool] ELSE {}
Kind(tool, p) == Schema[tool][p]

\* validateParams[tool]: the typed call the raw bag validates to, as a
\* set: empty when one of the helpers throws.
ValidateCall(tool, args) ==
    IF \A p \in Params(tool) : ValidateParam(Kind(tool, p), args[p]) # {}
    THEN {[p \in Params(tool) |-> CHOOSE x \in ValidateParam(Kind(tool, p), args[p]) : TRUE]}
    ELSE {}

(***************************************************************************)
(* One call through the validator: the model emits a tool name and a raw   *)
(* bag, validateParams[tool] turns it into a typed call or throws.         *)
(***************************************************************************)
UriKinds == {"uri", "uriFolder", "optUri"}
UriParams(t) == {p \in Params(t) : Kind(t, p) \in UriKinds}

\* Every raw bag of tool t over the chosen raw values.
RawBags(t) ==
    { a @@ b : a \in [UriParams(t) -> UriRaws],
               b \in [Params(t) \ UriParams(t) -> ValueRaws] }

VARIABLES
    tool,       \* the tool name the model emitted
    args,       \* its raw argument bag
    validated,  \* validateParams[tool] has run
    typed       \* the typed calls it produced: {} when it threw

vars == <<tool, args, validated, typed>>

\* The types of the typed values each kind of parameter may take, as the
\* executors' parameters declare them (toolsServiceTypes.ts).
ParamTypes(kind) ==
    CASE kind \in {"uri", "uriFolder"}         -> {"uri"}
      [] kind = "optUri"                      -> {"uri", "null"}
      [] kind \in {"str", "termId"}            -> {"str"}
      [] kind \in {"optStr", "stash", "tag"}   -> {"str", "null"}
      [] kind \in {"page", "pos", "count"}     -> {"num"}
      [] kind = "line"                        -> {"num", "null"}
      [] kind = "bool"                        -> {"bool"}
      [] kind = "flag"                        -> {"bool", "null"}

TypeOK ==
    /\ tool \in Tools
    /\ args \in [Params(tool) -> UriRaws \cup ValueRaws]
    /\ validated \in BOOLEAN
    /\ Cardinality(typed) <= 1
    /\ \A c \in typed : /\ DOMAIN c = Params(tool)
                        /\ \A p \in Params(tool) : c[p].ty \in ParamTypes(Kind(tool, p))

Init ==
    /\ tool \in Tools
    /\ args \in RawBags(tool)
    /\ validated = FALSE
    /\ typed = {}

Validate ==
    /\ ~validated
    /\ validated' = TRUE
    /\ typed' = ValidateCall(tool, args)
    /\ UNCHANGED <<tool, args>>

\* The validated call goes on to its executor (not part of this module).
Handoff == validated /\ UNCHANGED vars

Next == Validate \/ Handoff

Spec == Init /\ [][Next]_vars

(***************************************************************************)
(* Properties.                                                             *)
(***************************************************************************)
TheCall == CHOOSE c \in typed : TRUE

\* The forms spec 4.1 treats as an absent argument.
AbsentForms == {Undef, JNull, Str("null"), Str("undefined")}

AbsentValue(kind) ==
    CASE kind = "pos"   -> TNum(1, FALSE)
      [] kind = "count" -> TNum(10, FALSE)
      [] kind = "bool"  -> TBool(FALSE)
      [] OTHER          -> TNull

OptionalKinds == {"optStr", "optUri", "line", "pos", "count", "bool", "flag", "stash", "tag"}

\* Spec 8: a URI parameter holding "://" that URI.parse rejects fails the
\* call; one without "://" is read as a local file path (validateURI).
UriDualMode ==
    validated =>
      \A p \in Params(tool) :
        LET u == args[p] IN
        (Kind(tool, p) \in UriKinds /\ u.t = "string" /\ ~isFalsy(u)) =>
          /\ (HasScheme(u.s) /\ ~ParsesAsUri(u.s)) => typed = {}
          /\ (~HasScheme(u.s) /\ typed # {}) =>
                TheCall[p].scheme = "file" /\ TheCall[p].s = u.s

\* Spec 8: null, "null", "undefined" and an omitted key give an optional
\* parameter the same absent value: the call validates exactly as if the
\* key were omitted, and the parameter takes its declared default.
\* page_number is left out: validatePageNum throws on "null" (a hazard).
FalsyFormsAbsent ==
    validated =>
      \A p \in Params(tool) :
        (Kind(tool, p) \in OptionalKinds /\ args[p] \in AbsentForms) =>
          /\ typed = ValidateCall(tool, [args EXCEPT ![p] = Undef])
          /\ typed # {} => TheCall[p] = AbsentValue(Kind(tool, p))

====
