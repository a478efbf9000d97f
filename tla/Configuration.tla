----------------------------- MODULE Configuration -----------------------------
(***************************************************************************)
(* load_config: the built-in defaults, overlaid by the JSON file the user  *)
(* named, overlaid by five environment variables, then given its type and  *)
(* checked for paper mode.  A JSON value is one of                         *)
(*                                                                         *)
(*   [object |-> [key |-> value, ...]]                                     *)
(*   [text |-> ...]   [number |-> ...]   [flag |-> ...]   [list |-> ...]   *)
(*                                                                         *)
(* A text that names a file is spelled out by Spelled: is it absolute, and *)
(* the components it has (a leading ~ is already the home directory).      *)
(***************************************************************************)
EXTENDS Arguments

CONSTANTS
    Defaults,      \* default_config_json, as far as it is modelled
    FileText,      \* files that can be read |-> their JSON, or NotJson
    NotJson,
    Spelled,       \* texts of paths |-> [absolute, parts]
    Lower(_),      \* str::to_lowercase
    WorkingDir,    \* the components of the current directory
    MaxNesting     \* how deep serde_json reads: 128

ASSUME NestingAssumption == MaxNesting \in Nat /\ MaxNesting >= 3

Object(fields) == [object |-> fields]
IsObject(v) == "object" \in DOMAIN v
IsText(v) == "text" \in DOMAIN v
IsNumber(v) == "number" \in DOMAIN v
IsFlag(v) == "flag" \in DOMAIN v
Empty == Object([key \in {} |-> key])

(* The fields of two records, the upper one's where both have one.         *)
Overlaid(upper, lower) ==
    [key \in DOMAIN upper \cup DOMAIN lower |->
        IF key \in DOMAIN upper THEN upper[key] ELSE lower[key]]

(* map.insert(key, value)                                                  *)
Inserted(fields, key, value) ==
    [k \in DOMAIN fields \cup {key} |-> IF k = key THEN value ELSE fields[k]]

Has(v, key) == IsObject(v) /\ key \in DOMAIN v.object

(* What stands at a path, key by key; a path is made of texts.             *)
Child(v, key) == IF Has(v, key) THEN v.object[key] ELSE Empty

At(v, path) ==
    LET node[n \in 0 .. Len(path)] ==
            IF n = 0 THEN v ELSE Child(node[n - 1], path[n])
    IN  node[Len(path)]

Paths == {path \in Seq(STRING) : Len(path) <= MaxNesting}

Mut_ShallowMerge(base, over) == Object(Overlaid(over.object, base.object))

(* deep_merge: objects on both sides are merged key by key, anything else  *)
(* is replaced.  (Past the nesting limit there is nothing left to merge.)  *)
deep_merge(base, over) ==
    LET merge[path \in Paths] ==
            LET b == At(base, path)
                o == At(over, path)
                Merges(key) == /\ Append(path, key) \in Paths /\ Has(b, key)
                               /\ IsObject(b.object[key]) /\ IsObject(o.object[key])
            IN  IF ~IsObject(o) THEN b
                ELSE IF ~IsObject(b) THEN o
                ELSE Object([key \in DOMAIN b.object \cup DOMAIN o.object |->
                        IF ~Has(o, key) THEN b.object[key]
                        ELSE IF Merges(key) THEN merge[Append(path, key)]
                        ELSE o.object[key]])
    IN  merge[<<>>]

(* set_nested_string: whatever is in the way of the path becomes an object. *)
set_nested_string(root, path, text) ==
    LET put[n \in 0 .. Len(path)] ==
            LET node == At(root, SubSeq(path, 1, n))
                rest == IF IsObject(node) THEN node.object ELSE Empty.object
            IN  IF n = Len(path) THEN [text |-> text]
                ELSE Object(Inserted(rest, path[n + 1], put[n + 1]))
    IN  put[0]

(* EnvOverrides: the variables, and the setting each of them makes.        *)
Settings ==
    [SMART_HEDGE_PROVIDER   |-> <<"provider", "kind">>,
     SMART_HEDGE_MODEL_KIND |-> <<"model", "kind">>,
     OPENAI_MODEL           |-> <<"model", "name">>,
     SMART_HEDGE_CORE       |-> <<"core", "binary">>,
     SMART_HEDGE_DB         |-> <<"storage", "sqlite_path">>]

apply_env_overrides(config, env) ==
    LET Overriding(tree, variable) ==
            IF variable \in DOMAIN env
            THEN set_nested_string(tree, Settings[variable], env[variable]) ELSE tree
        provider == Overriding(config, "SMART_HEDGE_PROVIDER")
        kind     == Overriding(provider, "SMART_HEDGE_MODEL_KIND")
        name     == Overriding(kind, "OPENAI_MODEL")
        binary   == Overriding(name, "SMART_HEDGE_CORE")
    IN  Overriding(binary, "SMART_HEDGE_DB")

(* The keys that are looked for are texts, and so are the symbols that     *)
(* contracts are listed under.                                             *)
ASSUME KeyAssumption ==
    {"mode", "provider", "kind", "evidence_file", "model", "name", "core", "binary",
     "storage", "sqlite_path", "policy", "paper_only", "contracts"} \subseteq STRING

ASSUME SymbolAssumption ==
    \A layer \in {Defaults} \cup {FileText[file] : file \in DOMAIN FileText} :
        LET contracts == At(layer, <<"contracts">>)
        IN  IsObject(contracts) => DOMAIN contracts.object \subseteq STRING

-----------------------------------------------------------------------------
(* The typed Config: what must be there, and as what.                      *)
Texts == {<<"mode">>, <<"provider", "kind">>, <<"provider", "evidence_file">>,
          <<"model", "kind">>, <<"model", "name">>, <<"core", "binary">>,
          <<"storage", "sqlite_path">>}

(* A contract's fields: the ones that may be left out, and what they are   *)
(* then; strike and implied_volatility may not.  A strike is a number, or  *)
(* the text ATM in any case.                                               *)
ContractDefaults ==
    [option_type |-> [text |-> "call"], exercise_style |-> [text |-> "american"],
     days_to_expiry |-> [number |-> 30], contracts |-> [number |-> 0],
     current_shares |-> [number |-> 0], base_no_trade_band_shares |-> [number |-> 0],
     expiry |-> Empty]

IsContract(v) ==
    LET full == Overlaid(v.object, ContractDefaults)
    IN  /\ IsObject(v)
        /\ {"strike", "implied_volatility"} \subseteq DOMAIN v.object
        /\ IsNumber(full.strike) \/ (IsText(full.strike) /\ Lower(full.strike.text) = "atm")
        /\ \A key \in {"implied_volatility", "days_to_expiry", "contracts", "current_shares",
                       "base_no_trade_band_shares"} : IsNumber(full[key])
        /\ IsText(full.option_type) /\ IsText(full.exercise_style)
        /\ IsText(full.expiry) \/ full.expiry = Empty

ContractOf(v) ==
    LET full == Overlaid(v.object, ContractDefaults)
    IN  [strike |-> IF IsNumber(full.strike) THEN Some(full.strike.number) ELSE None,
         expiry |-> IF IsText(full.expiry) THEN Some(full.expiry.text) ELSE None,
         option_type |-> full.option_type.text,
         exercise_style |-> full.exercise_style.text,
         implied_volatility |-> full.implied_volatility.number,
         days_to_expiry |-> full.days_to_expiry.number,
         contracts |-> full.contracts.number,
         current_shares |-> full.current_shares.number,
         base_no_trade_band_shares |-> full.base_no_trade_band_shares.number]

FitsSchema(tree) ==
    /\ \A path \in Texts : IsText(At(tree, path))
    /\ IsFlag(At(tree, <<"policy", "paper_only">>))
    /\ IsObject(At(tree, <<"model", "models">>))
    /\ \A name \in DOMAIN At(tree, <<"model", "models">>).object :
          IsText(At(tree, <<"model", "models", name>>))
    /\ Has(tree, "contracts") /\ IsObject(tree.object.contracts)
    /\ \A symbol \in DOMAIN tree.object.contracts.object :
          IsContract(tree.object.contracts.object[symbol])

Typed(tree) ==
    [mode |-> At(tree, <<"mode">>).text,
     paper_only |-> At(tree, <<"policy", "paper_only">>).flag,
     provider |-> At(tree, <<"provider", "kind">>).text,
     model |-> At(tree, <<"model", "kind">>).text,
     name |-> At(tree, <<"model", "name">>).text,
     models |-> [n \in DOMAIN At(tree, <<"model", "models">>).object |->
                    At(tree, <<"model", "models", n>>).text],
     binary |-> At(tree, <<"core", "binary">>).text,
     sqlite_path |-> At(tree, <<"storage", "sqlite_path">>).text,
     contracts |-> [symbol \in DOMAIN tree.object.contracts.object |->
                      ContractOf(tree.object.contracts.object[symbol])]]

-----------------------------------------------------------------------------
Path(absolute, parts) == [absolute |-> absolute, parts |-> parts]

(* lexically_normalize: there is nothing left to pop in an empty path.     *)
lexically_normalize(path) ==
    LET Push(parts, part) ==
            IF part = "." THEN parts
            ELSE IF part # ".." THEN Append(parts, part)
            ELSE IF parts = <<>> THEN parts ELSE Front(parts)
    IN  [path EXCEPT !.parts = FoldLeft(Push, <<>>, @)]

resolve_project_path(config_dir, raw) ==
    IF Spelled[raw].absolute THEN Spelled[raw]
    ELSE lexically_normalize([config_dir EXCEPT !.parts = @ \o Spelled[raw].parts])

(* Which file the operating system takes a path for.                       *)
Located(path) ==
    lexically_normalize(IF path.absolute THEN path ELSE Path(TRUE, WorkingDir \o path.parts))

Mut_ChecksFirst(named, env) ==
    LET over == FileText[Value(named)]
        tree == IF Given(named) THEN deep_merge(Defaults, over) ELSE Defaults
        merged == apply_env_overrides(tree, env)
        directory == IF Given(named) /\ Spelled[Value(named)].parts # <<>>
                     THEN [Spelled[Value(named)] EXCEPT !.parts = Front(@)]
                     ELSE Path(TRUE, WorkingDir)
    IN  IF Given(named) /\ Value(named) \notin DOMAIN FileText THEN Fail("Io")
        ELSE IF Given(named) /\ over = NotJson THEN Fail("InvalidJson")
        ELSE IF Given(named) /\ ~IsObject(over) THEN Fail("RootNotAnObject")
        ELSE IF ~FitsSchema(merged) THEN Fail("SchemaMismatch")
        ELSE IF Lower(Typed(Defaults).mode) # "paper" THEN Fail("LiveModeNotSupported")
        ELSE IF ~Typed(Defaults).paper_only THEN Fail("PolicyPaperOnlyRequired")
        ELSE [config |-> Typed(merged), config_dir |-> directory]

(* load_config, of the file that was named, if one was.                    *)
load_config(named, env) ==
    LET over == FileText[Value(named)]
        tree == IF Given(named) THEN deep_merge(Defaults, over) ELSE Defaults
        merged == apply_env_overrides(tree, env)
        directory == IF Given(named) /\ Spelled[Value(named)].parts # <<>>
                     THEN [Spelled[Value(named)] EXCEPT !.parts = Front(@)]
                     ELSE Path(TRUE, WorkingDir)
    IN  IF Given(named) /\ Value(named) \notin DOMAIN FileText THEN Fail("Io")
        ELSE IF Given(named) /\ over = NotJson THEN Fail("InvalidJson")
        ELSE IF Given(named) /\ ~IsObject(over) THEN Fail("RootNotAnObject")
        ELSE IF ~FitsSchema(merged) THEN Fail("SchemaMismatch")
        ELSE IF Lower(Typed(merged).mode) # "paper" THEN Fail("LiveModeNotSupported")
        ELSE IF ~Typed(merged).paper_only THEN Fail("PolicyPaperOnlyRequired")
        ELSE [config |-> Typed(merged), config_dir |-> directory]

-----------------------------------------------------------------------------
(* What the three layers say of a setting, read one by one: the topmost    *)
(* layer that has it, where a file that puts a plain value in the way of   *)
(* the path has said that there is no such setting.                        *)
Says(v, path) == \A n \in 0..Len(path) - 1 : Has(At(v, SubSeq(path, 1, n)), path[n + 1])

Blocks(v, path) ==
    \E n \in 1..Len(path) - 1 :
        Says(v, SubSeq(path, 1, n)) /\ ~IsObject(At(v, SubSeq(path, 1, n)))

Layered(named, env, path) ==
    LET variables == {e \in DOMAIN env \cap DOMAIN Settings : Settings[e] = path}
    IN  IF variables # {} THEN [text |-> env[CHOOSE e \in variables : TRUE]]
        ELSE IF Given(named) /\ Says(FileText[Value(named)], path)
        THEN At(FileText[Value(named)], path)
        ELSE IF Given(named) /\ Blocks(FileText[Value(named)], path) THEN Empty
        ELSE At(Defaults, path)
================================================================================
