------------------------ MODULE MCScriptConfigSocket ------------------------
(***************************************************************************)
(* Instances of ScriptConfigSocket for TLC.                                *)
(***************************************************************************)
EXTENDS ScriptConfigSocket, TLC

Def(name, needs, default, options) ==
    [name |-> name, needs |-> needs, default |-> default, constant |-> FALSE,
     copies |-> None, derived |-> [v \in Values \cup {None} |-> v], options |-> options]
Plain(name, default, options) == Def(name, {}, default, [f \in [{} -> Values] |-> options])
On(name, other, choices) ==
    Def(name, {other}, None, [f \in [{other} -> Values] |-> choices[f[other]]])

(* "key" chooses the included file, "dep" depends on it and "fixed" is     *)
(* constant; each included file has an "extra" of its own, one with a      *)
(* default, one that depends on "dep" and copies its value.                *)
PageDefs(default) ==
    "key" :> Plain("key", default, {"a", "b"}) @@
    "dep" :> On("dep", "key", "a" :> {"a"} @@ "b" :> {"a", "b"}) @@
    "fixed" :> [Plain("fixed", "a", {}) EXCEPT !.constant = TRUE] @@
    "extraA" :> Plain("extra", "a", {"a"}) @@
    "extraB" :> [On("extra", "dep", "a" :> {"a", "b"} @@ "b" :> {"b"}) EXCEPT !.copies = "dep"]

PageNames == {"key", "dep", "fixed", "extra"}
PageOriginal == <<"key", "fixed", "dep">>
PageIncluded == "a" :> <<"extraA">> @@ "b" :> <<"extraB">>
PageValues(key, dep, fixed, extra) ==
    "key" :> key @@ "dep" :> dep @@ "fixed" :> fixed @@ "extra" :> extra
PageReloads == {PageValues("b", "none", "none", "b"), PageValues("b", "a", "none", "a")}
PageHistories ==
    {PageValues("unset", dep, "unset", "unset") : dep \in {"unset", "a"}}
        \cup {PageValues("b", "unset", "unset", "unset")}

(* Without a default for "key", and with one. *)
FreshDefs == PageDefs("none")
DefaultDefs == PageDefs("a")
=============================================================================
