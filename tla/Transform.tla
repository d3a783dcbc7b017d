----------------------------- MODULE Transform -----------------------------
(***************************************************************************)
(* What becomes of a source file before esbuild sees it                    *)
(* (esbuild-plugin-transform.ts and the plugins): the user's plugins are   *)
(* applied in the order of the configuration, each if its filter accepts   *)
(* what the earlier ones have left.                                        *)
(*                                                                         *)
(* Code is abstracted to the syntax it contains.  A plugin compiles some   *)
(* of that away, and throws if its parser meets some that it does not      *)
(* know; what the parser knows depends on the loader, which the plugins    *)
(* hand on with the code.                                                  *)
(***************************************************************************)
EXTENDS Naturals, Sequences

CONSTANTS
    PluginLists,   \* the lists of plugins that a configuration may have
    FlowPackages,  \* the packages that the flow plugin is configured for
    Package        \* where a file may come from; "<app-code>" is the app itself

Loader == {"js", "jsx", "cjs", "ts", "tsx", "svg"}

Name == {"flow", "svg", "reanimated", "swc"}

ASSUME TransformAssumption ==
    /\ PluginLists \subseteq Seq(Name)
    /\ FlowPackages \subseteq Package

(* "types" are TypeScript's, "flow" are Flow's; "es6" is what esbuild does *)
(* not lower to ES5, like let and destructuring; "worklet" is code that    *)
(* reanimated has to compile; "svg" is an image; "error" is a mistake that *)
(* no parser accepts.                                                      *)
Syntax == {"jsx", "types", "flow", "es6", "worklet", "svg", "error"}

Data == [loader : Loader, syntax : SUBSET Syntax]

VARIABLES
    plugins,   \* options.plugins
    file,      \* the file: where it comes from, its extension, its code
    next,      \* the plugin whose turn it is
    data,      \* PluginData: loader and code
    result     \* "none", "loaded" (contents for esbuild), or "errors"

vars == <<plugins, file, next, data, result>>

(***************************************************************************)
(* The files that one finds.  Flow is only written in packages that the    *)
(* flow plugin is configured for; a worklet only in the app and in         *)
(* reanimated itself.                                                      *)
(***************************************************************************)
Written(ext) ==
    CASE ext = "js"  -> {"jsx", "flow", "es6", "worklet"}
      [] ext = "jsx" -> {"jsx", "es6", "worklet"}
      [] ext = "cjs" -> {"es6"}
      [] ext = "ts"  -> {"types", "es6", "worklet"}
      [] ext = "tsx" -> {"jsx", "types", "es6", "worklet"}
      [] ext = "svg" -> {"svg"}

ReanimatedPackages == {"<app-code>", "react-native-reanimated"}

File == {f \in [package : Package, ext : Loader, syntax : SUBSET Syntax] :
            /\ f.syntax \subseteq Written(f.ext) \cup {"error"}
            /\ f.ext = "svg" => "svg" \in f.syntax
            /\ "flow" \in f.syntax => f.package \in FlowPackages
            /\ "worklet" \in f.syntax => f.package \in ReanimatedPackages}
-----------------------------------------------------------------------------
(***************************************************************************)
(* The plugins: filter, what the parser takes, what comes out.             *)
(***************************************************************************)
Loaders(p) ==
    CASE p = "flow"       -> {"js", "jsx"}
      [] p = "svg"        -> {"svg"}
      [] p = "reanimated" -> {"js", "jsx", "ts", "tsx"}
      [] p = "swc"        -> {"js", "jsx", "cjs", "ts", "tsx"}

(* Mutant: a file of the app is in no package. *)
InNodeModules(p, package) ==
    /\ package # "<app-code>" \/ p \in {"svg", "swc"}
    /\ p = "flow" => package \in FlowPackages
    /\ p = "reanimated" => package \in ReanimatedPackages

(* filter.packages, a file of the app being in the package "<app-code>". *)
InMatchingPackage(p, package) ==
    /\ p = "flow" => package \in FlowPackages
    /\ p = "reanimated" => package \in ReanimatedPackages

ContentTest(p, syntax) == p = "reanimated" => "worklet" \in syntax

(* Mutant: the loader is looked up in the file's name. *)
ShouldApplyToFile(p) ==
    /\ file.ext \in Loaders(p)
    /\ InMatchingPackage(p, file.package)
    /\ ContentTest(p, data.syntax)

ShouldApply(p) ==
    /\ data.loader \in Loaders(p)
    /\ InMatchingPackage(p, file.package)
    /\ ContentTest(p, data.syntax)

(* The loaders that swc and babel have a parser for; cjs is none of them. *)
Parsers == {"js", "jsx", "ts", "tsx"}

(* The syntax that these parsers are told to expect of a loader. *)
Parsed(loader) ==
    {"es6", "worklet"} \cup (IF loader \in {"jsx", "tsx"} THEN {"jsx"} ELSE {})
                       \cup (IF loader \in {"ts", "tsx"} THEN {"types"} ELSE {})

Accepts(p) ==
    CASE p = "flow" -> {"jsx", "flow", "es6", "worklet"}
      [] p = "svg"  -> {"svg"}
      [] p \in {"reanimated", "swc"} -> Parsed(data.loader)

(* swc takes files of the loader cjs, and then is given no syntax to parse *)
(* them as: it throws whatever is in them.                                 *)
Parses(p) ==
    /\ p \in {"reanimated", "swc"} => data.loader \in Parsers
    /\ data.syntax \subseteq Accepts(p)

FlowTransform(d) == [loader |-> "js", syntax |-> d.syntax \ {"jsx", "flow"}]

SvgTransform(d) == [loader |-> "jsx", syntax |-> {"jsx", "es6"}]

ReanimatedTransform(d) == [d EXCEPT !.syntax = @ \ {"worklet"}]

SwcTransform(d) == [loader |-> "js", syntax |-> d.syntax \ {"jsx", "types", "es6"}]

Transformed(p) ==
    CASE p = "flow"       -> FlowTransform(data)
      [] p = "svg"        -> SvgTransform(data)
      [] p = "reanimated" -> ReanimatedTransform(data)
      [] p = "swc"        -> SwcTransform(data)
-----------------------------------------------------------------------------
(* The onLoad filter: esbuild's own loaders take the other files. *)
Claimed(ps) == UNION {Loaders(ps[i]) : i \in DOMAIN ps}

(* Mutant: the loader is the extension. *)
LoaderIsExtension(ext) == ext

FirstLoader(ext) == IF ext = "js" THEN "jsx" ELSE ext

Init ==
    /\ plugins \in PluginLists
    /\ file \in File
    /\ file.ext \in Claimed(plugins)
    /\ next = 1
    /\ data = [loader |-> FirstLoader(file.ext), syntax |-> file.syntax]
    /\ result = "none"

Current == plugins[next]

Skip ==
    /\ result = "none" /\ next <= Len(plugins)
    /\ ~ShouldApply(Current)
    /\ next' = next + 1
    /\ UNCHANGED <<plugins, file, data, result>>

Apply ==
    /\ result = "none" /\ next <= Len(plugins)
    /\ ShouldApply(Current)
    /\ Parses(Current)
    /\ data' = Transformed(Current)
    /\ next' = next + 1
    /\ UNCHANGED <<plugins, file, result>>

Throw ==
    /\ result = "none" /\ next <= Len(plugins)
    /\ ShouldApply(Current)
    /\ ~Parses(Current)
    /\ result' = "errors"
    /\ UNCHANGED <<plugins, file, next, data>>

(* What is returned is said to be TypeScript, whatever the loader. *)
Return ==
    /\ result = "none" /\ next > Len(plugins)
    /\ result' = "loaded"
    /\ UNCHANGED <<plugins, file, next, data>>

Next == Skip \/ Apply \/ Throw \/ Return

Spec == Init /\ [][Next]_vars
-----------------------------------------------------------------------------
TypeOK ==
    /\ plugins \in PluginLists
    /\ file \in File
    /\ next \in 1..Len(plugins) + 1
    /\ data \in Data
    /\ result \in {"none", "loaded", "errors"}

(***************************************************************************)
(* Plugins do not get in each other's way: unless there is a mistake in    *)
(* the file, none is handed code that its parser, set up for the loader,   *)
(* does not know (swc.ts:28-36, reanimated.worker.ts:17-22); except that   *)
(* swc fails on any .cjs file, which it asks for (swc.ts:10) and has no    *)
(* parser for (swc.ts:28-33).                                              *)
(***************************************************************************)
OnlyMistakesThrow ==
    result = "errors" =>
        \/ "error" \in file.syntax
        \/ file.ext = "cjs" /\ Current = "swc"

(***************************************************************************)
(* What esbuild, which is told that it is TypeScript and that the target   *)
(* is ES5, cannot compile has been "pre-transpiled. This is done by SWC"   *)
(* (esbuild-options.ts:18); "JSX is already transpiled away too"           *)
(* (esbuild-plugin-transform.ts:114).                                      *)
(***************************************************************************)
Bundleable ==
    result = "loaded" => data.syntax \subseteq {"types", "worklet"}

(***************************************************************************)
(* Every worklet has been compiled, whatever the other plugins turned the  *)
(* file into, if the configuration has the reanimated plugin.              *)
(***************************************************************************)
WorkletsCompiled ==
    result = "loaded" /\ (\E i \in DOMAIN plugins : plugins[i] = "reanimated")
        => "worklet" \notin data.syntax
=============================================================================
