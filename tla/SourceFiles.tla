---------------------------- MODULE SourceFiles ----------------------------
(***************************************************************************)
(* The project tree that the dev server bundles, and what a module's code  *)
(* is to the rest of the system.  The text of a file is abstracted to the  *)
(* facts the dev server and the client runtime act on: which modules it    *)
(* requires, what kind of value it exports, and whether it compiles.       *)
(***************************************************************************)
EXTENDS Naturals, FiniteSets

CONSTANTS
    Module,       \* source files, named by their path relative to the cwd
    Entry,        \* config.entryFile
    Source,       \* Source[m]: the contents an editor may give to file m
    Transformed,  \* files whose extension some transform plugin claims
    None          \* "no value" (JavaScript's undefined)

(***************************************************************************)
(* "components": every export is a React component.  "empty": the module   *)
(* exports nothing; a module whose body throws is left in this state too.  *)
(* "other": anything else.                                                 *)
(***************************************************************************)
ExportKinds == {"components", "empty", "other"}

(***************************************************************************)
(* A file content.  Two contents of one file differ at least in rev.       *)
(* compiles is FALSE for a syntax error, for an import that does not       *)
(* resolve, and for a file that has been removed.                          *)
(***************************************************************************)
Content == [rev      : Nat \ {0},
            imports  : SUBSET Module,
            exports  : ExportKinds,
            compiles : BOOLEAN]

(***************************************************************************)
(* What the hot-module plugin gives esbuild instead of a module that the   *)
(* client already has: `module.__hot_cached = true`.                       *)
(***************************************************************************)
Stub == [rev |-> 0, imports |-> {}, exports |-> "empty", compiles |-> TRUE]

Code == Content \cup {Stub}

MaybeCode == Code \cup {None}

ASSUME SourceAssumption ==
    /\ IsFiniteSet(Module)
    /\ Entry \in Module
    /\ Source \in [Module -> SUBSET Content]
    /\ \A m \in Module : Source[m] # {}
    /\ Transformed \subseteq Module
    /\ None \notin Code

NoCode == [m \in Module |-> None]

Loaded(code) == {m \in Module : code[m] # None}

(***************************************************************************)
(* The modules an esbuild build asks for, given what it has loaded so far: *)
(* its entry points and what the loaded code imports.  Nothing is known of *)
(* the imports of a file that does not parse.                              *)
(***************************************************************************)
Requires(c) == IF c.compiles THEN c.imports ELSE {}

Discovered(roots, code) ==
    roots \cup UNION {Requires(code[m]) : m \in Loaded(code)}

(* The least set that contains S and, with every x, the members of succ[x]. *)
Closure(S, succ) ==
    {m \in Module :
        \A T \in SUBSET Module :
            (S \subseteq T /\ \A x \in T : succ[x] \subseteq T) => m \in T}
=============================================================================
