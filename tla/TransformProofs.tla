-------------------------- MODULE TransformProofs --------------------------
(***************************************************************************)
(* Proofs about Transform, for any configurations, packages and files:     *)
(* what esbuild gets, that worklets are compiled, and which files fail.    *)
(*                                                                         *)
(* A configuration that ends with swc leaves nothing for esbuild that      *)
(* esbuild cannot compile.  The one file that swc would not touch is an    *)
(* image, and that reaches the transform only if the svg plugin is among   *)
(* the plugins before swc, which hands it on as jsx.                       *)
(***************************************************************************)
EXTENDS Transform, TLAPS

SwcLast == \A l \in PluginLists : Len(l) > 0 /\ l[Len(l)] = "swc"

(* An image waits for the svg plugin: it has not had its turn. *)
ImageWaits ==
    data.loader = "svg" => \E i \in 1..Len(plugins) : i >= next /\ plugins[i] = "svg"

Inv ==
    /\ TypeOK
    /\ ImageWaits
    /\ next > Len(plugins) => data.syntax \subseteq {"types", "worklet"}
    /\ result = "loaded" => next > Len(plugins)

LEMMA PluginsType ==
    ASSUME TypeOK
    PROVE  /\ plugins \in Seq(Name) /\ plugins \in PluginLists /\ Len(plugins) \in Nat
           /\ \A i \in 1..Len(plugins) : plugins[i] \in Name
BY TransformAssumption DEF TypeOK

LEMMA TransformedType ==
    ASSUME TypeOK, NEW p \in Name
    PROVE  Transformed(p) \in Data
BY DEF TypeOK, Name, Transformed, FlowTransform, SvgTransform, ReanimatedTransform,
       SwcTransform, Data, Syntax, Loader

LEMMA TypeInit == Init => TypeOK
<1> SUFFICES ASSUME Init PROVE TypeOK
  OBVIOUS
<1>1. plugins \in Seq(Name) /\ Len(plugins) \in Nat
  BY TransformAssumption DEF Init
<1>2. file.ext \in Loader /\ file.syntax \subseteq Syntax
  BY DEF Init, File
<1>3. FirstLoader(file.ext) \in Loader
  BY <1>2 DEF FirstLoader, Loader
<1>4. data \in Data
  BY <1>2, <1>3 DEF Init, Data
<1>5. QED
  BY <1>1, <1>4 DEF Init, TypeOK

LEMMA TypeNext == TypeOK /\ [Next]_vars => TypeOK'
<1> SUFFICES ASSUME TypeOK, [Next]_vars PROVE TypeOK'
  OBVIOUS
<1>1. CASE Skip
  BY <1>1, PluginsType DEF TypeOK, Skip
<1>2. CASE Apply
  <2>1. Current \in Name
    BY <1>2, PluginsType DEF TypeOK, Apply, Current
  <2>2. data' \in Data
    BY <1>2, <2>1, TransformedType DEF Apply
  <2>3. QED
    BY <1>2, <2>2, PluginsType DEF TypeOK, Apply
<1>3. CASE Throw
  BY <1>3 DEF TypeOK, Throw
<1>4. CASE Return
  BY <1>4 DEF TypeOK, Return
<1>5. CASE UNCHANGED vars
  BY <1>5 DEF TypeOK, vars
<1>6. QED
  BY <1>1, <1>2, <1>3, <1>4, <1>5 DEF Next
-----------------------------------------------------------------------------
(* Only the svg plugin takes images, so its presence is why one is here. *)
LEMMA InvInit == SwcLast /\ Init => Inv
<1> SUFFICES ASSUME SwcLast, Init PROVE Inv
  OBVIOUS
<1>1. TypeOK
  BY TypeInit
<1>2. ImageWaits
  <2> SUFFICES ASSUME data.loader = "svg"
               PROVE  \E i \in 1..Len(plugins) : i >= next /\ plugins[i] = "svg"
    BY DEF ImageWaits
  <2>1. file.ext = "svg"
    BY DEF Init, FirstLoader
  <2>2. PICK i \in DOMAIN plugins : "svg" \in Loaders(plugins[i])
    BY <2>1 DEF Init, Claimed
  <2>3. i \in 1..Len(plugins) /\ plugins[i] \in Name
    BY <1>1, PluginsType
  <2>4. plugins[i] = "svg"
    BY <2>2, <2>3 DEF Loaders, Name
  <2>5. QED
    BY <2>3, <2>4 DEF Init
<1>3. ~(next > Len(plugins)) /\ result # "loaded"
  BY PluginsType, <1>1 DEF Init, SwcLast
<1>4. QED
  BY <1>1, <1>2, <1>3 DEF Inv

(* swc takes everything but images, and leaves nothing but worklets. *)
LEMMA SwcSkipsImages ==
    ASSUME TypeOK, ~ShouldApply("swc")
    PROVE  data.loader = "svg"
BY DEF TypeOK, Data, Loader, ShouldApply, Loaders, InMatchingPackage, ContentTest

LEMMA SwcLeaves ==
    ASSUME TypeOK, Parses("swc")
    PROVE  Transformed("swc").syntax \subseteq {"types", "worklet"}
BY DEF Parses, Accepts, Parsed, Transformed, SwcTransform

LEMMA InvSkip ==
    ASSUME SwcLast, Inv, Skip
    PROVE  Inv'
<1>1. TypeOK /\ TypeOK'
  BY TypeNext DEF Inv, Next
<1>2. next \in 1..Len(plugins) /\ Len(plugins) \in Nat
  BY <1>1, PluginsType DEF TypeOK, Skip
<1>3. ImageWaits'
  <2> SUFFICES ASSUME data.loader = "svg"
               PROVE  \E i \in 1..Len(plugins) : i >= next + 1 /\ plugins[i] = "svg"
    BY DEF ImageWaits, Skip
  <2>1. PICK i \in 1..Len(plugins) : i >= next /\ plugins[i] = "svg"
    BY DEF Inv, ImageWaits
  <2>2. ShouldApply("svg")
    BY DEF ShouldApply, Loaders, InMatchingPackage, ContentTest
  <2>3. plugins[next] # "svg"
    BY <2>2 DEF Skip, Current
  <2>4. i # next
    BY <2>1, <2>3
  <2>5. QED
    BY <1>2, <2>1, <2>4
<1>4. ~(next + 1 > Len(plugins))
  <2> SUFFICES ASSUME next = Len(plugins) PROVE FALSE
    BY <1>2
  <2>1. plugins[next] = "swc"
    BY <1>1, PluginsType DEF SwcLast
  <2>2. data.loader = "svg"
    BY <1>1, <2>1, SwcSkipsImages DEF Skip, Current
  <2>3. PICK i \in 1..Len(plugins) : i >= next /\ plugins[i] = "svg"
    BY <2>2 DEF Inv, ImageWaits
  <2>4. i = next
    BY <1>2, <2>3
  <2>5. QED
    BY <2>1, <2>3, <2>4
<1>5. QED
  BY <1>1, <1>3, <1>4 DEF Inv, Skip

LEMMA InvApply ==
    ASSUME SwcLast, Inv, Apply
    PROVE  Inv'
<1>1. TypeOK /\ TypeOK'
  BY TypeNext DEF Inv, Next
<1>2. next \in 1..Len(plugins) /\ Len(plugins) \in Nat
  BY <1>1, PluginsType DEF TypeOK, Apply
<1>3. Current \in Name
  BY <1>1, <1>2, PluginsType DEF Current
<1>4. ImageWaits'
  <2>1. Current = "reanimated" => data.loader # "svg"
    BY DEF Apply, ShouldApply, Loaders
  <2>2. Transformed(Current).loader # "svg"
    BY <1>1, <1>3, <2>1 DEF TypeOK, Data, Name, Transformed, FlowTransform, SvgTransform,
                            ReanimatedTransform, SwcTransform
  <2>3. QED
    BY <2>2 DEF Apply, ImageWaits
<1>5. next + 1 > Len(plugins) => Transformed(Current).syntax \subseteq {"types", "worklet"}
  <2> SUFFICES ASSUME next = Len(plugins)
               PROVE  Transformed(Current).syntax \subseteq {"types", "worklet"}
    BY <1>2
  <2>1. Current = "swc"
    BY <1>1, PluginsType DEF SwcLast, Current
  <2>2. QED
    BY <1>1, <2>1, SwcLeaves DEF Apply
<1>6. QED
  BY <1>1, <1>4, <1>5 DEF Inv, Apply

LEMMA InvNext == SwcLast /\ Inv /\ [Next]_vars => Inv'
<1> SUFFICES ASSUME SwcLast, Inv, [Next]_vars PROVE Inv'
  OBVIOUS
<1>1. TypeOK'
  BY TypeNext DEF Inv
<1>2. CASE Throw
  BY <1>1, <1>2 DEF Inv, Throw, ImageWaits
<1>3. CASE Return
  BY <1>1, <1>3 DEF Inv, Return, ImageWaits
<1>4. CASE UNCHANGED vars
  BY <1>1, <1>4 DEF Inv, vars, ImageWaits
<1>5. QED
  BY <1>2, <1>3, <1>4, InvSkip, InvApply DEF Next

(* When every configuration ends with the swc plugin, whatever the other   *)
(* plugins, their order and their packages, what esbuild gets is ES5 with  *)
(* at most types in it (esbuild-options.ts:18).                            *)
THEOREM SwcLastIsBundleable ==
    ASSUME SwcLast
    PROVE  Spec => []Bundleable
<1>1. Init => Inv
  BY InvInit
<1>2. Inv /\ [Next]_vars => Inv'
  BY InvNext
<1>3. Inv => Bundleable
  BY DEF Inv, Bundleable
<1>4. QED
  BY <1>1, <1>2, <1>3, PTL DEF Spec
-----------------------------------------------------------------------------
(***************************************************************************)
(* A worklet that is still there is in a file that the reanimated plugin   *)
(* takes, whatever loader the earlier plugins have given it: so the plugin *)
(* has not had its turn.                                                   *)
(***************************************************************************)
WorkletWaits ==
    "worklet" \in data.syntax =>
        /\ data.loader \in Loaders("reanimated") /\ file.package \in ReanimatedPackages
        /\ \A i \in 1..Len(plugins) : plugins[i] = "reanimated" => i >= next

WorkletInv == TypeOK /\ WorkletWaits /\ (result = "loaded" => next > Len(plugins))

LEMMA WorkletInit == Init => WorkletInv
<1> SUFFICES ASSUME Init PROVE WorkletInv
  OBVIOUS
<1>1. TypeOK
  BY TypeInit
<1>2. "worklet" \in file.syntax => file.package \in ReanimatedPackages /\ file.ext # "cjs"
  BY DEF Init, File, Written
<1>3. "worklet" \in file.syntax => file.ext \in Loaders("reanimated")
  BY <1>2 DEF Init, File, Written, Loader, Loaders
<1>4. WorkletWaits
  BY <1>2, <1>3 DEF Init, WorkletWaits, FirstLoader, Loaders
<1>5. QED
  BY <1>1, <1>4 DEF WorkletInv, Init

LEMMA WorkletNext == WorkletInv /\ [Next]_vars => WorkletInv'
<1> SUFFICES ASSUME WorkletInv, [Next]_vars PROVE WorkletInv'
  OBVIOUS
<1>1. TypeOK /\ TypeOK'
  BY TypeNext DEF WorkletInv
<1>2. CASE Skip
  <2>1. next \in 1..Len(plugins) /\ Len(plugins) \in Nat
    BY <1>1, <1>2, PluginsType DEF TypeOK, Skip
  <2>2. "worklet" \in data.syntax => plugins[next] # "reanimated"
    BY <1>2 DEF WorkletInv, WorkletWaits, Skip, Current, ShouldApply, InMatchingPackage,
                ContentTest
  <2>3. QED
    BY <1>1, <1>2, <2>1, <2>2 DEF WorkletInv, WorkletWaits, Skip
<1>3. CASE Apply
  <2>1. next \in 1..Len(plugins) /\ Len(plugins) \in Nat /\ Current \in Name
    BY <1>1, <1>3, PluginsType DEF TypeOK, Apply, Current
  <2>2. ASSUME "worklet" \in Transformed(Current).syntax
        PROVE  /\ "worklet" \in data.syntax /\ Current # "reanimated"
               /\ Transformed(Current).loader \in Loaders("reanimated")
    BY <1>1, <2>1, <2>2 DEF TypeOK, Data, Name, Transformed, FlowTransform, SvgTransform,
                            ReanimatedTransform, SwcTransform, Loaders
  <2>3. QED
    BY <1>1, <1>3, <2>1, <2>2 DEF WorkletInv, WorkletWaits, Apply, Current
<1>4. CASE Throw \/ Return \/ UNCHANGED vars
  BY <1>1, <1>4 DEF WorkletInv, WorkletWaits, Throw, Return, vars
<1>5. QED
  BY <1>2, <1>3, <1>4 DEF Next

(* No other plugin, in whatever order the plugins are configured, keeps    *)
(* the reanimated plugin from a worklet (esbuild-plugin-transform.ts:121). *)
THEOREM WorkletsAlwaysCompiled == Spec => []WorkletsCompiled
<1>1. WorkletInv => WorkletsCompiled
  BY PluginsType DEF WorkletInv, TypeOK, WorkletWaits, WorkletsCompiled
<1>2. QED
  BY <1>1, WorkletInit, WorkletNext, PTL DEF Spec
-----------------------------------------------------------------------------
(***************************************************************************)
(* Flow is compiled away before a plugin sees it whose parser does not     *)
(* know it: swc's, which takes the files of all packages, and babel's in   *)
(* the reanimated plugin if some package has both Flow and worklets.       *)
(***************************************************************************)
FlowFirst ==
    \A l \in PluginLists : \A i \in 1..Len(l) :
        l[i] = "swc" \/ (l[i] = "reanimated" /\ FlowPackages \cap ReanimatedPackages # {})
            => \E j \in 1..(i - 1) : l[j] = "flow"

(* What a file without a mistake may contain under its loader. *)
Expected(loader) ==
    CASE loader = "svg" -> {"svg"}
      [] loader = "jsx" -> Parsed("jsx") \cup {"flow"}
      [] OTHER -> Parsed(loader)

(* Flow that is still there waits for the flow plugin. *)
FlowWaits ==
    "flow" \in data.syntax =>
        /\ data.loader = "jsx" /\ file.package \in FlowPackages
        /\ \A i \in 1..Len(plugins) : plugins[i] = "flow" => i >= next
        /\ "worklet" \in data.syntax => file.package \in ReanimatedPackages

(* A .cjs file stays one, as swc alone takes it, and fails.                *)
SyntaxInv ==
    /\ TypeOK
    /\ file.ext = "cjs" <=> data.loader = "cjs"
    /\ file.ext = "cjs" /\ result = "errors" => Current = "swc"
    /\ "error" \notin file.syntax /\ file.ext # "cjs" =>
        data.syntax \subseteq Expected(data.loader) /\ FlowWaits /\ result # "errors"

LEMMA SyntaxInit == Init => SyntaxInv
<1> SUFFICES ASSUME Init PROVE SyntaxInv
  OBVIOUS
<1>1. TypeOK
  BY TypeInit
<1>2. SUFFICES ASSUME "error" \notin file.syntax, file.ext # "cjs"
               PROVE  data.syntax \subseteq Expected(data.loader) /\ FlowWaits
  BY <1>1 DEF SyntaxInv, Init, FirstLoader
<1>3. /\ file.ext \in Loader /\ file.syntax \subseteq Written(file.ext)
      /\ "flow" \in file.syntax => file.package \in FlowPackages
      /\ "worklet" \in file.syntax => file.package \in ReanimatedPackages
  BY <1>2 DEF Init, File
<1>4. Written(file.ext) \subseteq Expected(FirstLoader(file.ext))
  BY <1>3 DEF Loader, Written, Expected, Parsed, FirstLoader
<1>5. "flow" \in file.syntax => file.ext = "js"
  BY <1>3 DEF Loader, Written
<1>6. FlowWaits
  BY <1>1, <1>3, <1>5, PluginsType DEF Init, FlowWaits, FirstLoader
<1>7. QED
  BY <1>3, <1>4, <1>6 DEF Init

(* No plugin is handed what its parser does not know. *)
LEMMA NoneThrows ==
    ASSUME FlowFirst, SyntaxInv, "error" \notin file.syntax, file.ext # "cjs",
           next \in 1..Len(plugins), ShouldApply(Current)
    PROVE  Parses(Current)
<1>1. TypeOK /\ data.loader \in Loader /\ Current \in Name
  BY PluginsType DEF SyntaxInv, TypeOK, Data, Current
<1>2. data.syntax \subseteq Expected(data.loader) /\ FlowWaits /\ data.loader # "cjs"
  BY DEF SyntaxInv
<1>3. data.loader \in Loaders(Current)
  BY DEF ShouldApply
<1>4. CASE Current = "flow"
  BY <1>2, <1>3, <1>4 DEF Loaders, Expected, Parsed, Accepts, Parses
<1>5. CASE Current = "svg"
  BY <1>2, <1>3, <1>5 DEF Loaders, Expected, Accepts, Parses
<1>6. CASE Current \in {"reanimated", "swc"}
  <2>1. "flow" \notin data.syntax
    <3> SUFFICES ASSUME "flow" \in data.syntax PROVE FALSE
      OBVIOUS
    <3>1. file.package \in FlowPackages
      BY <1>2 DEF FlowWaits
    <3>2. Current = "reanimated" => file.package \in ReanimatedPackages
      BY DEF ShouldApply, InMatchingPackage
    <3>3. PICK j \in 1..(next - 1) : plugins[j] = "flow"
      BY <1>1, <1>6, <3>1, <3>2, PluginsType DEF FlowFirst, Current
    <3>4. QED
      BY <1>1, <1>2, <3>3, PluginsType DEF FlowWaits
  <2>2. Accepts(Current) = Parsed(data.loader)
    BY <1>6 DEF Accepts
  <2>3. Expected(data.loader) \subseteq Parsed(data.loader) \cup {"flow"} \/ data.loader = "svg"
    BY <1>1 DEF Loader, Expected, Parsed
  <2>4. data.loader # "svg"
    BY <1>3, <1>6 DEF Loaders
  <2>5. data.loader \in Parsers
    BY <1>1, <1>2, <2>4 DEF Loader, Parsers
  <2>6. QED
    BY <1>2, <2>1, <2>2, <2>3, <2>4, <2>5 DEF Parses
<1>7. QED
  BY <1>1, <1>4, <1>5, <1>6 DEF Name

LEMMA SyntaxApply ==
    ASSUME FlowFirst, SyntaxInv, Apply
    PROVE  SyntaxInv'
<1>1. TypeOK /\ TypeOK'
  BY TypeNext DEF SyntaxInv, Next
<1>2. next \in 1..Len(plugins) /\ Len(plugins) \in Nat /\ Current \in Name
  BY <1>1, PluginsType DEF TypeOK, Apply, Current
<1>3. data.loader \in Loaders(Current) /\ Parses(Current)
  BY DEF Apply, ShouldApply
<1> DEFINE d == Transformed(Current)
<1>4. d \in Data /\ data' = d /\ next' = next + 1 /\ UNCHANGED <<plugins, file, result>>
  BY <1>1, <1>2, TransformedType DEF Apply
<1>5. data.loader # "cjs" /\ d.loader # "cjs"
  BY <1>1, <1>2, <1>3 DEF TypeOK, Data, Name, Loaders, Parses, Parsers, Transformed,
                          FlowTransform, SvgTransform, ReanimatedTransform, SwcTransform
<1>6. SUFFICES ASSUME "error" \notin file.syntax, file.ext # "cjs"
               PROVE  d.syntax \subseteq Expected(d.loader) /\ FlowWaits'
  BY <1>1, <1>4, <1>5 DEF SyntaxInv
<1>7. data.syntax \subseteq Expected(data.loader) /\ FlowWaits
  BY <1>6 DEF SyntaxInv
<1>8. CASE Current \in {"flow", "svg"}
  <2>1. d.syntax \subseteq Expected(d.loader) /\ "flow" \notin d.syntax
    BY <1>3, <1>8 DEF Parses, Accepts, Transformed, FlowTransform, SvgTransform, Expected, Parsed
  <2>2. QED
    BY <1>4, <2>1 DEF FlowWaits
<1>9. CASE Current = "reanimated"
  <2>1. d.syntax \subseteq data.syntax /\ d.loader = data.loader
    BY <1>1, <1>9 DEF TypeOK, Data, Transformed, ReanimatedTransform
  <2>2. plugins[next] # "flow"
    BY <1>9 DEF Current
  <2>3. FlowWaits'
    BY <1>2, <1>4, <1>7, <2>1, <2>2 DEF FlowWaits
  <2>4. QED
    BY <1>7, <2>1, <2>3
<1>10. CASE Current = "swc"
  <2>1. d.syntax \subseteq Expected(d.loader) /\ "flow" \notin d.syntax
    BY <1>3, <1>10 DEF Parses, Accepts, Transformed, SwcTransform, Expected, Parsed
  <2>2. QED
    BY <1>4, <2>1 DEF FlowWaits
<1>11. QED
  BY <1>2, <1>8, <1>9, <1>10 DEF Name

LEMMA SyntaxNext ==
    ASSUME FlowFirst, SyntaxInv, [Next]_vars
    PROVE  SyntaxInv'
<1>1. TypeOK /\ TypeOK'
  BY TypeNext DEF SyntaxInv
<1>2. CASE Skip
  <2>1. next \in 1..Len(plugins) /\ Len(plugins) \in Nat
    BY <1>1, <1>2, PluginsType DEF TypeOK, Skip
  <2>2. "flow" \in data.syntax /\ FlowWaits => plugins[next] # "flow"
    BY <1>2 DEF FlowWaits, Skip, Current, ShouldApply, InMatchingPackage, ContentTest, Loaders
  <2>3. FlowWaits => FlowWaits'
    BY <1>2, <2>1, <2>2 DEF FlowWaits, Skip
  <2>4. QED
    BY <1>1, <1>2, <2>3 DEF SyntaxInv, Skip, Current
<1>3. CASE Throw
  <2>1. next \in 1..Len(plugins)
    BY <1>1, <1>3, PluginsType DEF TypeOK, Throw
  <2>2. "error" \in file.syntax \/ file.ext = "cjs"
    BY <1>3, <2>1, NoneThrows DEF Throw
  <2>3. data.loader = "cjs" => Current = "swc"
    <3>1. data.loader \in Loaders(Current) /\ Current \in Name
      BY <1>1, <1>3, <2>1, PluginsType DEF Throw, ShouldApply, Current
    <3>2. QED
      BY <3>1 DEF Loaders, Name
  <2>4. QED
    BY <1>1, <1>3, <2>2, <2>3 DEF SyntaxInv, Throw, Current
<1>4. CASE Return \/ UNCHANGED vars
  BY <1>1, <1>4 DEF SyntaxInv, FlowWaits, Return, vars, Current
<1>5. QED
  BY <1>2, <1>3, <1>4, SyntaxApply DEF Next

(* When the flow plugin comes before the plugins whose parsers do not know *)
(* Flow, in configurations that need not be complete or end with swc, no   *)
(* plugin throws at a file without a mistake (swc.ts:28-36,                *)
(* reanimated.worker.ts:17-22), but for swc at a .cjs file (swc.ts:10).    *)
THEOREM OnlyMistakesAreErrors ==
    ASSUME FlowFirst
    PROVE  Spec => []OnlyMistakesThrow
<1>1. Init => SyntaxInv
  BY SyntaxInit
<1>2. SyntaxInv /\ [Next]_vars => SyntaxInv'
  BY SyntaxNext
<1>3. SyntaxInv => OnlyMistakesThrow
  BY DEF SyntaxInv, OnlyMistakesThrow
<1>4. QED
  BY <1>1, <1>2, <1>3, PTL DEF Spec
=============================================================================
