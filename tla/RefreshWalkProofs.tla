------------------------- MODULE RefreshWalkProofs -------------------------
(***************************************************************************)
(* Theorems about `__require`, for any modules that require each other in  *)
(* any way and throw at any moment; and about $PERFORM_REFRESH, for any    *)
(* registry in which it begins and any modules to replace.                 *)
(***************************************************************************)
EXTENDS RefreshWalk, TLAPS

CallTypeOK ==
    /\ registry \in Registry
    /\ stack \in Seq(Frame)
    /\ owner \in Module \cup {None}
    /\ runs \in [Module -> Nat]
    /\ thrown \subseteq Module

(* A running module has code and is cached; none is on the stack twice.  A *)
(* frame of app code remembers for whom components were registered below   *)
(* it; a library runs as app code when it has thrown, and before that it   *)
(* has been called once.                                                   *)
FrameInv(i) ==
    LET f == stack[i]
    IN  /\ f.module \in Cached(registry) /\ registry.run[f.module] # None
        /\ f.app => IsInnermost(f.prev, stack, i - 1)
        /\ f.app /\ f.module \in NodeModules => f.module \in thrown
        /\ ~f.app => f.module \in NodeModules /\ runs[f.module] = 1

CallInv ==
    /\ \A i \in 1..Len(stack) : FrameInv(i)
    /\ \A i, j \in 1..Len(stack) : stack[i].module = stack[j].module => i = j
    /\ \A m \in Module \ Cached(registry) : runs[m] = 0
    /\ RunsOnce
    /\ RegistersOwn
-----------------------------------------------------------------------------
(* Stacks. *)
LEMMA TopFacts ==
    ASSUME stack \in Seq(Frame), stack # <<>>
    PROVE  /\ Len(stack) \in Nat \ {0}
           /\ Top = stack[Len(stack)] /\ Top \in Frame
           /\ Callers \in Seq(Frame) /\ Len(Callers) = Len(stack) - 1
           /\ \A i \in 1..(Len(stack) - 1) : Callers[i] = stack[i]
<1> DEFINE n == Len(stack)
<1>1. n \in Nat \ {0}
  OBVIOUS
<1>2. Top = stack[n] /\ stack[n] \in Frame
  BY <1>1 DEF Top
<1>3. \A i \in 1..(n - 1) : stack[i] \in Frame
  BY <1>1
<1>4. Callers = [i \in 1..(n - 1) |-> stack[i]]
  BY <1>1 DEF Callers
<1>5. Callers \in Seq(Frame) /\ Len(Callers) = n - 1
  BY <1>1, <1>3, <1>4
<1>6. QED
  BY <1>1, <1>2, <1>4, <1>5

LEMMA ResumeFacts ==
    ASSUME NEW s \in Seq(Frame), NEW m
    PROVE  /\ Resume(s, m) \in Seq(Frame) /\ Len(Resume(s, m)) = Len(s)
           /\ \A i \in 1..Len(s) :
                 /\ Resume(s, m)[i].module = s[i].module
                 /\ Resume(s, m)[i].app = s[i].app
                 /\ Resume(s, m)[i].prev = s[i].prev
<1>1. CASE s = <<>>
  BY <1>1 DEF Resume
<1>2. CASE s # <<>>
  <2>1. Len(s) \in 1..Len(s) /\ s[Len(s)] \in Frame
    BY <1>2
  <2>2. Resume(s, m) = [s EXCEPT ![Len(s)].todo = @ \ {m}]
    BY <1>2 DEF Resume
  <2>3. [s[Len(s)] EXCEPT !.todo = @ \ {m}] \in Frame
    BY <2>1 DEF Frame
  <2>4. QED
    BY <2>1, <2>2, <2>3 DEF Frame
<1>3. QED
  BY <1>1, <1>2

(* Who is innermost depends on which modules run as app code. *)
LEMMA SameInnermost ==
    ASSUME NEW n \in Nat, NEW s, NEW t, NEW o, IsInnermost(o, s, n),
           \A i \in 1..n : t[i].app = s[i].app /\ t[i].module = s[i].module
    PROVE  IsInnermost(o, t, n)
<1>1. CASE o = None /\ \A i \in 1..n : ~s[i].app
  BY <1>1 DEF IsInnermost
<1>2. ASSUME NEW i \in 1..n, s[i].app, s[i].module = o, \A j \in (i + 1)..n : ~s[j].app
      PROVE  IsInnermost(o, t, n)
  <2>1. \A j \in (i + 1)..n : ~t[j].app
    BY <1>2
  <2>2. t[i].app /\ t[i].module = o
    BY <1>2
  <2>3. QED
    BY <2>1, <2>2 DEF IsInnermost
<1>3. QED
  BY <1>1, <1>2 DEF IsInnermost

LEMMA InnermostApp ==
    ASSUME NEW n \in Nat \ {0}, NEW s, s[n].app
    PROVE  IsInnermost(s[n].module, s, n)
BY DEF IsInnermost

LEMMA InnermostLibrary ==
    ASSUME NEW n \in Nat \ {0}, NEW s, NEW o, ~s[n].app
    PROVE  IsInnermost(o, s, n) <=> IsInnermost(o, s, n - 1)
<1>1. ASSUME IsInnermost(o, s, n - 1) PROVE IsInnermost(o, s, n)
  <2>1. CASE o = None /\ \A i \in 1..(n - 1) : ~s[i].app
    BY <2>1 DEF IsInnermost
  <2>2. ASSUME NEW i \in 1..(n - 1), s[i].app, s[i].module = o,
               \A j \in (i + 1)..(n - 1) : ~s[j].app
        PROVE  IsInnermost(o, s, n)
    <3>1. i \in 1..n /\ \A j \in (i + 1)..n : ~s[j].app
      BY <2>2
    <3>2. QED
      BY <2>2, <3>1 DEF IsInnermost
  <2>3. QED
    BY <1>1, <2>1, <2>2 DEF IsInnermost
<1>2. ASSUME IsInnermost(o, s, n) PROVE IsInnermost(o, s, n - 1)
  <2>1. CASE o = None /\ \A i \in 1..n : ~s[i].app
    BY <2>1 DEF IsInnermost
  <2>2. ASSUME NEW i \in 1..n, s[i].app, s[i].module = o,
               \A j \in (i + 1)..n : ~s[j].app
        PROVE  IsInnermost(o, s, n - 1)
    <3>1. i \in 1..(n - 1) /\ \A j \in (i + 1)..(n - 1) : ~s[j].app
      BY <2>2
    <3>2. QED
      BY <2>2, <3>1 DEF IsInnermost
  <2>3. QED
    BY <1>2, <2>1, <2>2 DEF IsInnermost
<1>3. QED
  BY <1>1, <1>2
-----------------------------------------------------------------------------
(* What the steps do to the registry. *)
LEMMA EnteredFacts ==
    ASSUME NEW reg \in Registry, NEW m \in Module, reg.run[m] # None
    PROVE  /\ Entered(reg, m) \in Registry
           /\ Entered(reg, m).run = reg.run
           /\ Cached(Entered(reg, m)) = Cached(reg) \cup {m}
<1> DEFINE c == [reg.run[m] EXCEPT !.exports = "empty"]
           result == [reg.result EXCEPT ![m] = c]
<1>1. reg.run[m] \in Code /\ reg.result \in [Module -> MaybeCode]
  BY DEF Registry, MaybeCode
<1>2. c \in Code
  <2>1. CASE reg.run[m] \in Content
    <3>1. c \in Content
      BY <2>1 DEF Content, ExportKinds
    <3>2. QED
      BY <3>1 DEF Code
  <2>2. CASE reg.run[m] = Stub
    <3>1. c = Stub
      BY <2>2 DEF Stub
    <3>2. QED
      BY <3>1 DEF Code
  <2>3. QED
    BY <1>1, <2>1, <2>2 DEF Code
<1>3. c # None
  BY <1>2, SourceAssumption
<1>4. result \in [Module -> MaybeCode]
  BY <1>1, <1>2 DEF MaybeCode
<1>5. Entered(reg, m) = [reg EXCEPT !.result = result]
  BY DEF Entered
<1> HIDE DEF c
<1>6. Loaded(result) = Loaded(reg.result) \cup {m}
  BY <1>1, <1>3 DEF Loaded
<1>7. QED
  BY <1>4, <1>5, <1>6 DEF Registry, Cached

LEMMA LinkedFacts ==
    ASSUME NEW reg \in Registry, NEW s \in Seq(Frame), NEW m \in Module
    PROVE  /\ Linked(reg, s, m) \in Registry
           /\ Linked(reg, s, m).run = reg.run
           /\ Linked(reg, s, m).result = reg.result
<1>1. CASE s = <<>>
  BY <1>1 DEF Linked
<1>2. CASE s # <<>>
  <2>1. s[Len(s)] \in Frame
    BY <1>2
  <2>2. s[Len(s)].module \in Module
    BY <2>1 DEF Frame
  <2>3. Linked(reg, s, m) = [reg EXCEPT !.linked = @ \cup {<<s[Len(s)].module, m>>}]
    BY <1>2 DEF Linked
  <2>4. QED
    BY <2>2, <2>3 DEF Registry
<1>3. QED
  BY <1>1, <1>2

(* The registry that a module function leaves when it returns. *)
LEMMA FinishedFacts ==
    ASSUME NEW reg \in Registry, NEW m \in Cached(reg), reg.run[m] # None
    PROVE  LET done == [reg EXCEPT !.result = [@ EXCEPT ![m] = reg.run[m]]]
           IN  /\ done \in Registry
               /\ done.run = reg.run
               /\ Cached(done) = Cached(reg)
<1> DEFINE result == [reg.result EXCEPT ![m] = reg.run[m]]
           done == [reg EXCEPT !.result = result]
<1>1. m \in Module /\ result \in [Module -> MaybeCode]
  BY DEF Cached, Loaded, Registry
<1>2. Loaded(result) = Loaded(reg.result)
  BY <1>1 DEF Loaded, Registry, Cached
<1>3. QED
  BY <1>1, <1>2 DEF Registry, Cached
-----------------------------------------------------------------------------
(* A module function is called from outside or by the innermost frame.     *)
LEMMA CallKeepsInv ==
    ASSUME CallTypeOK, CallInv, NEW m \in Module, Call(m)
    PROVE  CallTypeOK' /\ CallInv'
<1> DEFINE n == Len(stack)
           app == m \notin NodeModules
           f == [module |-> m, todo |-> registry.run[m].imports, app |-> app,
                 prev |-> owner]
<1>1. /\ m \notin Cached(registry) /\ registry.run[m] # None
      /\ registry' \in Registry /\ registry'.run = registry.run
      /\ Cached(registry') = Cached(registry) \cup {m}
  BY EnteredFacts DEF Call, CallTypeOK
<1>2. /\ stack' = Append(stack, f)
      /\ owner' = IF app THEN m ELSE owner
      /\ runs' = [runs EXCEPT ![m] = @ + 1] /\ thrown' = thrown
  BY DEF Call, Run
<1>3. n \in Nat /\ f \in Frame
  <2>1. registry.run[m] \in Code
    BY <1>1 DEF CallTypeOK, Registry, MaybeCode
  <2>2. registry.run[m].imports \subseteq Module
    BY <2>1 DEF Code, Content, Stub
  <2>3. QED
    BY <2>2 DEF Frame, CallTypeOK
<1> HIDE DEF f
<1>4. /\ stack' \in Seq(Frame) /\ Len(stack') = n + 1 /\ stack'[n + 1] = f
      /\ \A i \in 1..n : stack'[i] = stack[i]
  BY <1>2, <1>3 DEF CallTypeOK
<1>5. f.module = m /\ (f.app <=> app) /\ f.prev = owner
  BY DEF f
<1>6. CallTypeOK'
  BY <1>1, <1>2, <1>4 DEF CallTypeOK
<1>7. runs[m] = 0 /\ \A i \in 1..n : stack[i].module # m
  BY <1>1 DEF CallInv, FrameInv
<1>8. \A k \in 0..n : \A o : IsInnermost(o, stack, k) => IsInnermost(o, stack', k)
  BY <1>4, <1>3, SameInnermost
<1>9. IsInnermost(owner, stack', n)
  BY <1>3, <1>8 DEF CallInv, RegistersOwn
<1>10. RegistersOwn'
  <2>1. CASE app
    <3>1. stack'[n + 1].app /\ stack'[n + 1].module = owner' /\ n + 1 \in Nat \ {0}
      BY <1>2, <1>3, <1>4, <1>5, <2>1
    <3>2. IsInnermost(owner', stack', n + 1)
      BY <3>1, InnermostApp
    <3>3. QED
      BY <1>4, <3>2 DEF RegistersOwn
  <2>2. CASE ~app
    <3>1. owner' = owner /\ ~stack'[n + 1].app /\ (n + 1) - 1 = n /\ n + 1 \in Nat \ {0}
      BY <1>2, <1>3, <1>4, <1>5, <2>2
    <3>2. IsInnermost(owner, stack', n + 1)
      BY <1>9, <3>1, InnermostLibrary
    <3>3. QED
      BY <1>4, <3>1, <3>2 DEF RegistersOwn
  <2>3. QED
    BY <2>1, <2>2
<1>11. ASSUME NEW i \in 1..(n + 1) PROVE FrameInv(i)'
  <2>1. CASE i = n + 1
    <3>1. (n + 1) - 1 = n /\ runs'[m] = 1
      BY <1>2, <1>3, <1>7 DEF CallTypeOK
    <3>2. QED
      BY <1>1, <1>4, <1>5, <1>9, <2>1, <3>1 DEF FrameInv
  <2>2. CASE i # n + 1
    <3>1. i \in 1..n /\ i - 1 \in 0..n
      BY <1>3, <2>2
    <3>2. FrameInv(i) /\ stack'[i] = stack[i] /\ stack[i].module # m
      BY <1>4, <1>7, <3>1 DEF CallInv
    <3>3. stack[i] \in Frame
      BY <3>1 DEF CallTypeOK
    <3>4. stack[i].module \in Module
      BY <3>3 DEF Frame
    <3>5. runs'[stack[i].module] = runs[stack[i].module]
      BY <1>2, <3>2, <3>4 DEF CallTypeOK
    <3>6. QED
      BY <1>1, <1>2, <1>8, <3>1, <3>2, <3>5 DEF FrameInv
  <2>3. QED
    BY <2>1, <2>2
<1>12. \A i, j \in 1..(n + 1) : stack'[i].module = stack'[j].module => i = j
  <2>1. \A i \in 1..(n + 1) : i = n + 1 \/ i \in 1..n
    BY <1>3
  <2>2. QED
    BY <1>4, <1>5, <1>7, <2>1 DEF CallInv
<1>13. \A k \in Module \ Cached(registry') : runs'[k] = 0
  BY <1>1, <1>2 DEF CallInv, CallTypeOK
<1>14. RunsOnce'
  BY <1>2, <1>7 DEF CallInv, RunsOnce, CallTypeOK
<1>15. QED
  BY <1>4, <1>6, <1>10, <1>11, <1>12, <1>13, <1>14 DEF CallInv

(* Steps that call no module function: frames may go, or want less.        *)
LEMMA ShrinkKeepsInv ==
    ASSUME CallTypeOK, CallInv, NEW k \in 0..Len(stack),
           Len(stack') = k,
           \A i \in 1..k : /\ stack'[i].module = stack[i].module
                          /\ stack'[i].app = stack[i].app
                          /\ stack'[i].prev = stack[i].prev,
           registry'.run = registry.run, Cached(registry') = Cached(registry),
           runs' = runs, thrown \subseteq thrown',
           IsInnermost(owner', stack, k)
    PROVE  CallInv'
<1>1. k \in Nat /\ \A i \in 1..k : i \in 1..Len(stack)
  BY DEF CallTypeOK
<1>2. ASSUME NEW j \in 0..k, NEW o, IsInnermost(o, stack, j)
      PROVE  IsInnermost(o, stack', j)
  BY <1>1, <1>2, SameInnermost
<1>3. RegistersOwn'
  BY <1>1, <1>2 DEF RegistersOwn
<1>4. ASSUME NEW i \in 1..k PROVE FrameInv(i)'
  <2>1. FrameInv(i) /\ i - 1 \in 0..k
    BY <1>1 DEF CallInv
  <2>2. QED
    BY <1>2, <2>1 DEF FrameInv
<1>5. \A i, j \in 1..k : stack'[i].module = stack'[j].module => i = j
  BY <1>1 DEF CallInv
<1>6. RunsOnce' /\ \A m \in Module \ Cached(registry') : runs'[m] = 0
  <2>1. RunsOnce
    BY DEF CallInv
  <2>2. \A m \in Module : runs[m] \in Nat
    BY DEF CallTypeOK
  <2>3. RunsOnce'
    BY <2>1, <2>2 DEF RunsOnce
  <2>4. QED
    BY <2>3 DEF CallInv
<1>7. QED
  BY <1>3, <1>4, <1>5, <1>6 DEF CallInv

LEMMA HitKeepsInv ==
    ASSUME CallTypeOK, CallInv, Hit
    PROVE  CallTypeOK' /\ CallInv'
<1>1. PICK m \in Top.todo \cap Cached(registry) :
          stack' = Resume(stack, m) /\ registry' = Linked(registry, stack, m)
  BY DEF Hit
<1>2. m \in Module /\ stack \in Seq(Frame) /\ registry \in Registry
  BY DEF Cached, Loaded, CallTypeOK
<1>3. owner' = owner /\ runs' = runs /\ thrown' = thrown
  BY DEF Hit
<1>4. /\ registry' \in Registry /\ registry'.run = registry.run
      /\ Cached(registry') = Cached(registry)
  BY <1>1, <1>2, LinkedFacts DEF Cached
<1>5. /\ stack' \in Seq(Frame) /\ Len(stack') = Len(stack)
      /\ \A i \in 1..Len(stack) : /\ stack'[i].module = stack[i].module
                                  /\ stack'[i].app = stack[i].app
                                  /\ stack'[i].prev = stack[i].prev
  BY <1>1, <1>2, ResumeFacts
<1>6. CallTypeOK'
  BY <1>3, <1>4, <1>5 DEF CallTypeOK
<1>7. Len(stack) \in 0..Len(stack)
  BY <1>2
<1>8. IsInnermost(owner', stack, Len(stack))
  BY <1>3 DEF CallInv, RegistersOwn
<1>9. QED
  BY <1>3, <1>4, <1>5, <1>6, <1>7, <1>8, ShrinkKeepsInv

(* Below the innermost frame, components were registered for its prev if   *)
(* it is app code, and for the same module if it is a library.             *)
LEMMA BelowTop ==
    ASSUME CallTypeOK, CallInv, stack # <<>>
    PROVE  /\ Top.app => IsInnermost(Top.prev, stack, Len(stack) - 1)
           /\ ~Top.app => IsInnermost(owner, stack, Len(stack) - 1)
<1> DEFINE n == Len(stack)
<1>1. n \in Nat \ {0} /\ n \in 1..n /\ Top = stack[n]
  BY TopFacts DEF CallTypeOK
<1>2. FrameInv(n) /\ IsInnermost(owner, stack, n)
  BY <1>1 DEF CallInv, RegistersOwn
<1>3. QED
  BY <1>1, <1>2, InnermostLibrary DEF FrameInv

(* A module function ends, well or badly. *)
LEMMA PopKeepsInv ==
    ASSUME CallTypeOK, CallInv, stack # <<>>,
           stack' = Resume(Callers, Top.module),
           owner' = IF Top.app THEN Top.prev ELSE owner,
           registry' \in Registry, registry'.run = registry.run,
           Cached(registry') = Cached(registry),
           runs' = runs, thrown \subseteq thrown', thrown' \subseteq Module
    PROVE  CallTypeOK' /\ CallInv'
<1> DEFINE n == Len(stack)
<1>1. /\ n \in Nat \ {0} /\ Top \in Frame
      /\ Callers \in Seq(Frame) /\ Len(Callers) = n - 1
      /\ \A i \in 1..(n - 1) : Callers[i] = stack[i]
  BY TopFacts DEF CallTypeOK
<1>2. /\ stack' \in Seq(Frame) /\ Len(stack') = n - 1
      /\ \A i \in 1..(n - 1) : /\ stack'[i].module = stack[i].module
                               /\ stack'[i].app = stack[i].app
                               /\ stack'[i].prev = stack[i].prev
  BY <1>1, ResumeFacts
<1>3. owner' \in Module \cup {None}
  BY <1>1 DEF CallTypeOK, Frame
<1>4. CallTypeOK'
  BY <1>2, <1>3 DEF CallTypeOK
<1>5. IsInnermost(owner', stack, n - 1)
  BY BelowTop
<1>6. n - 1 \in 0..n
  BY <1>1
<1>7. QED
  BY <1>2, <1>4, <1>5, <1>6, ShrinkKeepsInv

LEMMA ReturnKeepsInv ==
    ASSUME CallTypeOK, CallInv, Return
    PROVE  CallTypeOK' /\ CallInv'
<1> DEFINE m == Top.module
           done == [registry EXCEPT !.result = [@ EXCEPT ![m] = registry.run[m]]]
<1>1. stack # <<>> /\ stack' = Resume(Callers, m) /\ registry' = Linked(done, Callers, m)
  BY DEF Return
<1>2. /\ owner' = IF Top.app THEN Top.prev ELSE owner
      /\ runs' = runs /\ thrown' = thrown
  BY DEF Return
<1>3. /\ Len(stack) \in 1..Len(stack) /\ Top = stack[Len(stack)]
      /\ Top \in Frame /\ Callers \in Seq(Frame)
  BY <1>1, TopFacts DEF CallTypeOK
<1>4. m \in Cached(registry) /\ registry.run[m] # None /\ registry \in Registry
  BY <1>3 DEF CallInv, FrameInv, CallTypeOK
<1>5. done \in Registry /\ done.run = registry.run /\ Cached(done) = Cached(registry)
  BY <1>4, FinishedFacts
<1>6. m \in Module
  BY <1>3 DEF Frame
<1> HIDE DEF done
<1>7. /\ registry' \in Registry /\ registry'.run = registry.run
      /\ Cached(registry') = Cached(registry)
  BY <1>1, <1>3, <1>5, <1>6, LinkedFacts DEF Cached
<1>8. thrown \subseteq thrown' /\ thrown' \subseteq Module
  BY <1>2 DEF CallTypeOK
<1>9. QED
  BY <1>1, <1>2, <1>7, <1>8, PopKeepsInv

LEMMA AppThrowsKeepsInv ==
    ASSUME CallTypeOK, CallInv, AppThrows
    PROVE  CallTypeOK' /\ CallInv'
<1>1. /\ stack # <<>> /\ Top.app /\ stack' = Resume(Callers, Top.module)
      /\ owner' = Top.prev /\ thrown' = thrown \cup {Top.module}
      /\ registry' = registry /\ runs' = runs
  BY DEF AppThrows, RegistrarAfterThrow
<1>2. Top \in Frame
  BY <1>1, TopFacts DEF CallTypeOK
<1>3. thrown \subseteq thrown' /\ thrown' \subseteq Module
  BY <1>1, <1>2 DEF CallTypeOK, Frame
<1>4. registry' \in Registry
  BY <1>1 DEF CallTypeOK
<1>5. QED
  BY <1>1, <1>3, <1>4, PopKeepsInv

(* A library is called again: the frame that replaces its own is app code. *)
LEMMA LibraryThrowsKeepsInv ==
    ASSUME CallTypeOK, CallInv, LibraryThrows
    PROVE  CallTypeOK' /\ CallInv'
<1> DEFINE n == Len(stack)
           m == Top.module
           f == [module |-> m, todo |-> registry.run[m].imports, app |-> TRUE,
                 prev |-> owner]
<1>1. /\ stack # <<>> /\ ~Top.app /\ stack' = Append(Callers, f)
      /\ owner' = m /\ runs' = [runs EXCEPT ![m] = @ + 1]
      /\ thrown' = thrown \cup {m} /\ registry' = registry
  BY DEF LibraryThrows, Run
<1>2. /\ n \in Nat \ {0} /\ n \in 1..n /\ Top = stack[n] /\ Top \in Frame
      /\ Callers \in Seq(Frame) /\ Len(Callers) = n - 1
      /\ \A i \in 1..(n - 1) : Callers[i] = stack[i]
  BY <1>1, TopFacts DEF CallTypeOK
<1>3. m \in Module
  BY <1>2 DEF Frame
<1>4. /\ m \in Cached(registry) /\ registry.run[m] # None
      /\ m \in NodeModules /\ runs[m] = 1
  BY <1>1, <1>2 DEF CallInv, FrameInv
<1>5. f \in Frame
  <2>1. registry.run[m] \in Code
    BY <1>3, <1>4 DEF CallTypeOK, Registry, MaybeCode
  <2>2. registry.run[m].imports \subseteq Module
    BY <2>1 DEF Code, Content, Stub
  <2>3. QED
    BY <1>3, <2>2 DEF Frame, CallTypeOK
<1>6. f.module = m /\ f.app /\ f.prev = owner
  OBVIOUS
<1> HIDE DEF f
<1>7. /\ stack' \in Seq(Frame) /\ Len(stack') = n /\ stack'[n] = f
      /\ \A i \in 1..(n - 1) : stack'[i] = stack[i]
  BY <1>1, <1>2, <1>5
<1>8. CallTypeOK'
  BY <1>1, <1>3, <1>7 DEF CallTypeOK
<1>9. \A k \in 0..(n - 1) : \A o : IsInnermost(o, stack, k) => IsInnermost(o, stack', k)
  BY <1>2, <1>7, SameInnermost
<1>10. IsInnermost(owner, stack', n - 1)
  BY <1>1, <1>2, <1>9, BelowTop
<1>11. RegistersOwn'
  <2>1. IsInnermost(owner', stack', n)
    BY <1>1, <1>2, <1>6, <1>7, InnermostApp
  <2>2. QED
    BY <1>7, <2>1 DEF RegistersOwn
<1>12. runs'[m] = 2 /\ \A k \in Module \ {m} : runs'[k] = runs[k]
  BY <1>1, <1>3, <1>4 DEF CallTypeOK
<1>13. \A i \in 1..n : stack'[i].module = stack[i].module /\ stack[i].module \in Module
  <2>1. ASSUME NEW i \in 1..n PROVE stack[i] \in Frame
    BY DEF CallTypeOK
  <2>2. QED
    BY <1>2, <1>6, <1>7, <2>1 DEF Frame
<1>14. ASSUME NEW i \in 1..n PROVE FrameInv(i)'
  <2>1. CASE i = n
    BY <1>1, <1>4, <1>6, <1>7, <1>10, <2>1 DEF FrameInv
  <2>2. CASE i # n
    <3>1. i \in 1..(n - 1) /\ i - 1 \in 0..(n - 1)
      BY <1>2, <2>2
    <3>2. FrameInv(i) /\ stack'[i] = stack[i] /\ stack[i].module # m
      BY <1>2, <1>7, <2>2, <3>1 DEF CallInv
    <3>3. runs'[stack[i].module] = runs[stack[i].module]
      BY <1>12, <1>13, <3>2
    <3>4. QED
      BY <1>1, <1>9, <3>1, <3>2, <3>3 DEF FrameInv
  <2>3. QED
    BY <2>1, <2>2
<1>15. \A i, j \in 1..n : stack'[i].module = stack'[j].module => i = j
  BY <1>13 DEF CallInv
<1>16. \A k \in Module \ Cached(registry') : runs'[k] = 0
  BY <1>1, <1>4, <1>12 DEF CallInv
<1>17. RunsOnce'
  <2>1. RunsOnce
    BY DEF CallInv
  <2>2. QED
    BY <1>1, <1>4, <1>12, <2>1 DEF RunsOnce
<1>18. QED
  BY <1>7, <1>8, <1>11, <1>14, <1>15, <1>16, <1>17 DEF CallInv
-----------------------------------------------------------------------------
LEMMA CallInvInit == CallInit /\ registry \in Registry => CallTypeOK /\ CallInv
<1> SUFFICES ASSUME CallInit, registry \in Registry PROVE CallTypeOK /\ CallInv
  OBVIOUS
<1>1. stack = <<>> /\ owner = None /\ runs = [m \in Module |-> 0] /\ thrown = {}
  BY DEF CallInit
<1>2. Len(stack) = 0 /\ 1..Len(stack) = {}
  BY <1>1
<1>3. CallTypeOK
  BY <1>1 DEF CallTypeOK
<1>4. RegistersOwn
  BY <1>1, <1>2 DEF RegistersOwn, IsInnermost
<1>5. RunsOnce
  BY <1>1 DEF RunsOnce
<1>6. QED
  BY <1>1, <1>2, <1>3, <1>4, <1>5 DEF CallInv

(* Steps that have nothing to do with require. *)
LEMMA CallStutter ==
    ASSUME CallTypeOK, CallInv, registry' = registry, UNCHANGED callVars
    PROVE  CallTypeOK' /\ CallInv'
<1>1. CallTypeOK'
  BY DEF CallTypeOK, callVars
<1>2. CallInv'
  BY DEF CallInv, FrameInv, RunsOnce, RegistersOwn, callVars, Cached, IsInnermost
<1>3. QED
  BY <1>1, <1>2

LEMMA CallInvNext ==
    CallTypeOK /\ CallInv /\ [CallNext]_<<clientVars, callVars>>
      => CallTypeOK' /\ CallInv'
<1> SUFFICES ASSUME CallTypeOK, CallInv, [CallNext]_<<clientVars, callVars>>
             PROVE  CallTypeOK' /\ CallInv'
  OBVIOUS
<1>1. ASSUME NEW m \in Module, Call(m) PROVE CallTypeOK' /\ CallInv'
  BY <1>1, CallKeepsInv
<1>2. CASE CallImport
  <2>1. PICK m \in Top.todo : stack # <<>> /\ Call(m)
    BY <1>2 DEF CallImport
  <2>2. Top \in Frame
    BY <2>1, TopFacts DEF CallTypeOK
  <2>3. m \in Module
    BY <2>2 DEF Frame
  <2>4. QED
    BY <1>1, <2>1, <2>3
<1>3. CASE Hit \/ Return \/ LibraryThrows \/ AppThrows
  BY <1>3, HitKeepsInv, ReturnKeepsInv, LibraryThrowsKeepsInv, AppThrowsKeepsInv
<1>4. CASE UNCHANGED <<clientVars, callVars>>
  <2>1. registry' = registry /\ UNCHANGED callVars
    BY <1>4 DEF clientVars
  <2>2. QED
    BY <2>1, CallStutter
<1>5. QED
  BY <1>1, <1>2, <1>3, <1>4 DEF CallNext, CallStep

(* However modules require each other and throw, components are registered *)
(* under the app module that is running, and under none outside of any.    *)
THEOREM RegistrarIsRestored == CallSpec => []RegistersOwn
<1>1. CallInv => RegistersOwn
  BY DEF CallInv
<1>2. QED
  BY <1>1, CallInvInit, CallInvNext, PTL DEF CallSpec

(* Whatever cycles there are, a module function is called once, or twice   *)
(* when it is that of a library that threw.                                *)
THEOREM ModulesRunOnce == CallSpec => []RunsOnce
<1>1. CallInv => RunsOnce
  BY DEF CallInv
<1>2. QED
  BY <1>1, CallInvInit, CallInvNext, PTL DEF CallSpec
-----------------------------------------------------------------------------
(* Closures. *)
LEMMA ClosureContains ==
    ASSUME NEW S \in SUBSET Module, NEW succ
    PROVE  S \subseteq Closure(S, succ)
BY DEF Closure

LEMMA ClosureClosed ==
    ASSUME NEW S, NEW succ, NEW x \in Closure(S, succ), succ[x] \subseteq Module
    PROVE  succ[x] \subseteq Closure(S, succ)
BY DEF Closure

LEMMA ClosureLeast ==
    ASSUME NEW S, NEW succ, NEW T \in SUBSET Module,
           S \subseteq T, \A x \in T : succ[x] \subseteq T
    PROVE  Closure(S, succ) \subseteq T
BY DEF Closure

(* What is above any member of a closure is in it. *)
LEMMA ClosureAbove ==
    ASSUME NEW succ \in [Module -> SUBSET Module], NEW S, NEW T \in SUBSET Closure(S, succ)
    PROVE  Closure(T, succ) \subseteq Closure(S, succ)
<1>1. Closure(S, succ) \subseteq Module
  BY DEF Closure
<1>2. \A x \in Closure(S, succ) : succ[x] \subseteq Closure(S, succ)
  BY <1>1, ClosureClosed
<1>3. QED
  BY <1>1, <1>2, ClosureLeast

(* A module is reached from m if it is m or is reached by way of a module  *)
(* to which m leads.                                                       *)
LEMMA ClosureFrom ==
    ASSUME NEW succ \in [Module -> SUBSET Module], NEW m \in Module
    PROVE  Closure({m}, succ) = {m} \cup Closure(succ[m], succ)
<1> DEFINE T == {m} \cup Closure(succ[m], succ)
           C == Closure({m}, succ)
<1>1. T \subseteq Module /\ C \subseteq Module /\ m \in C
  BY ClosureContains DEF Closure
<1>2. succ[m] \subseteq T
  BY ClosureContains
<1>3. \A x \in Closure(succ[m], succ) : succ[x] \subseteq T
  BY <1>1, ClosureClosed
<1>4. C \subseteq T
  <2>1. \A x \in T : succ[x] \subseteq T
    BY <1>2, <1>3
  <2>2. QED
    BY <1>1, <2>1, ClosureLeast
<1>5. succ[m] \subseteq C
  BY <1>1, ClosureClosed
<1>6. Closure(succ[m], succ) \subseteq C
  BY <1>5, ClosureAbove
<1>7. QED
  BY <1>1, <1>4, <1>6

(* If m is on a cycle, then so is a module to which it leads. *)
LEMMA ClosureNext ==
    ASSUME NEW succ \in [Module -> SUBSET Module], NEW m \in Module,
           NEW x \in Closure(succ[m], succ)
    PROVE  \E y \in succ[m] : x \in Closure({y}, succ)
<1> DEFINE T == {z \in Module : \E y \in succ[m] : z \in Closure({y}, succ)}
<1>1. succ[m] \subseteq T
  BY ClosureContains
<1>2. ASSUME NEW z \in T PROVE succ[z] \subseteq T
  BY <1>2, ClosureClosed
<1>3. Closure(succ[m], succ) \subseteq T
  BY <1>1, <1>2, ClosureLeast
<1>4. QED
  BY <1>3
-----------------------------------------------------------------------------
(***************************************************************************)
(* The walk.  It may come to a module many times, so that what counts is   *)
(* not which calls have returned: a module is explored when all that the   *)
(* walk can reach from it has been collected, lies on no cycle, and is a   *)
(* boundary or has importers.                                              *)
(***************************************************************************)
Up == WalkStep(before)

From(m) == Closure({m}, Up)

Explored(collected) ==
    {m \in Module :
        /\ From(m) \subseteq collected
        /\ \A x \in From(m) :
              /\ x \notin Closure(Up[x], Up)
              /\ IsRefreshBoundary(before, x) \/ Importers(before, x) # {}}

(* The module for which the i-th call on a path is waiting. *)
Called(p, i) == IF i < Len(p) THEN {p[i + 1].module} ELSE {}

FindTypeOK ==
    /\ before \in Registry
    /\ replace \subseteq Module /\ first \subseteq replace
    /\ path \in Seq(WalkFrame)
    /\ rerun \subseteq Module /\ boundaries \subseteq Module /\ queue \subseteq Module
    /\ outcome \in {"none", "refreshed", "full_refresh_needed", "failed"}

(* Each importer of a module on the path is explored, or still to be       *)
(* called for, or next on the path; all further modules are above it.      *)
PathInv(i) ==
    LET m == path[i].module
    IN  /\ m \in rerun
        /\ ~IsRefreshBoundary(before, m) /\ Importers(before, m) # {}
        /\ path[i].todo \subseteq Importers(before, m)
        /\ Importers(before, m) \subseteq Explored(rerun) \cup path[i].todo \cup Called(path, i)
        /\ \A j \in (i + 1)..Len(path) : path[j].module \in Closure(Up[m], Up)

FindInv ==
    /\ registry = before
    /\ CallInit /\ queue = {}
    /\ rerun \subseteq Visited(before, replace)
    /\ boundaries = {m \in rerun : IsRefreshBoundary(before, m)}
    /\ replace \subseteq Explored(rerun) \cup first \cup Called(path, 0)
    /\ \A i \in 1..Len(path) : PathInv(i)
-----------------------------------------------------------------------------
LEMMA UpFacts ==
    /\ Up \in [Module -> SUBSET Module]
    /\ \A m \in Module : Up[m] = IF IsRefreshBoundary(before, m) THEN {}
                                 ELSE Importers(before, m)
    /\ \A S : Visited(before, S) = Closure(S, Up)
BY DEF Up, WalkStep, Importers, Visited

LEMMA ExploredAbove ==
    ASSUME NEW R, NEW m \in Explored(R)
    PROVE  m \in R /\ Up[m] \subseteq Explored(R)
<1>1. m \in Module /\ m \in From(m) /\ From(m) \subseteq Module
  BY ClosureContains DEF Explored, From, Closure
<1>2. Up[m] \subseteq From(m)
  BY <1>1, UpFacts, ClosureClosed DEF From
<1>3. \A y \in Up[m] : From(y) \subseteq From(m)
  BY <1>2, UpFacts, ClosureAbove DEF From
<1>4. QED
  BY <1>1, <1>2, <1>3 DEF Explored

LEMMA ExploredByImporters ==
    ASSUME NEW R, NEW m \in Module, m \in R, Up[m] \subseteq Explored(R),
           IsRefreshBoundary(before, m) \/ Importers(before, m) # {}
    PROVE  m \in Explored(R)
<1>1. Up \in [Module -> SUBSET Module]
  BY UpFacts
<1>2. From(m) = {m} \cup Closure(Up[m], Up)
  BY <1>1, ClosureFrom DEF From
<1>3. \A x \in Closure(Up[m], Up) : \E y \in Up[m] : x \in From(y)
  BY <1>1, ClosureNext DEF From
<1>4. m \notin Closure(Up[m], Up)
  <2>1. SUFFICES ASSUME m \in Closure(Up[m], Up) PROVE FALSE
    OBVIOUS
  <2>2. PICK y \in Up[m] : m \in From(y)
    BY <1>3, <2>1
  <2>3. y \in Module /\ y \in From(y)
    BY <1>1, ClosureContains DEF From
  <2>4. From(y) = {y} \cup Closure(Up[y], Up)
    BY <1>1, <2>3, ClosureFrom DEF From
  <2>5. Up[m] \subseteq Closure(Up[y], Up)
    <3>1. CASE m = y
      BY <1>1, <3>1, ClosureContains
    <3>2. CASE m \in Closure(Up[y], Up)
      BY <1>1, <3>2, ClosureClosed
    <3>3. QED
      BY <2>2, <2>4, <3>1, <3>2
  <2>6. y \notin Closure(Up[y], Up)
    BY <2>3 DEF Explored
  <2>7. QED
    BY <2>2, <2>5, <2>6
<1>5. QED
  BY <1>2, <1>3, <1>4 DEF Explored

LEMMA ExploredGrows ==
    ASSUME NEW R, NEW T, R \subseteq T
    PROVE  Explored(R) \subseteq Explored(T)
BY DEF Explored

(* No more is read than what the refresh began with. *)
LEMMA SameBefore ==
    ASSUME before' = before
    PROVE  Up' = Up /\ \A R : Explored(R)' = Explored(R)
<1>1. Up' = Up
  BY DEF Up
<1>2. \A m : From(m)' = From(m)
  BY <1>1 DEF From
<1>3. QED
  BY <1>1, <1>2 DEF Explored
-----------------------------------------------------------------------------
(* The path after its last call has called for m. *)
LEMMA ResumePath ==
    ASSUME NEW p \in Seq(WalkFrame), NEW m
    PROVE  /\ Resume(p, m) \in Seq(WalkFrame) /\ Len(Resume(p, m)) = Len(p)
           /\ \A i \in 1..Len(p) : Resume(p, m)[i].module = p[i].module
           /\ \A i \in 1..(Len(p) - 1) : Resume(p, m)[i] = p[i]
           /\ p # <<>> => Resume(p, m)[Len(p)].todo = p[Len(p)].todo \ {m}
<1>1. CASE p = <<>>
  BY <1>1 DEF Resume
<1>2. CASE p # <<>>
  <2>1. Len(p) \in 1..Len(p) /\ p[Len(p)] \in WalkFrame
    BY <1>2
  <2>2. Resume(p, m) = [p EXCEPT ![Len(p)].todo = @ \ {m}]
    BY <1>2 DEF Resume
  <2>3. [p[Len(p)] EXCEPT !.todo = @ \ {m}] \in WalkFrame
    BY <2>1 DEF WalkFrame
  <2>4. QED
    BY <2>1, <2>2, <2>3 DEF WalkFrame
<1>3. QED
  BY <1>1, <1>2

(* The walk calls for a module to replace, or for an importer of the last  *)
(* module on the path.                                                     *)
LEMMA ToCallFacts ==
    ASSUME FindTypeOK, FindInv, NEW m \in ToCall
    PROVE  /\ m \in Visited(before, replace)
           /\ m \in Module
           /\ path # <<>> => /\ Len(path) \in 1..Len(path)
                             /\ m \in path[Len(path)].todo
                             /\ \A i \in 1..Len(path) :
                                   m \in Closure(Up[path[i].module], Up)
<1> DEFINE n == Len(path)
           V == Visited(before, replace)
<1>1. V \subseteq Module
  BY DEF Visited, Closure
<1>2. V = Closure(replace, Up) /\ Up \in [Module -> SUBSET Module]
  BY UpFacts
<1>3. CASE path = <<>>
  <2>1. m \in replace
    BY <1>3 DEF ToCall, FindTypeOK
  <2>2. QED
    BY <1>1, <1>2, <1>3, <2>1, ClosureContains DEF FindTypeOK
<1>4. CASE path # <<>>
  <2>1. n \in 1..n /\ m \in path[n].todo
    BY <1>4 DEF ToCall, FindTypeOK
  <2> DEFINE t == path[n].module
  <2>2. PathInv(n)
    BY <2>1 DEF FindInv
  <2>3. t \in rerun /\ ~IsRefreshBoundary(before, t) /\ m \in Importers(before, t)
    BY <2>1, <2>2 DEF PathInv
  <2>4. t \in V /\ t \in Module
    BY <1>1, <2>3 DEF FindInv
  <2>5. m \in Up[t]
    BY <2>3, <2>4, UpFacts
  <2>6. m \in V
    BY <1>2, <2>4, <2>5, ClosureClosed
  <2>7. ASSUME NEW i \in 1..n PROVE m \in Closure(Up[path[i].module], Up)
    <3>1. path[i].module \in Module
      BY <1>1 DEF FindInv, PathInv
    <3>2. CASE i = n
      BY <1>2, <2>4, <2>5, <3>2, ClosureContains
    <3>3. CASE i # n
      <4>1. t \in Closure(Up[path[i].module], Up)
        BY <2>1, <3>3 DEF FindInv, PathInv
      <4>2. QED
        BY <1>2, <2>4, <2>5, <4>1, ClosureClosed
    <3>4. QED
      BY <3>2, <3>3
  <2>8. QED
    BY <1>1, <2>1, <2>6, <2>7
<1>5. QED
  BY <1>3, <1>4

(* Whatever is called for is then explored, or next on the path. *)
LEMMA CallKeepsPath ==
    ASSUME FindTypeOK, FindInv, NEW m \in ToCall, before' = before, replace' = replace,
           rerun' = rerun \cup {m},
           first' = IF path = <<>> THEN first \ {m} ELSE first,
           Len(path') \in Nat, Len(path') >= Len(path),
           \A i \in 1..Len(path) : path'[i] = Resume(path, m)[i],
           \A i \in (Len(path) + 1)..Len(path') : path'[i].module = m,
           Len(path') = Len(path) => m \in Explored(rerun')
    PROVE  /\ rerun' \subseteq Visited(before, replace)
           /\ replace \subseteq Explored(rerun') \cup first' \cup Called(path', 0)
           /\ \A i \in 1..Len(path) : PathInv(i)'
<1> DEFINE n == Len(path)
<1>1. rerun' \subseteq Visited(before, replace)
  BY ToCallFacts DEF FindInv
<1>2. Explored(rerun) \subseteq Explored(rerun')
  BY ExploredGrows
<1>3. /\ n \in Nat
      /\ \A i \in 1..n : path'[i].module = path[i].module
      /\ \A i \in 1..(n - 1) : path'[i].todo = path[i].todo
      /\ n # 0 => path'[n].todo = path[n].todo \ {m}
      /\ n = 0 <=> path = <<>>
  <2>1. path \in Seq(WalkFrame)
    BY DEF FindTypeOK
  <2>2. n \in Nat /\ (n = 0 <=> path = <<>>)
    BY <2>1
  <2>3. \A i \in 1..(n - 1) : path'[i] = path[i]
    BY <2>1, <2>2, ResumePath
  <2>4. QED
    BY <2>1, <2>2, <2>3, ResumePath
<1>4. ASSUME NEW i \in 0..(n - 1) PROVE Called(path', i) = Called(path, i)
  <2>1. i + 1 \in 1..n /\ i < Len(path) /\ i < Len(path')
    BY <1>3
  <2>2. path'[i + 1].module = path[i + 1].module
    BY <1>3, <2>1
  <2>3. QED
    BY <2>1, <2>2 DEF Called
<1>5. m \in Explored(rerun') \cup Called(path', n)
  BY <1>3 DEF Called
<1>6. replace \subseteq Explored(rerun') \cup first' \cup Called(path', 0)
  <2>1. replace \subseteq Explored(rerun) \cup first \cup Called(path, 0)
    BY DEF FindInv
  <2>2. CASE n = 0
    <3>1. Called(path, 0) = {} /\ first' = first \ {m}
      BY <1>3, <2>2 DEF Called
    <3>2. m \in Explored(rerun') \cup Called(path', 0)
      BY <1>5, <2>2
    <3>3. QED
      BY <1>2, <2>1, <3>1, <3>2
  <2>3. CASE n # 0
    <3>1. Called(path', 0) = Called(path, 0) /\ first' = first
      BY <1>3, <1>4, <2>3
    <3>2. QED
      BY <1>2, <2>1, <3>1
  <2>4. QED
    BY <2>2, <2>3
<1>7. ASSUME NEW i \in 1..n PROVE PathInv(i)'
  <2> DEFINE p == path[i].module
  <2>1. PathInv(i) /\ path'[i].module = p
    BY <1>3 DEF FindInv
  <2>2. path'[i].todo \subseteq Importers(before, p)
    BY <1>3, <2>1 DEF PathInv
  <2>3. Importers(before, p) \subseteq Explored(rerun') \cup path'[i].todo \cup Called(path', i)
    <3>1. Importers(before, p) \subseteq Explored(rerun) \cup path[i].todo \cup Called(path, i)
      BY <2>1 DEF PathInv
    <3>2. CASE i = n
      <4>1. Called(path, i) = {} /\ path'[i].todo = path[i].todo \ {m}
        BY <1>3, <3>2 DEF Called
      <4>2. m \in Explored(rerun') \cup Called(path', i)
        BY <1>5, <3>2
      <4>3. QED
        BY <1>2, <3>1, <4>1, <4>2
    <3>3. CASE i # n
      <4>1. Called(path', i) = Called(path, i) /\ path'[i].todo = path[i].todo
        BY <1>3, <1>4, <3>3
      <4>2. QED
        BY <1>2, <3>1, <4>1
    <3>4. QED
      BY <3>2, <3>3
  <2>4. ASSUME NEW j \in (i + 1)..Len(path')
        PROVE  path'[j].module \in Closure(Up[p], Up)
    <3>1. CASE j \in 1..n
      BY <1>3, <2>1, <3>1 DEF PathInv
    <3>2. CASE j \notin 1..n
      <4>1. j \in (n + 1)..Len(path')
        BY <1>3, <3>2
      <4>2. path'[j].module = m
        BY <4>1
      <4>3. path # <<>>
        BY <1>3
      <4>4. QED
        BY <4>2, <4>3, ToCallFacts
    <3>3. QED
      BY <3>1, <3>2
  <2>5. p \in rerun' /\ ~IsRefreshBoundary(before, p) /\ Importers(before, p) # {}
    BY <2>1 DEF PathInv
  <2>6. Up' = Up /\ Explored(rerun)' = Explored(rerun')
    BY SameBefore
  <2>7. QED
    BY <2>1, <2>2, <2>3, <2>4, <2>5, <2>6 DEF PathInv
<1>8. QED
  BY <1>1, <1>6, <1>7
-----------------------------------------------------------------------------
(* One call, by what it finds. *)
LEMMA StopKeepsInv ==
    ASSUME FindTypeOK, FindInv, NEW m \in ToCall, before' = before, replace' = replace,
           rerun' = rerun \cup {m},
           first' = IF path = <<>> THEN first \ {m} ELSE first,
           registry' = registry, queue' = queue, UNCHANGED callVars,
           StopAtBoundary(m)
    PROVE  path' \in Seq(WalkFrame) /\ FindInv'
<1>1. /\ IsRefreshBoundary(before, m) /\ path' = Resume(path, m)
      /\ boundaries' = boundaries \cup {m}
  BY DEF StopAtBoundary, FindInv
<1>2. path' \in Seq(WalkFrame) /\ Len(path') = Len(path)
  BY <1>1, ResumePath DEF FindTypeOK
<1>3. m \in Explored(rerun')
  <2>1. m \in Module /\ m \in rerun'
    BY ToCallFacts
  <2>2. Up[m] = {}
    BY <1>1, <2>1, UpFacts
  <2>3. QED
    BY <1>1, <2>1, <2>2, ExploredByImporters
<1>4. /\ rerun' \subseteq Visited(before, replace)
      /\ replace \subseteq Explored(rerun') \cup first' \cup Called(path', 0)
      /\ \A i \in 1..Len(path) : PathInv(i)'
  <2>1. Len(path) \in Nat
    BY DEF FindTypeOK
  <2>2. \A i \in (Len(path) + 1)..Len(path') : path'[i].module = m
    BY <1>2, <2>1
  <2>3. \A i \in 1..Len(path) : path'[i] = Resume(path, m)[i]
    BY <1>1
  <2>4. Len(path') \in Nat /\ Len(path') >= Len(path)
    BY <1>2, <2>1
  <2>5. QED
    BY <1>3, <2>2, <2>3, <2>4, CallKeepsPath
<1>5. boundaries' = {x \in rerun' : IsRefreshBoundary(before, x)}
  BY <1>1 DEF FindInv
<1>6. CallInit' /\ queue' = {}
  BY DEF FindInv, CallInit, callVars
<1>7. registry' = before' /\ Explored(rerun)' = Explored(rerun')
  BY SameBefore DEF FindInv
<1>8. QED
  BY <1>2, <1>4, <1>5, <1>6, <1>7 DEF FindInv

LEMMA ClimbKeepsInv ==
    ASSUME FindTypeOK, FindInv, NEW m \in ToCall, before' = before, replace' = replace,
           rerun' = rerun \cup {m},
           first' = IF path = <<>> THEN first \ {m} ELSE first,
           registry' = registry, queue' = queue, UNCHANGED callVars,
           Climb(m)
    PROVE  path' \in Seq(WalkFrame) /\ FindInv'
<1> DEFINE n == Len(path)
           p == Resume(path, m)
           f == [module |-> m, todo |-> Importers(before, m)]
<1>1. /\ ~IsRefreshBoundary(before, m) /\ Importers(before, m) # {}
      /\ path' = Append(p, f) /\ boundaries' = boundaries
  BY DEF Climb, FindInv
<1>2. m \in Module /\ f \in WalkFrame
  BY ToCallFacts DEF WalkFrame, Importers
<1>3. p \in Seq(WalkFrame) /\ Len(p) = n /\ n \in Nat
  BY ResumePath DEF FindTypeOK
<1> HIDE DEF p
<1>4. f.module = m /\ f.todo = Importers(before, m)
  OBVIOUS
<1> HIDE DEF f
<1>5. /\ path' \in Seq(WalkFrame) /\ Len(path') = n + 1 /\ path'[n + 1] = f
      /\ \A i \in 1..n : path'[i] = p[i]
  BY <1>1, <1>2, <1>3
<1>6. /\ rerun' \subseteq Visited(before, replace)
      /\ replace \subseteq Explored(rerun') \cup first' \cup Called(path', 0)
      /\ \A i \in 1..n : PathInv(i)'
  <2>1. \A i \in (n + 1)..Len(path') : path'[i].module = m
    BY <1>3, <1>4, <1>5
  <2>2. \A i \in 1..n : path'[i] = Resume(path, m)[i]
    BY <1>5 DEF p
  <2>3. Len(path') \in Nat /\ Len(path') >= n /\ Len(path') # n
    BY <1>3, <1>5
  <2>4. QED
    BY <2>1, <2>2, <2>3, CallKeepsPath
<1>7. registry' = before' /\ Explored(rerun)' = Explored(rerun') /\ Up' = Up
  BY SameBefore DEF FindInv
<1>8. \A i \in 1..(n + 1) : PathInv(i)'
  <2>1. ASSUME NEW i, i = n + 1 PROVE PathInv(i)'
    <3>1. path'[i].module = m /\ path'[i].todo = Importers(before, m)
      BY <1>4, <1>5, <2>1
    <3>2. (i + 1)..Len(path') = {}
      BY <1>3, <1>5, <2>1
    <3>3. QED
      BY <1>1, <1>7, <3>1, <3>2 DEF PathInv
  <2>2. \A i \in 1..(n + 1) : i \in 1..n \/ i = n + 1
    BY <1>3
  <2>3. QED
    BY <1>6, <2>1, <2>2
<1>9. boundaries' = {x \in rerun' : IsRefreshBoundary(before, x)}
  BY <1>1 DEF FindInv
<1>10. CallInit' /\ queue' = {}
  BY DEF FindInv, CallInit, callVars
<1>11. QED
  BY <1>5, <1>6, <1>7, <1>8, <1>9, <1>10 DEF FindInv

(* The walk fails where the closures say it may. *)
LEMMA RootIsReached ==
    ASSUME FindTypeOK, FindInv, NEW m \in ToCall, ReachRoot(m)
    PROVE  outcome' \in Outcomes(before, replace) /\ outcome' = "full_refresh_needed"
<1>1. m \in Visited(before, replace)
  BY ToCallFacts
<1>2. ReachesRoot(before, replace) /\ outcome' = "full_refresh_needed"
  BY <1>1 DEF ReachRoot, FindInv, ReachesRoot
<1>3. QED
  BY <1>2 DEF Outcomes

LEMMA OverflowIsCycle ==
    ASSUME FindTypeOK, FindInv, NEW m \in ToCall, Overflow(m)
    PROVE  outcome' \in Outcomes(before, replace) /\ outcome' = "failed"
<1>1. PICK i \in 1..Len(path) : path[i].module = m
  BY DEF Overflow, OnPath
<1>2. path # <<>>
  BY <1>1
<1>3. m \in Visited(before, replace) /\ m \in Closure(Up[m], Up)
  BY <1>1, <1>2, ToCallFacts
<1>4. Overflows(before, replace) /\ outcome' = "failed"
  BY <1>3 DEF Overflow, Overflows, Up
<1>5. QED
  BY <1>4 DEF Outcomes

(* A module all of whose importers have answered TRUE is explored. *)
LEMMA AnswerKeepsInv ==
    ASSUME FindTypeOK, FindInv, AnswerTrue
    PROVE  path' \in Seq(WalkFrame) /\ FindInv'
<1> DEFINE n == Len(path)
           t == path[n].module
<1>1. /\ path # <<>> /\ path[n].todo = {} /\ path' = SubSeq(path, 1, n - 1)
      /\ registry' = registry /\ UNCHANGED callVars /\ before' = before
      /\ replace' = replace /\ first' = first /\ rerun' = rerun /\ boundaries' = boundaries
      /\ queue' = queue
  BY DEF AnswerTrue, clientVars
<1>2. n \in Nat \ {0} /\ n \in 1..n
  BY <1>1 DEF FindTypeOK
<1>3. /\ path' \in Seq(WalkFrame) /\ Len(path') = n - 1
      /\ \A i \in 1..(n - 1) : path'[i] = path[i]
  <2>1. \A i \in 1..(n - 1) : path[i] \in WalkFrame
    BY <1>2 DEF FindTypeOK
  <2>2. path' = [i \in 1..(n - 1) |-> path[i]]
    BY <1>1, <1>2
  <2>3. QED
    BY <1>2, <2>1, <2>2
<1>4. t \in Explored(rerun)
  <2>1. PathInv(n)
    BY <1>2 DEF FindInv
  <2>2. Called(path, n) = {}
    BY <1>2 DEF Called
  <2>3. /\ t \in rerun /\ ~IsRefreshBoundary(before, t) /\ Importers(before, t) # {}
        /\ Importers(before, t) \subseteq Explored(rerun)
    BY <1>1, <2>1, <2>2 DEF PathInv
  <2>4. t \in Module
    BY <2>3 DEF FindTypeOK
  <2>5. Up[t] = Importers(before, t)
    BY <2>3, <2>4, UpFacts
  <2>6. QED
    BY <2>3, <2>4, <2>5, ExploredByImporters
<1>5. ASSUME NEW i \in 0..(n - 1) PROVE Called(path, i) \subseteq Called(path', i) \cup {t}
  <2>1. CASE i = n - 1
    BY <1>2, <2>1 DEF Called
  <2>2. CASE i # n - 1
    <3>1. i + 1 \in 1..(n - 1) /\ i < Len(path')
      BY <1>2, <1>3, <2>2
    <3>2. path'[i + 1] = path[i + 1]
      BY <1>3, <3>1
    <3>3. QED
      BY <3>1, <3>2 DEF Called
  <2>3. QED
    BY <2>1, <2>2
<1>6. Explored(rerun)' = Explored(rerun) /\ Up' = Up
  BY <1>1, SameBefore
<1>7. replace' \subseteq Explored(rerun)' \cup first' \cup Called(path', 0)
  <2>1. Called(path, 0) \subseteq Called(path', 0) \cup {t}
    BY <1>2, <1>5
  <2>2. QED
    BY <1>1, <1>4, <1>6, <2>1 DEF FindInv
<1>8. ASSUME NEW i \in 1..(n - 1) PROVE PathInv(i)'
  <2>1. PathInv(i) /\ path'[i] = path[i]
    BY <1>2, <1>3 DEF FindInv
  <2>2. Called(path, i) \subseteq Called(path', i) \cup {t}
    BY <1>2, <1>5
  <2>3. \A j \in (i + 1)..(n - 1) : j \in (i + 1)..n /\ path'[j] = path[j]
    BY <1>2, <1>3
  <2>4. QED
    BY <1>1, <1>3, <1>4, <1>6, <2>1, <2>2, <2>3 DEF PathInv
<1>9. CallInit' /\ queue' = {}
  BY <1>1 DEF FindInv, CallInit, callVars
<1>10. /\ registry' = before' /\ rerun' \subseteq Visited(before', replace')
       /\ boundaries' = {x \in rerun' : IsRefreshBoundary(before', x)}
  BY <1>1 DEF FindInv
<1>11. QED
  BY <1>3, <1>7, <1>8, <1>9, <1>10 DEF FindInv

(* When nothing is left to call, everything has been explored. *)
LEMMA WalkIsComplete ==
    ASSUME FindTypeOK, FindInv, path = <<>>, first = {}
    PROVE  /\ "refreshed" \in Outcomes(before, replace)
           /\ rerun = Visited(before, replace)
           /\ boundaries = Boundaries(before, replace)
<1> DEFINE V == Visited(before, replace)
           E == Explored(rerun)
<1>1. replace \subseteq E
  BY DEF FindInv, Called
<1>2. E \subseteq Module /\ \A x \in E : Up[x] \subseteq E
  BY ExploredAbove DEF Explored
<1>3. V \subseteq E
  BY <1>1, <1>2, UpFacts, ClosureLeast
<1>4. E \subseteq rerun
  BY ExploredAbove
<1>5. rerun = V
  BY <1>3, <1>4 DEF FindInv
<1>6. \A x \in V : /\ x \notin Closure(Up[x], Up)
                   /\ IsRefreshBoundary(before, x) \/ Importers(before, x) # {}
  <2>1. \A x \in E : x \in From(x)
    BY <1>2, ClosureContains DEF From
  <2>2. QED
    BY <1>3, <2>1 DEF Explored
<1>7. ~ReachesRoot(before, replace) /\ ~Overflows(before, replace)
  BY <1>6 DEF ReachesRoot, Overflows, Up
<1>8. "refreshed" \in Outcomes(before, replace)
  BY <1>7 DEF Outcomes
<1>9. QED
  BY <1>5, <1>8 DEF FindInv, Boundaries
-----------------------------------------------------------------------------
(***************************************************************************)
(* The boundaries are required, and nothing has thrown yet.  What a module *)
(* on the stack still wants, and what any module that has been run holds.  *)
(***************************************************************************)
OnStack(s) == {s[i].module : i \in 1..Len(s)}

Wanted(s, p) == {q \in Module : \E i \in 1..Len(s) : s[i].module = p /\ q \in s[i].todo}

Base == Forget(before, ToForget(before, replace))

HasRun == {m \in Module : runs[m] > 0}

Imports(m) == before.run[m].imports

ResultInv(m) ==
    registry.result[m] = IF m \notin HasRun THEN Base.result[m]
                         ELSE IF m \in OnStack(stack)
                              THEN [before.run[m] EXCEPT !.exports = "empty"]
                         ELSE before.run[m]

LinksInv(p, q) ==
    <<p, q>> \in registry.linked <=>
        \/ <<p, q>> \in Base.linked
        \/ p \in HasRun /\ q \in Imports(p) \ Wanted(stack, p)

RunInv(m) ==
    /\ m \in Executed(Base, boundaries)
    /\ Base.result[m] = None
    /\ before.run[m] # None
    /\ Imports(m) \subseteq Cached(registry) \cup Wanted(stack, m)

CallerInv(i) ==
    /\ stack[i].module \in HasRun
    /\ stack[i].todo \subseteq Imports(stack[i].module)
    /\ i > 1 => stack[i].module \in stack[i - 1].todo

RerunInv ==
    /\ registry.run = before.run /\ registry.graph = before.graph
    /\ \A m \in Module : ResultInv(m)
    /\ \A p, q \in Module : LinksInv(p, q)
    /\ \A m \in HasRun : RunInv(m)
    /\ \A i \in 1..Len(stack) : CallerInv(i)
    /\ boundaries \ queue \subseteq Cached(registry)
    /\ queue \subseteq boundaries

Distinct(s) == \A i, j \in 1..Len(s) : s[i].module = s[j].module => i = j
-----------------------------------------------------------------------------
(* What a stack wants. *)
LEMMA WantedFacts ==
    ASSUME NEW s \in Seq(Frame), Distinct(s)
    PROVE  /\ \A i \in 1..Len(s) : Wanted(s, s[i].module) = s[i].todo
           /\ \A p : p \notin OnStack(s) => Wanted(s, p) = {}
<1>1. ASSUME NEW i \in 1..Len(s) PROVE Wanted(s, s[i].module) = s[i].todo
  <2>1. s[i] \in Frame
    OBVIOUS
  <2>2. s[i].todo \subseteq Module
    BY <2>1 DEF Frame
  <2>3. QED
    BY <2>2 DEF Wanted, Distinct
<1>2. QED
  BY <1>1 DEF Wanted, OnStack

LEMMA PushWanted ==
    ASSUME NEW s \in Seq(Frame), NEW f \in Frame, f.module \notin OnStack(s)
    PROVE  /\ OnStack(Append(s, f)) = OnStack(s) \cup {f.module}
           /\ \A p : Wanted(Append(s, f), p) = IF p = f.module THEN f.todo ELSE Wanted(s, p)
<1> DEFINE n == Len(s)
           t == Append(s, f)
<1>1. n \in Nat /\ Len(t) = n + 1 /\ t[n + 1] = f /\ \A i \in 1..n : t[i] = s[i]
  OBVIOUS
<1> HIDE DEF t
<1>2. \A i \in 1..(n + 1) : i \in 1..n \/ i = n + 1
  BY <1>1
<1>3. OnStack(t) = OnStack(s) \cup {f.module}
  BY <1>1, <1>2 DEF OnStack
<1>4. f.todo \subseteq Module
  BY DEF Frame
<1>5. ASSUME NEW p PROVE Wanted(t, p) = IF p = f.module THEN f.todo ELSE Wanted(s, p)
  <2>1. \A q : (\E i \in 1..Len(t) : t[i].module = p /\ q \in t[i].todo)
                 <=> \/ \E i \in 1..n : s[i].module = p /\ q \in s[i].todo
                     \/ f.module = p /\ q \in f.todo
    BY <1>1, <1>2
  <2>2. p = f.module => \A i \in 1..n : s[i].module # p
    BY DEF OnStack
  <2>3. QED
    BY <1>4, <2>1, <2>2 DEF Wanted
<1>6. QED
  BY <1>3, <1>5 DEF t

LEMMA ResumeWanted ==
    ASSUME NEW s \in Seq(Frame), Distinct(s), NEW m
    PROVE  /\ OnStack(Resume(s, m)) = OnStack(s)
           /\ Distinct(Resume(s, m))
           /\ \A i \in 1..(Len(s) - 1) : Resume(s, m)[i] = s[i]
           /\ s # <<>> => Resume(s, m)[Len(s)].todo = s[Len(s)].todo \ {m}
           /\ \A p : Wanted(Resume(s, m), p) =
                 IF s # <<>> /\ p = s[Len(s)].module THEN Wanted(s, p) \ {m} ELSE Wanted(s, p)
<1> DEFINE n == Len(s)
           t == Resume(s, m)
<1>1. /\ t \in Seq(Frame) /\ Len(t) = n /\ n \in Nat
      /\ \A i \in 1..n : t[i].module = s[i].module
  BY ResumeFacts
<1>2. OnStack(t) = OnStack(s) /\ Distinct(t)
  BY <1>1 DEF OnStack, Distinct
<1>3. CASE s = <<>>
  BY <1>2, <1>3 DEF Resume
<1>4. CASE s # <<>>
  <2>1. n \in 1..n /\ s[n] \in Frame
    BY <1>4
  <2>2. t = [s EXCEPT ![n].todo = @ \ {m}]
    BY <1>4 DEF Resume
  <2>3. (\A i \in 1..(n - 1) : t[i] = s[i]) /\ t[n].todo = s[n].todo \ {m}
    BY <2>1, <2>2 DEF Frame
  <2> HIDE DEF t
  <2>4. \A i \in 1..n : Wanted(t, s[i].module) = t[i].todo /\ Wanted(s, s[i].module) = s[i].todo
    BY <1>1, <1>2, WantedFacts
  <2>5. \A p : p \notin OnStack(s) => Wanted(t, p) = {} /\ Wanted(s, p) = {}
    BY <1>1, <1>2, WantedFacts
  <2>6. ASSUME NEW p
        PROVE  Wanted(t, p) = IF p = s[n].module THEN Wanted(s, p) \ {m} ELSE Wanted(s, p)
    <3>1. CASE p \notin OnStack(s)
      BY <2>5, <3>1
    <3>2. ASSUME NEW i \in 1..n, p = s[i].module
          PROVE  Wanted(t, p) = IF p = s[n].module THEN Wanted(s, p) \ {m} ELSE Wanted(s, p)
      <4>1. i = n \/ (i \in 1..(n - 1) /\ p # s[n].module)
        BY <1>1, <2>1, <3>2 DEF Distinct
      <4>2. QED
        BY <2>3, <2>4, <3>2, <4>1
    <3>3. QED
      BY <3>1, <3>2 DEF OnStack
  <2>7. QED
    BY <1>2, <1>4, <2>3, <2>6 DEF t
<1>5. QED
  BY <1>3, <1>4

(* The innermost frame wants nothing more and goes. *)
LEMMA PopWanted ==
    ASSUME stack \in Seq(Frame), stack # <<>>, Distinct(stack), Top.todo = {}
    PROVE  /\ Distinct(Callers)
           /\ OnStack(Callers) = OnStack(stack) \ {Top.module}
           /\ \A p : Wanted(Callers, p) = Wanted(stack, p)
<1> DEFINE n == Len(stack)
<1>1. /\ n \in Nat \ {0} /\ Top = stack[n] /\ Len(Callers) = n - 1
      /\ \A i \in 1..(n - 1) : Callers[i] = stack[i]
  BY TopFacts
<1>2. \A i \in 1..n : i = n \/ i \in 1..(n - 1)
  BY <1>1
<1>3. \A i \in 1..(n - 1) : i \in 1..n /\ i # n
  BY <1>1
<1>4. Distinct(Callers)
  BY <1>1, <1>3 DEF Distinct
<1>5. OnStack(Callers) = OnStack(stack) \ {Top.module}
  <2>1. OnStack(stack) = OnStack(Callers) \cup {Top.module}
    BY <1>1, <1>2, <1>3 DEF OnStack
  <2>2. Top.module \notin OnStack(Callers)
    BY <1>1, <1>3 DEF OnStack, Distinct
  <2>3. QED
    BY <2>1, <2>2
<1>6. ASSUME NEW p PROVE Wanted(Callers, p) = Wanted(stack, p)
  <2>1. \A q : (\E i \in 1..n : stack[i].module = p /\ q \in stack[i].todo)
                 <=> (\E i \in 1..(n - 1) : stack[i].module = p /\ q \in stack[i].todo)
    BY <1>1, <1>2, <1>3
  <2>2. QED
    BY <1>1, <2>1 DEF Wanted
<1>7. QED
  BY <1>4, <1>5, <1>6
-----------------------------------------------------------------------------
LEMMA BaseFacts ==
    ASSUME FindTypeOK
    PROVE  /\ Base \in Registry /\ Base.run = before.run /\ Base.graph = before.graph
           /\ ImportsToRun(Base) \in [Module -> SUBSET Module]
           /\ \A m \in Module : before.run[m] # None =>
                 /\ Imports(m) \subseteq Module
                 /\ ImportsToRun(Base)[m] = Imports(m) \ Cached(Base)
<1>1. before \in Registry
  BY DEF FindTypeOK
<1>2. Base \in Registry /\ Base.run = before.run /\ Base.graph = before.graph
  BY <1>1 DEF Base, Forget, Registry, MaybeCode
<1>3. \A m \in Module : before.run[m] # None => Imports(m) \subseteq Module
  <2>1. \A m \in Module : before.run[m] # None => before.run[m] \in Code
    BY <1>1 DEF Registry, MaybeCode
  <2>2. \A c \in Code : c.imports \subseteq Module
    BY DEF Code, Content, Stub
  <2>3. QED
    BY <2>1, <2>2 DEF Imports
<1>4. ImportsToRun(Base) = [m \in Module |-> IF before.run[m] = None THEN {}
                                             ELSE Imports(m) \ Cached(Base)]
  BY <1>2 DEF ImportsToRun, Imports
<1>5. QED
  BY <1>2, <1>3, <1>4

LEMMA SameBase ==
    ASSUME before' = before, replace' = replace
    PROVE  Base' = Base /\ \A m : Imports(m)' = Imports(m)
BY DEF Base, Imports

(* Who is on the stack has been called. *)
LEMMA StackFacts ==
    ASSUME CallTypeOK, CallInv
    PROVE  /\ stack \in Seq(Frame) /\ Distinct(stack)
           /\ OnStack(stack) \subseteq Module
           /\ HasRun \subseteq Cached(registry)
<1>1. stack \in Seq(Frame) /\ Distinct(stack)
  BY DEF CallTypeOK, CallInv, Distinct
<1>2. \A i \in 1..Len(stack) : stack[i].module \in Module
  <2>1. \A i \in 1..Len(stack) : stack[i] \in Frame
    BY <1>1
  <2>2. QED
    BY <2>1 DEF Frame
<1>3. HasRun \subseteq Cached(registry)
  BY DEF CallInv, HasRun, CallTypeOK
<1>4. QED
  BY <1>1, <1>2, <1>3 DEF OnStack

(* A module is called for the first time: it is a boundary, or its caller  *)
(* wants it.                                                               *)
LEMMA CallKeepsRerun ==
    ASSUME FindTypeOK, CallTypeOK, CallInv, RerunInv, NEW m \in Module, Call(m),
           stack = <<>> => m \in boundaries,
           stack # <<>> => m \in Top.todo,
           before' = before, replace' = replace, boundaries' = boundaries,
           queue' \subseteq queue, queue \ queue' \subseteq {m}
    PROVE  RerunInv'
<1> DEFINE n == Len(stack)
           f == [module |-> m, todo |-> registry.run[m].imports,
                 app |-> m \notin NodeModules, prev |-> owner]
           X == Executed(Base, boundaries)
<1>1. /\ m \notin Cached(registry) /\ before.run[m] # None
      /\ registry.run = before.run /\ registry.graph = before.graph
  BY DEF Call, RerunInv
<1>2. /\ registry'.run = before.run /\ registry'.graph = before.graph
      /\ registry'.linked = registry.linked
      /\ registry'.result = [registry.result EXCEPT
                                ![m] = [before.run[m] EXCEPT !.exports = "empty"]]
      /\ Cached(registry') = Cached(registry) \cup {m}
  <2>1. registry' = Entered(registry, m) /\ registry \in Registry
    BY DEF Call, CallTypeOK
  <2>2. Cached(registry') = Cached(registry) \cup {m}
    BY <1>1, <2>1, EnteredFacts
  <2>3. QED
    BY <1>1, <2>1, <2>2 DEF Entered, Registry
<1>3. stack' = Append(stack, f) /\ runs' = [runs EXCEPT ![m] = @ + 1]
  BY DEF Call, Run
<1>4. Imports(m) \subseteq Module
  BY <1>1, BaseFacts
<1>5. f \in Frame /\ f.module = m /\ f.todo = Imports(m)
  BY <1>1, <1>4 DEF Frame, Imports, CallTypeOK
<1> HIDE DEF f
<1>6. m \notin HasRun /\ HasRun' = HasRun \cup {m}
  <2>1. runs[m] = 0 /\ runs \in [Module -> Nat]
    BY <1>1 DEF CallInv, CallTypeOK
  <2>2. QED
    BY <1>3, <2>1 DEF HasRun
<1>7. m \notin OnStack(stack) /\ OnStack(stack) \subseteq HasRun
  BY <1>6 DEF RerunInv, CallerInv, OnStack
<1>8. /\ OnStack(stack') = OnStack(stack) \cup {m}
      /\ \A p : Wanted(stack', p) = IF p = m THEN Imports(m) ELSE Wanted(stack, p)
  BY <1>3, <1>5, <1>7, PushWanted, StackFacts
<1>9. Base' = Base /\ \A p : Imports(p)' = Imports(p)
  BY SameBase
<1>10. Base.result[m] = None /\ m \notin Cached(Base)
  <2>1. registry.result[m] = None
    BY <1>1 DEF Cached, Loaded
  <2>2. ResultInv(m)
    BY DEF RerunInv
  <2>3. Base.result[m] = None
    BY <1>6, <2>1, <2>2 DEF ResultInv
  <2>4. QED
    BY <2>3 DEF Cached, Loaded
<1>11. m \in X
  <2>1. CASE stack = <<>>
    <3>1. boundaries \ Cached(Base) \subseteq X
      BY ClosureContains DEF Executed, FindTypeOK
    <3>2. QED
      BY <1>10, <2>1, <3>1
  <2>2. CASE stack # <<>>
    <3>1. n \in 1..n /\ Top = stack[n] /\ m \in Top.todo
      BY <2>2, TopFacts DEF CallTypeOK
    <3>2. CallerInv(n) /\ Top.module \in HasRun
      BY <3>1 DEF RerunInv, CallerInv
    <3>3. m \in Imports(Top.module)
      BY <3>1, <3>2 DEF CallerInv
    <3>4. RunInv(Top.module) /\ Top.module \in Module
      BY <3>2 DEF RerunInv, HasRun
    <3>5. ImportsToRun(Base)[Top.module] \subseteq Executed(Base, boundaries)
      BY <3>4, BaseFacts, ClosureClosed DEF Executed, RunInv
    <3>6. QED
      BY <1>10, <3>3, <3>4, <3>5, BaseFacts DEF RunInv
  <2>3. QED
    BY <2>1, <2>2
<1>12. ASSUME NEW p \in Module PROVE ResultInv(p)'
  <2>1. ResultInv(p) /\ registry.result \in [Module -> MaybeCode]
    BY DEF RerunInv, CallTypeOK, Registry
  <2>2. QED
    BY <1>2, <1>6, <1>8, <1>9, <2>1 DEF ResultInv
<1>13. ASSUME NEW p \in Module, NEW q \in Module PROVE LinksInv(p, q)'
  <2>1. LinksInv(p, q)
    BY DEF RerunInv
  <2>2. QED
    BY <1>2, <1>6, <1>8, <1>9, <2>1 DEF LinksInv
<1>14. ASSUME NEW p \in HasRun' PROVE RunInv(p)'
  <2>1. CASE p = m
    BY <1>1, <1>8, <1>9, <1>10, <1>11, <2>1 DEF RunInv
  <2>2. CASE p # m
    <3>1. RunInv(p)
      BY <1>6, <2>2 DEF RerunInv
    <3>2. QED
      BY <1>2, <1>8, <1>9, <2>2, <3>1 DEF RunInv
  <2>3. QED
    BY <2>1, <2>2
<1>15. ASSUME NEW i \in 1..Len(stack') PROVE CallerInv(i)'
  <2>1. /\ n \in Nat /\ Len(stack') = n + 1 /\ stack'[n + 1] = f
        /\ \A j \in 1..n : stack'[j] = stack[j]
    BY <1>3, <1>5 DEF CallTypeOK
  <2>2. CASE i = n + 1
    <3>1. stack'[i].module = m /\ stack'[i].todo = Imports(m)
      BY <1>5, <2>1, <2>2
    <3>2. i > 1 => m \in stack'[i - 1].todo
      BY <2>1, <2>2 DEF Top
    <3>3. QED
      BY <1>6, <1>9, <3>1, <3>2 DEF CallerInv
  <2>3. CASE i # n + 1
    <3>1. i \in 1..n /\ stack'[i] = stack[i]
      BY <2>1, <2>3
    <3>2. i > 1 => stack'[i - 1] = stack[i - 1]
      BY <2>1, <3>1
    <3>3. CallerInv(i)
      BY <3>1 DEF RerunInv
    <3>4. QED
      BY <1>6, <1>9, <3>1, <3>2, <3>3 DEF CallerInv
  <2>4. QED
    BY <2>2, <2>3
<1>16. boundaries' \ queue' \subseteq Cached(registry') /\ queue' \subseteq boundaries'
  BY <1>2 DEF RerunInv
<1>17. QED
  BY <1>2, <1>9, <1>12, <1>13, <1>14, <1>15, <1>16 DEF RerunInv
-----------------------------------------------------------------------------
(* The innermost caller s has what it required: the module m. *)
LEMMA ResumeKeepsRerun ==
    ASSUME FindTypeOK, CallTypeOK, CallInv, RerunInv,
           NEW s \in Seq(Frame), Distinct(s), NEW m \in Cached(registry),
           stack' = Resume(s, m),
           s # <<>> => m \in s[Len(s)].todo,
           \A p : Wanted(s, p) = Wanted(stack, p),
           Len(s) <= Len(stack), \A i \in 1..Len(s) : s[i] = stack[i],
           before' = before, replace' = replace, boundaries' = boundaries,
           queue' = queue, runs' = runs,
           registry'.run = before.run, registry'.graph = before.graph,
           Cached(registry') = Cached(registry),
           registry'.linked = registry.linked \cup
                                 (IF s = <<>> THEN {} ELSE {<<s[Len(s)].module, m>>}),
           \A p \in Module : ResultInv(p)'
    PROVE  RerunInv'
<1> DEFINE n == Len(s)
           c == s[n].module
<1>1. /\ \A i \in 1..(n - 1) : stack'[i] = s[i]
      /\ \A p : Wanted(stack', p) = IF s # <<>> /\ p = c THEN Wanted(stack, p) \ {m}
                                                         ELSE Wanted(stack, p)
  BY ResumeWanted
<1>2. /\ n \in Nat /\ Len(stack') = n
      /\ \A i \in 1..n : stack'[i].module = s[i].module
  BY ResumeFacts
<1>3. Base' = Base /\ \A p : Imports(p)' = Imports(p)
  BY SameBase
<1>4. HasRun' = HasRun
  BY DEF HasRun
<1>5. ASSUME s # <<>> PROVE c \in HasRun /\ m \in Imports(c) /\ n \in 1..n
  <2>1. n \in 1..n /\ n \in 1..Len(stack)
    BY <1>2, <1>5 DEF CallTypeOK
  <2>2. CallerInv(n) /\ s[n] = stack[n]
    BY <2>1 DEF RerunInv
  <2>3. QED
    BY <1>5, <2>1, <2>2 DEF CallerInv
<1>6. ASSUME NEW p \in Module, NEW q \in Module PROVE LinksInv(p, q)'
  <2>1. LinksInv(p, q)
    BY DEF RerunInv
  <2>2. <<p, q>> \in registry'.linked <=> \/ <<p, q>> \in registry.linked
                                          \/ s # <<>> /\ p = c /\ q = m
    OBVIOUS
  <2>3. QED
    BY <1>1, <1>3, <1>4, <1>5, <2>1, <2>2 DEF LinksInv
<1>7. ASSUME NEW p \in HasRun' PROVE RunInv(p)'
  <2>1. RunInv(p)
    BY <1>4 DEF RerunInv
  <2>2. QED
    BY <1>1, <1>3, <2>1 DEF RunInv
<1>8. ASSUME NEW i \in 1..Len(stack') PROVE CallerInv(i)'
  <2>1. i \in 1..n /\ i \in 1..Len(stack) /\ s[i] = stack[i]
    BY <1>2 DEF CallTypeOK
  <2>2. CallerInv(i) /\ stack'[i].module = stack[i].module
    BY <1>2, <2>1 DEF RerunInv
  <2>3. stack'[i].todo \subseteq stack[i].todo
    <3>1. CASE i = n
      <4>1. s # <<>>
        BY <2>1
      <4>2. stack'[n].todo = s[n].todo \ {m}
        BY <4>1, ResumeWanted
      <4>3. QED
        BY <2>1, <3>1, <4>2
    <3>2. CASE i # n
      BY <1>1, <1>2, <2>1, <3>2
    <3>3. QED
      BY <3>1, <3>2
  <2>4. i > 1 => stack'[i - 1] = stack[i - 1]
    <3>1. i > 1 => i - 1 \in 1..(n - 1) /\ i - 1 \in 1..n
      BY <1>2, <2>1
    <3>2. QED
      BY <1>1, <3>1
  <2>5. QED
    BY <1>3, <1>4, <2>2, <2>3, <2>4 DEF CallerInv
<1>9. boundaries' \ queue' \subseteq Cached(registry') /\ queue' \subseteq boundaries'
  BY DEF RerunInv
<1>10. QED
  BY <1>3, <1>6, <1>7, <1>8, <1>9 DEF RerunInv

LEMMA HitKeepsRerun ==
    ASSUME FindTypeOK, CallTypeOK, CallInv, RerunInv, Hit,
           before' = before, replace' = replace, boundaries' = boundaries, queue' = queue
    PROVE  RerunInv'
<1>1. PICK m \in Top.todo \cap Cached(registry) :
          stack' = Resume(stack, m) /\ registry' = Linked(registry, stack, m)
  BY DEF Hit
<1>2. stack # <<>> /\ runs' = runs
  BY DEF Hit
<1>3. stack \in Seq(Frame) /\ Distinct(stack) /\ Len(stack) \in Nat
  BY StackFacts DEF CallTypeOK
<1>4. /\ registry'.run = before.run /\ registry'.graph = before.graph
      /\ registry'.result = registry.result
      /\ registry'.linked = registry.linked \cup {<<stack[Len(stack)].module, m>>}
  BY <1>1, <1>2 DEF Linked, RerunInv, CallTypeOK, Registry
<1>5. Cached(registry') = Cached(registry)
  BY <1>4 DEF Cached
<1>6. ASSUME NEW p \in Module PROVE ResultInv(p)'
  <2>1. ResultInv(p)
    BY DEF RerunInv
  <2>2. OnStack(stack') = OnStack(stack)
    BY <1>1, <1>3, ResumeWanted
  <2>3. HasRun' = HasRun /\ Base' = Base
    BY <1>2, SameBase DEF HasRun
  <2>4. QED
    BY <1>4, <2>1, <2>2, <2>3 DEF ResultInv
<1>7. m \in stack[Len(stack)].todo /\ m \in Cached(registry)
  BY <1>1 DEF Top
<1>8. QED
  BY <1>1, <1>2, <1>3, <1>4, <1>5, <1>6, <1>7, ResumeKeepsRerun

LEMMA ReturnKeepsRerun ==
    ASSUME FindTypeOK, CallTypeOK, CallInv, RerunInv, Return,
           before' = before, replace' = replace, boundaries' = boundaries, queue' = queue
    PROVE  RerunInv'
<1> DEFINE n == Len(stack)
           t == Top.module
           done == [registry EXCEPT !.result = [@ EXCEPT ![t] = registry.run[t]]]
<1>1. /\ stack # <<>> /\ Top.todo = {} /\ runs' = runs
      /\ stack' = Resume(Callers, t) /\ registry' = Linked(done, Callers, t)
  BY DEF Return
<1>2. /\ stack \in Seq(Frame) /\ Distinct(stack)
      /\ n \in Nat \ {0} /\ n \in 1..n /\ Top = stack[n]
      /\ Callers \in Seq(Frame) /\ Len(Callers) = n - 1
      /\ \A i \in 1..(n - 1) : Callers[i] = stack[i]
  BY <1>1, StackFacts, TopFacts
<1>3. t \in Cached(registry) /\ t \in Module /\ before.run[t] # None /\ t \in HasRun
  <2>1. CallerInv(n)
    BY <1>2 DEF RerunInv
  <2>2. t \in HasRun
    BY <1>2, <2>1 DEF CallerInv
  <2>3. RunInv(t)
    BY <2>2 DEF RerunInv
  <2>4. QED
    BY <2>2, <2>3, StackFacts DEF RunInv, HasRun
<1>4. /\ done.run = before.run /\ done.graph = before.graph /\ done.linked = registry.linked
      /\ done.result = [registry.result EXCEPT ![t] = before.run[t]]
  BY DEF RerunInv, CallTypeOK, Registry
<1>5. Cached(done) = Cached(registry) /\ done \in Registry
  <2>1. registry \in Registry /\ registry.run[t] # None
    BY <1>3 DEF CallTypeOK, RerunInv
  <2>2. QED
    BY <1>3, <2>1, FinishedFacts
<1> HIDE DEF done
<1>6. /\ registry'.run = before.run /\ registry'.graph = before.graph
      /\ registry'.result = [registry.result EXCEPT ![t] = before.run[t]]
      /\ registry'.linked = registry.linked \cup
            (IF Callers = <<>> THEN {} ELSE {<<Callers[Len(Callers)].module, t>>})
  BY <1>1, <1>4, <1>5 DEF Linked, Registry
<1>7. Cached(registry') = Cached(registry)
  BY <1>4, <1>5, <1>6 DEF Cached
<1>8. /\ Distinct(Callers) /\ OnStack(Callers) = OnStack(stack) \ {t}
      /\ \A p : Wanted(Callers, p) = Wanted(stack, p)
  BY <1>1, <1>2, PopWanted
<1>9. ASSUME NEW p \in Module PROVE ResultInv(p)'
  <2>1. ResultInv(p) /\ registry.result \in [Module -> MaybeCode]
    BY DEF RerunInv, CallTypeOK, Registry
  <2>2. OnStack(stack') = OnStack(stack) \ {t}
    BY <1>1, <1>2, <1>8, ResumeWanted
  <2>3. HasRun' = HasRun /\ Base' = Base
    BY <1>1, SameBase DEF HasRun
  <2>4. QED
    BY <1>3, <1>6, <2>1, <2>2, <2>3 DEF ResultInv
<1>10. Callers # <<>> => t \in Callers[Len(Callers)].todo
  <2>1. CallerInv(n)
    BY <1>2 DEF RerunInv
  <2>2. Callers # <<>> => n > 1 /\ n - 1 \in 1..(n - 1)
    BY <1>2
  <2>3. QED
    BY <1>2, <2>1, <2>2 DEF CallerInv
<1>11. Len(Callers) <= n /\ \A i \in 1..Len(Callers) : Callers[i] = stack[i]
  BY <1>2
<1>12. QED
  BY <1>1, <1>2, <1>3, <1>6, <1>7, <1>8, <1>9, <1>10, <1>11, ResumeKeepsRerun
-----------------------------------------------------------------------------
(* Nothing has been run when the results have been dropped. *)
LEMMA RefreshStartsRerun ==
    ASSUME FindTypeOK, CallInit, replace' = replace, before' = before, UNCHANGED callVars,
           registry' = Base, boundaries' = boundaries, queue' = boundaries
    PROVE  RerunInv'
<1>1. Base' = Base
  BY SameBase
<1>2. stack' = <<>> /\ HasRun' = {}
  BY DEF CallInit, callVars, HasRun
<1>3. Len(stack') = 0
  BY <1>2
<1>4. registry'.run = before'.run /\ registry'.graph = before'.graph
  BY BaseFacts
<1>5. \A m \in Module : ResultInv(m)'
  BY <1>1, <1>2 DEF ResultInv
<1>6. \A p, q \in Module : LinksInv(p, q)'
  BY <1>1, <1>2 DEF LinksInv
<1>7. QED
  BY <1>2, <1>3, <1>4, <1>5, <1>6 DEF RerunInv

LEMMA RequireIsRegistry ==
    ASSUME NEW reg \in Registry, NEW S
    PROVE  LET r == Require(reg, S)
           IN  r = [run |-> r.run, result |-> r.result, graph |-> r.graph, linked |-> r.linked]
<1> DEFINE result == [m \in Module |-> IF m \in Executed(reg, S) THEN reg.run[m]
                                                               ELSE reg.result[m]]
           linked == reg.linked \cup
                         {l \in Executed(reg, S) \X Module :
                             /\ reg.run[l[1]] # None
                             /\ l[2] \in reg.run[l[1]].imports}
<1>1. Require(reg, S) = [reg EXCEPT !.result = result, !.linked = linked]
  BY DEF Require
<1> HIDE DEF result, linked
<1>2. QED
  BY <1>1 DEF Registry

(* When all boundaries have been required, exactly those modules have been *)
(* run that Require runs, and they hold what it says.                      *)
LEMMA RerunIsComplete ==
    ASSUME FindTypeOK, CallTypeOK, CallInv, RerunInv,
           boundaries = Boundaries(before, replace), queue = {}, stack = <<>>
    PROVE  registry = Refreshed(before, replace)
<1> DEFINE X == Executed(Base, boundaries)
           next == Require(Base, boundaries)
<1>1. \A p : Wanted(stack, p) = {} /\ OnStack(stack) = {}
  BY DEF Wanted, OnStack
<1>2. HasRun \subseteq Module /\ HasRun \subseteq X
  BY DEF HasRun, RerunInv, RunInv
<1>3. ASSUME NEW m \in Cached(registry), m \notin Cached(Base) PROVE m \in HasRun
  <2>1. m \in Module /\ registry.result[m] # None /\ Base.result[m] = None
    BY <1>3 DEF Cached, Loaded
  <2>2. ResultInv(m)
    BY <2>1 DEF RerunInv
  <2>3. QED
    BY <2>1, <2>2 DEF ResultInv
<1>4. boundaries \ Cached(Base) \subseteq HasRun
  BY <1>3 DEF RerunInv
<1>5. ASSUME NEW m \in HasRun PROVE ImportsToRun(Base)[m] \subseteq HasRun
  <2>1. RunInv(m) /\ m \in Module
    BY DEF RerunInv, HasRun
  <2>2. ImportsToRun(Base)[m] = Imports(m) \ Cached(Base)
    BY <2>1, BaseFacts DEF RunInv
  <2>3. Imports(m) \subseteq Cached(registry)
    BY <1>1, <2>1 DEF RunInv
  <2>4. QED
    BY <1>3, <2>2, <2>3
<1>6. X = HasRun
  <2>1. X \subseteq HasRun
    BY <1>2, <1>4, <1>5, ClosureLeast DEF Executed
  <2>2. QED
    BY <1>2, <2>1
<1>7. Base \in Registry /\ Base.run = before.run /\ Base.graph = before.graph
  BY BaseFacts
<1>8. /\ next.run = before.run /\ next.graph = before.graph
      /\ next.result = [m \in Module |-> IF m \in HasRun THEN before.run[m] ELSE Base.result[m]]
      /\ next.linked = Base.linked \cup
            {l \in HasRun \X Module : before.run[l[1]] # None /\ l[2] \in Imports(l[1])}
  BY <1>6, <1>7 DEF Require, Registry, Imports
<1>9. next = [run |-> next.run, result |-> next.result, graph |-> next.graph,
              linked |-> next.linked]
  BY <1>7, RequireIsRegistry
<1>10. registry = [run |-> registry.run, result |-> registry.result,
                   graph |-> registry.graph, linked |-> registry.linked]
  BY DEF CallTypeOK, Registry
<1>11. registry.run = next.run /\ registry.graph = next.graph
  BY <1>8 DEF RerunInv
<1>12. registry.result = next.result
  <2>1. \A m \in Module : registry.result[m] = IF m \in HasRun THEN before.run[m]
                                               ELSE Base.result[m]
    BY <1>1 DEF RerunInv, ResultInv
  <2>2. registry.result = [m \in Module |-> registry.result[m]]
    BY DEF CallTypeOK, Registry
  <2>3. QED
    BY <1>8, <2>1, <2>2
<1>13. registry.linked = next.linked
  <2>1. registry.linked \subseteq Module \X Module /\ Base.linked \subseteq Module \X Module
    BY <1>7 DEF CallTypeOK, Registry
  <2>2. next.linked \subseteq Module \X Module
    BY <1>2, <1>8, <2>1
  <2>3. ASSUME NEW p \in Module, NEW q \in Module
        PROVE  <<p, q>> \in registry.linked <=> <<p, q>> \in next.linked
    <3>1. p \in HasRun => before.run[p] # None
      BY DEF RerunInv, RunInv
    <3>2. <<p, q>> \in registry.linked <=>
              <<p, q>> \in Base.linked \/ (p \in HasRun /\ q \in Imports(p))
      BY <1>1 DEF RerunInv, LinksInv
    <3>3. QED
      BY <1>8, <3>1, <3>2
  <2>4. \A l \in Module \X Module : \E p, q \in Module : l = <<p, q>>
    OBVIOUS
  <2>5. ASSUME NEW l \in Module \X Module
        PROVE  l \in registry.linked <=> l \in next.linked
    <3>1. PICK p \in Module, q \in Module : l = <<p, q>>
      BY <2>4
    <3>2. QED
      BY <2>3, <3>1
  <2>6. QED
    BY <2>1, <2>2, <2>5
<1>14. next = Refreshed(before, replace)
  BY DEF Refreshed, Base
<1>15. QED
  BY <1>9, <1>10, <1>11, <1>12, <1>13, <1>14
-----------------------------------------------------------------------------
(* What holds in each phase of a refresh: while it walks, when it has      *)
(* ended, and while the boundaries are required.                           *)
WalkInv ==
    /\ FindTypeOK
    /\ CallTypeOK /\ CallInv
    /\ outcome = "none" => FindInv
    /\ WalkAgrees
    /\ outcome = "refreshed" /\ thrown = {} => RerunInv

LEMMA WalkInvInit == WalkInit => WalkInv
<1> SUFFICES ASSUME WalkInit PROVE WalkInv
  OBVIOUS
<1>1. /\ CallInit /\ before \in Registries /\ registry = before /\ outcome = "none"
      /\ replace \subseteq Module /\ first = replace /\ path = <<>>
      /\ rerun = {} /\ boundaries = {} /\ queue = {}
  BY DEF WalkInit
<1>2. before \in Registry
  BY <1>1, RegistriesAssumption
<1>3. CallTypeOK /\ CallInv
  BY <1>1, <1>2, CallInvInit
<1>4. FindTypeOK
  BY <1>1, <1>2 DEF FindTypeOK
<1>5. FindInv
  <2>1. Len(path) = 0
    BY <1>1
  <2>2. QED
    BY <1>1, <2>1 DEF FindInv
<1>6. QED
  BY <1>1, <1>3, <1>4, <1>5 DEF WalkInv, WalkAgrees

LEMMA FindKeepsInv ==
    ASSUME WalkInv, FindRefreshBoundaries
    PROVE  WalkInv'
<1>1. /\ FindTypeOK /\ CallTypeOK /\ CallInv /\ FindInv
      /\ outcome = "none"
  BY DEF WalkInv, FindRefreshBoundaries
<1>2. PICK m \in ToCall :
          /\ rerun' = rerun \cup {m}
          /\ first' = IF path = <<>> THEN first \ {m} ELSE first
          /\ StopAtBoundary(m) \/ Climb(m) \/ ReachRoot(m) \/ Overflow(m)
  BY DEF FindRefreshBoundaries
<1>3. /\ registry' = registry /\ UNCHANGED callVars /\ before' = before
      /\ replace' = replace /\ queue' = queue
  BY DEF FindRefreshBoundaries
<1>4. CallTypeOK' /\ CallInv'
  BY <1>1, <1>3, CallStutter
<1>5. /\ before' \in Registry /\ replace' \subseteq Module /\ first' \subseteq replace'
      /\ rerun' \subseteq Module /\ queue' \subseteq Module
  BY <1>1, <1>2, <1>3, ToCallFacts DEF FindTypeOK
<1>6. CASE StopAtBoundary(m)
  <2>1. path' \in Seq(WalkFrame) /\ FindInv'
    BY <1>1, <1>2, <1>3, <1>6, StopKeepsInv
  <2>2. outcome' = "none" /\ boundaries' = boundaries \cup {m} /\ m \in Module
    BY <1>1, <1>6, ToCallFacts DEF StopAtBoundary
  <2>3. FindTypeOK'
    BY <1>1, <1>5, <2>1, <2>2 DEF FindTypeOK
  <2>4. QED
    BY <1>4, <2>1, <2>2, <2>3 DEF WalkInv, WalkAgrees
<1>7. CASE Climb(m)
  <2>1. path' \in Seq(WalkFrame) /\ FindInv'
    BY <1>1, <1>2, <1>3, <1>7, ClimbKeepsInv
  <2>2. outcome' = "none" /\ boundaries' = boundaries
    BY <1>1, <1>7 DEF Climb
  <2>3. FindTypeOK'
    BY <1>1, <1>5, <2>1, <2>2 DEF FindTypeOK
  <2>4. QED
    BY <1>4, <2>1, <2>2, <2>3 DEF WalkInv, WalkAgrees
<1>8. CASE ReachRoot(m) \/ Overflow(m)
  <2>1. /\ outcome' \in Outcomes(before, replace)
        /\ outcome' \in {"full_refresh_needed", "failed"}
    BY <1>1, <1>8, RootIsReached, OverflowIsCycle
  <2>2. path' = <<>> /\ boundaries' = boundaries
    BY <1>8 DEF ReachRoot, Overflow
  <2>3. FindTypeOK'
    BY <1>1, <1>5, <2>1, <2>2 DEF FindTypeOK
  <2>4. WalkAgrees'
    BY <1>3, <2>1 DEF WalkAgrees
  <2>5. QED
    BY <1>4, <2>1, <2>3, <2>4 DEF WalkInv
<1>9. QED
  BY <1>2, <1>6, <1>7, <1>8

LEMMA AnswerTrueKeepsInv ==
    ASSUME WalkInv, AnswerTrue
    PROVE  WalkInv'
<1>1. /\ FindTypeOK /\ CallTypeOK /\ CallInv /\ FindInv
      /\ outcome = "none"
  BY DEF WalkInv, AnswerTrue
<1>2. /\ registry' = registry /\ outcome' = outcome /\ UNCHANGED callVars
      /\ before' = before /\ replace' = replace /\ first' = first
      /\ rerun' = rerun /\ boundaries' = boundaries /\ queue' = queue
  BY DEF AnswerTrue, clientVars
<1>3. CallTypeOK' /\ CallInv'
  BY <1>1, <1>2, CallStutter
<1>4. path' \in Seq(WalkFrame) /\ FindInv'
  BY <1>1, AnswerKeepsInv
<1>5. FindTypeOK'
  BY <1>1, <1>2, <1>4 DEF FindTypeOK
<1>6. QED
  BY <1>1, <1>2, <1>3, <1>4, <1>5 DEF WalkInv, WalkAgrees

(* Nor has any been called when the results are dropped. *)
LEMMA CallInvRestart ==
    (CallInit /\ registry \in Registry => CallTypeOK /\ CallInv)'
BY CallInvInit, PTL

LEMMA RefreshKeepsInv ==
    ASSUME WalkInv, Refresh
    PROVE  WalkInv'
<1>1. /\ FindTypeOK /\ CallTypeOK /\ CallInv /\ FindInv
      /\ path = <<>> /\ first = {}
  BY DEF WalkInv, Refresh
<1>2. /\ outcome' = "refreshed" /\ registry' = Forget(registry, ToRerun)
      /\ queue' = boundaries /\ UNCHANGED callVars
      /\ before' = before /\ replace' = replace /\ first' = first
      /\ path' = path /\ rerun' = rerun /\ boundaries' = boundaries
  BY DEF Refresh, findVars
<1>3. /\ "refreshed" \in Outcomes(before, replace)
      /\ rerun = Visited(before, replace)
      /\ boundaries = Boundaries(before, replace)
  BY <1>1, WalkIsComplete
<1>4. registry' = Base /\ registry' \in Registry
  <2>1. ToRerun = ToForget(before, replace)
    BY <1>3 DEF ToRerun, ToForget
  <2>2. QED
    BY <1>1, <1>2, <2>1, BaseFacts DEF Base, FindInv
<1>5. CallTypeOK' /\ CallInv'
  <2>1. CallInit'
    BY <1>1, <1>2 DEF FindInv, CallInit, callVars
  <2>2. QED
    BY <1>4, <2>1, CallInvRestart
<1>6. RerunInv'
  BY <1>1, <1>2, <1>4, RefreshStartsRerun DEF FindInv
<1>7. WalkAgrees'
  BY <1>2, <1>3 DEF WalkAgrees
<1>8. FindTypeOK'
  BY <1>1, <1>2 DEF FindTypeOK
<1>9. QED
  BY <1>2, <1>5, <1>6, <1>7, <1>8 DEF WalkInv

(* From then on the walk is over. *)
LEMMA RequiringKeepsInv ==
    ASSUME WalkInv, outcome # "none", outcome' = outcome, before' = before,
           replace' = replace, UNCHANGED findVars, queue' \subseteq queue,
           CallTypeOK', CallInv', thrown \subseteq thrown',
           outcome = "refreshed" /\ thrown' = {} /\ RerunInv => RerunInv'
    PROVE  WalkInv'
<1>1. FindTypeOK'
  BY DEF WalkInv, FindTypeOK, findVars
<1>2. WalkAgrees'
  BY DEF WalkInv, WalkAgrees, findVars
<1>3. QED
  BY <1>1, <1>2 DEF WalkInv

LEMMA RefreshBoundaryKeepsInv ==
    ASSUME WalkInv, RefreshBoundary
    PROVE  WalkInv'
<1>1. PICK b \in queue :
          /\ queue' = queue \ {b}
          /\ IF b \in Cached(registry) THEN UNCHANGED <<registry, callVars>>
                                       ELSE Call(b)
  BY DEF RefreshBoundary
<1>2. /\ outcome' = outcome /\ before' = before /\ replace' = replace
      /\ UNCHANGED findVars /\ stack = <<>>
  BY DEF RefreshBoundary
<1>3. FindTypeOK /\ CallTypeOK /\ CallInv /\ b \in Module
  BY <1>1 DEF WalkInv, FindTypeOK
<1>4. outcome # "none"
  BY <1>1 DEF WalkInv, FindInv
<1>5. boundaries' = boundaries
  BY <1>2 DEF findVars
<1>6. CASE b \in Cached(registry)
  <2>1. registry' = registry /\ UNCHANGED callVars
    BY <1>1, <1>6
  <2>2. CallTypeOK' /\ CallInv'
    BY <1>3, <2>1, CallStutter
  <2>3. ASSUME RerunInv PROVE RerunInv'
    <3>1. HasRun' = HasRun /\ Base' = Base /\ \A m : Imports(m)' = Imports(m)
      BY <1>2, <2>1, SameBase DEF HasRun, callVars
    <3>2. stack' = stack
      BY <2>1 DEF callVars
    <3>3. boundaries' \ queue' \subseteq Cached(registry') /\ queue' \subseteq boundaries'
      BY <1>1, <1>5, <1>6, <2>1, <2>3 DEF RerunInv
    <3>4. QED
      BY <1>2, <1>5, <2>1, <2>3, <3>1, <3>2, <3>3
         DEF RerunInv, ResultInv, LinksInv, RunInv, CallerInv
  <2>4. QED
    BY <1>1, <1>2, <1>4, <2>1, <2>2, <2>3, RequiringKeepsInv DEF callVars
<1>7. CASE b \notin Cached(registry)
  <2>1. Call(b)
    BY <1>1, <1>7
  <2>2. CallTypeOK' /\ CallInv'
    BY <1>3, <2>1, CallKeepsInv
  <2>3. ASSUME RerunInv PROVE RerunInv'
    <3>1. b \in boundaries
      BY <1>1, <2>3 DEF RerunInv
    <3>2. queue' \subseteq queue /\ queue \ queue' \subseteq {b}
      BY <1>1
    <3>3. QED
      BY <1>2, <1>3, <1>5, <2>1, <2>3, <3>1, <3>2, CallKeepsRerun
  <2>4. thrown' = thrown
    BY <2>1 DEF Call
  <2>5. QED
    BY <1>1, <1>2, <1>4, <2>2, <2>3, <2>4, RequiringKeepsInv
<1>8. QED
  BY <1>6, <1>7

LEMMA RerunKeepsInv ==
    ASSUME WalkInv, Rerun
    PROVE  WalkInv'
<1>1. /\ CallStep /\ outcome' = outcome /\ before' = before /\ replace' = replace
      /\ UNCHANGED findVars /\ queue' = queue
  BY DEF Rerun
<1>2. FindTypeOK /\ CallTypeOK /\ CallInv
  BY DEF WalkInv
<1>3. boundaries' = boundaries
  BY <1>1 DEF findVars
<1>4. stack # <<>>
  BY <1>1 DEF CallStep, CallImport, Hit, Return, LibraryThrows, AppThrows
<1>5. outcome # "none"
  BY <1>4 DEF WalkInv, FindInv, CallInit
<1>6. CallTypeOK' /\ CallInv'
  <2>1. CallNext
    BY <1>1 DEF CallNext
  <2>2. QED
    BY <1>2, <2>1, CallInvNext
<1>7. thrown \subseteq thrown'
  BY <1>1 DEF CallStep, CallImport, Call, Hit, Return, LibraryThrows, AppThrows
<1>8. ASSUME RerunInv, thrown' = {} PROVE RerunInv'
  <2>1. CASE CallImport
    <3>1. PICK m \in Top.todo : Call(m)
      BY <2>1 DEF CallImport
    <3>2. Top \in Frame
      BY <1>2, <1>4, TopFacts DEF CallTypeOK
    <3>3. m \in Module
      BY <3>2 DEF Frame
    <3>4. QED
      BY <1>1, <1>2, <1>3, <1>4, <1>8, <3>1, <3>3, CallKeepsRerun
  <2>2. CASE Hit
    BY <1>1, <1>2, <1>3, <1>8, <2>2, HitKeepsRerun
  <2>3. CASE Return
    BY <1>1, <1>2, <1>3, <1>8, <2>3, ReturnKeepsRerun
  <2>4. CASE LibraryThrows \/ AppThrows
    BY <1>8, <2>4 DEF LibraryThrows, AppThrows
  <2>5. QED
    BY <1>1, <2>1, <2>2, <2>3, <2>4 DEF CallStep
<1>9. QED
  BY <1>1, <1>5, <1>6, <1>7, <1>8, RequiringKeepsInv

LEMMA WalkInvNext == WalkInv /\ [WalkNext]_walkVars => WalkInv'
<1> SUFFICES ASSUME WalkInv, [WalkNext]_walkVars PROVE WalkInv'
  OBVIOUS
<1>1. CASE WalkNext
  BY <1>1, FindKeepsInv, AnswerTrueKeepsInv, RefreshKeepsInv, RefreshBoundaryKeepsInv,
     RerunKeepsInv DEF WalkNext
<1>2. CASE UNCHANGED walkVars
  <2>1. /\ registry' = registry /\ outcome' = outcome /\ UNCHANGED callVars
        /\ before' = before /\ replace' = replace /\ UNCHANGED findVars /\ queue' = queue
    BY <1>2 DEF walkVars, clientVars
  <2>2. CallTypeOK' /\ CallInv'
    BY <2>1, CallStutter DEF WalkInv
  <2>3. FindTypeOK' /\ WalkAgrees'
    BY <2>1 DEF WalkInv, FindTypeOK, WalkAgrees, findVars
  <2>4. Up' = Up /\ Explored(rerun)' = Explored(rerun)
    BY <2>1, SameBefore DEF findVars, Explored
  <2>5. ASSUME FindInv PROVE FindInv'
    BY <2>1, <2>4, <2>5 DEF FindInv, PathInv, CallInit, callVars, findVars
  <2>6. ASSUME RerunInv PROVE RerunInv'
    <3>1. HasRun' = HasRun /\ Base' = Base /\ \A m : Imports(m)' = Imports(m)
      BY <2>1, SameBase DEF HasRun, callVars
    <3>2. stack' = stack /\ boundaries' = boundaries
      BY <2>1 DEF callVars, findVars
    <3>3. QED
      BY <2>1, <2>6, <3>1, <3>2 DEF RerunInv, ResultInv, LinksInv, RunInv, CallerInv
  <2>7. thrown' = thrown
    BY <2>1 DEF callVars
  <2>8. QED
    BY <2>1, <2>2, <2>3, <2>5, <2>6, <2>7 DEF WalkInv
<1>3. QED
  BY <1>1, <1>2

(* For every module graph, every choice of boundaries and every order of   *)
(* importers, find_refresh_boundaries ends as the closures say it may, and *)
(* collects exactly the modules up to the nearest boundaries.              *)
THEOREM WalkMatchesClosures == WalkSpec => []WalkAgrees
<1>1. WalkInv => WalkAgrees
  BY DEF WalkInv
<1>2. QED
  BY <1>1, WalkInvInit, WalkInvNext, PTL DEF WalkSpec

(* In whatever order the boundaries and their imports are required, the    *)
(* registry is in the end the one of RequireRuntime's single step, unless  *)
(* a module has thrown.                                                    *)
THEOREM RerunsMatchRefreshed == WalkSpec => []RerunAgrees
<1>1. WalkInv => RerunAgrees
  BY RerunIsComplete DEF WalkInv, WalkAgrees, RerunAgrees
<1>2. QED
  BY <1>1, WalkInvInit, WalkInvNext, PTL DEF WalkSpec

(* During a refresh too, components are registered under the module that   *)
(* runs, whatever the boundaries share and whichever of them throws.       *)
THEOREM RefreshRegistersOwn == WalkSpec => []RegistersOwn
<1>1. WalkInv => RegistersOwn
  BY DEF WalkInv, CallInv
<1>2. QED
  BY <1>1, WalkInvInit, WalkInvNext, PTL DEF WalkSpec

(* However many boundaries need it, a refresh runs a module once, and only *)
(* a library that throws a second time.                                    *)
THEOREM RefreshRunsOnce == WalkSpec => []RunsOnce
<1>1. WalkInv => RunsOnce
  BY DEF WalkInv, CallInv
<1>2. QED
  BY <1>1, WalkInvInit, WalkInvNext, PTL DEF WalkSpec
=============================================================================
