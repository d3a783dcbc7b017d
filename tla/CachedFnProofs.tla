--------------------------- MODULE CachedFnProofs ---------------------------
(***************************************************************************)
(* Proofs about CachedFn, for any processes, caches, keys and calls.       *)
(*                                                                         *)
(* An answer comes from an entry, and an entry from a call or, through a   *)
(* file, from the memory of any process.  Hence the invariant: every entry *)
(* in a memory or in a file is of the key that it is stored under, and was *)
(* computed from the data that it is compared by.                          *)
(***************************************************************************)
EXTENDS CachedFn, TLAPS

FitsKey(k, entry) ==
    entry # None => entry.output.key = k /\ entry.output.data = entry.cachedData

Fits(contents) == \A k \in Key : FitsKey(k, contents[k])

FilesFit == \A c \in Cache : file[c] # None => Fits(file[c])

MemoriesFit == \A p \in Process, c \in Cache : Fits(memory[p][c])

Inv == FilesFit /\ MemoriesFit /\ AnswersExact

(* The lists of caches that an exiting process writes are lists of caches. *)
LEMMA WriteLists == Caches \in Seq(Cache) /\ SigintWrites \in Seq(Cache)
<1>1. Caches \in Seq(Cache) /\ Caches # <<>>
  BY CachesAssumption
<1>2. Caches[1] \in Cache
  BY <1>1
<1>3. <<Caches[1]>> \o Caches \in Seq(Cache)
  BY <1>1, <1>2
<1>4. QED
  BY <1>1, <1>3 DEF SigintWrites
-----------------------------------------------------------------------------
(* Calls remain calls when those of a process are taken away. *)
LEMMA CallsWithout ==
    ASSUME TypeOK, NEW p \in Process
    PROVE  WithoutCallsOf(p) \in [Call -> Pending \cup {None}]
BY DEF TypeOK, WithoutCallsOf

LEMMA TypeOfNoMemory == NoMemory \in [Cache -> Contents]
BY DEF NoMemory, NoContents, Contents

(* The initial state is well typed. *)
LEMMA TypeInit == Init => TypeOK
BY TypeOfNoMemory DEF Init, TypeOK

LEMMA TypeStart ==
    ASSUME TypeOK, NEW p \in Process, Start(p)
    PROVE  TypeOK'
<1>1. \A c \in Cache : Deserialized(c) \in Contents
  BY DEF TypeOK, Deserialized, NoContents, Contents
<1>2. memory' \in [Process -> [Cache -> Contents]]
  BY <1>1 DEF TypeOK, Start
<1>3. plugins' \in [Process -> Plugins]
  BY DEF TypeOK, Start
<1>4. QED
  BY <1>2, <1>3 DEF TypeOK, Start

LEMMA TypeCachedAnswer ==
    ASSUME TypeOK, NEW p \in Process, NEW c \in Cache, NEW k \in Key, NEW d \in Data,
           CachedAnswer(p, c, k, d)
    PROVE  TypeOK'
<1>1. memory[p][c][k] \in Entry
  BY DEF TypeOK, CachedAnswer, Hits, Contents
<1>2. memory[p][c][k].output \in Output
  BY <1>1 DEF Entry
<1>3. plugins[p] \in Plugins
  BY DEF TypeOK
<1>4. answer' \in Answer
  BY <1>2, <1>3 DEF CachedAnswer, Answer
<1>5. QED
  BY <1>4 DEF TypeOK, CachedAnswer

LEMMA TypeCallFn ==
    ASSUME TypeOK, NEW x \in Call, NEW p \in Process, NEW c \in Cache,
           NEW k \in Key, NEW d \in Data, CallFn(x, p, c, k, d)
    PROVE  TypeOK'
<1>1. [process |-> p, cache |-> c, key |-> k, data |-> d] \in Pending
  BY DEF Pending
<1>2. calls' \in [Call -> Pending \cup {None}]
  BY <1>1 DEF TypeOK, CallFn
<1>3. QED
  BY <1>2 DEF TypeOK, CallFn

(* The entry that a finished call makes. *)
EntryOf(call) == [cachedData |-> call.data, output |-> Computed(call)]

LEMMA TypeOfEntry ==
    ASSUME TypeOK, NEW call \in Pending
    PROVE  EntryOf(call) \in Entry
<1>1. plugins[call.process] \in Plugins /\ call.key \in Key /\ call.data \in Data
  BY DEF TypeOK, Pending
<1>2. Computed(call) \in Output
  BY <1>1 DEF Computed, Output
<1>3. QED
  BY <1>1, <1>2 DEF EntryOf, Entry

LEMMA TypeFnReturns ==
    ASSUME TypeOK, NEW x \in Call, FnReturns(x)
    PROVE  TypeOK'
<1> DEFINE call == calls[x]
<1>1. call \in Pending
  BY DEF TypeOK, FnReturns
<1>2. /\ call.process \in Process /\ call.cache \in Cache /\ call.key \in Key
      /\ call.data \in Data
  BY <1>1 DEF Pending
<1>3. EntryOf(call) \in Entry
  BY <1>1, TypeOfEntry
<1>4. memory' = [memory EXCEPT ![call.process][call.cache][call.key] = EntryOf(call)]
  BY DEF FnReturns, EntryOf
<1>5. memory' \in [Process -> [Cache -> Contents]]
  BY <1>2, <1>3, <1>4 DEF TypeOK, Contents
<1>6. plugins[call.process] \in Plugins
  BY <1>2 DEF TypeOK
<1>7. answer' = [key |-> call.key, data |-> call.data,
                 plugins |-> plugins[call.process], output |-> Computed(call)]
  BY DEF FnReturns
<1>8. Computed(call) \in Output
  BY <1>3 DEF EntryOf, Entry
<1>9. answer' \in Answer
  BY <1>2, <1>6, <1>7, <1>8 DEF Answer
<1>10. calls' \in [Call -> Pending \cup {None}]
  BY DEF TypeOK, FnReturns
<1>11. QED
  BY <1>5, <1>9, <1>10 DEF TypeOK, FnReturns

LEMMA TypeExit ==
    ASSUME TypeOK, NEW p \in Process, NEW order \in Seq(Cache), order # <<>>, Exit(p, order)
    PROVE  TypeOK'
<1>1. calls' \in [Call -> Pending \cup {None}]
  BY CallsWithout DEF Exit
<1>2. toWrite' \in [Process -> Seq(Cache)]
  BY DEF TypeOK, Exit
<1>3. \A q \in Process : writing'[q] => toWrite'[q] # <<>>
  BY DEF TypeOK, Exit
<1>4. QED
  BY <1>1, <1>2, <1>3 DEF TypeOK, Exit

LEMMA TypeBeginWrite ==
    ASSUME TypeOK, NEW p \in Process, BeginWrite(p)
    PROVE  TypeOK'
<1>1. file' \in [Cache -> Contents \cup {None}]
  BY DEF TypeOK, BeginWrite
<1>2. /\ writing' \in [Process -> BOOLEAN]
      /\ \A q \in Process : writing'[q] => toWrite'[q] # <<>>
  BY DEF TypeOK, BeginWrite
<1>3. QED
  BY <1>1, <1>2 DEF TypeOK, BeginWrite

LEMMA TypePersisted ==
    ASSUME TypeOK, NEW p \in Process, toWrite[p] # <<>>, Persisted(p)
    PROVE  /\ toWrite' \in [Process -> Seq(Cache)]
           /\ writing' \in [Process -> BOOLEAN]
           /\ \A q \in Process : writing'[q] => toWrite'[q] # <<>>
<1>1. Tail(toWrite[p]) \in Seq(Cache)
  BY DEF TypeOK
<1>2. QED
  BY <1>1 DEF TypeOK, Persisted

LEMMA TypeEndWrite ==
    ASSUME TypeOK, NEW p \in Process, EndWrite(p)
    PROVE  TypeOK'
<1>1. toWrite[p] \in Seq(Cache) /\ toWrite[p] # <<>>
  BY DEF TypeOK, EndWrite
<1>2. Head(toWrite[p]) \in Cache
  BY <1>1
<1>3. file' \in [Cache -> Contents \cup {None}]
  BY <1>2 DEF TypeOK, EndWrite
<1>4. unsaved' \in [Process -> SUBSET Cache]
  BY <1>2 DEF TypeOK, EndWrite
<1>5. QED
  BY <1>1, <1>3, <1>4, TypePersisted DEF TypeOK, EndWrite, Persisted

LEMMA TypeWriteFails ==
    ASSUME TypeOK, NEW p \in Process, WriteFails(p)
    PROVE  TypeOK'
<1>1. toWrite[p] \in Seq(Cache) /\ toWrite[p] # <<>>
  BY DEF TypeOK, WriteFails
<1>2. unsaved' \in [Process -> SUBSET Cache]
  BY <1>1 DEF TypeOK, WriteFails
<1>3. QED
  BY <1>1, <1>2, TypePersisted DEF TypeOK, WriteFails, Persisted

LEMMA TypeGone ==
    ASSUME TypeOK, NEW p \in Process, Gone(p)
    PROVE  TypeOK'
<1>1. calls' \in [Call -> Pending \cup {None}]
  BY CallsWithout DEF Gone
<1>2. memory' \in [Process -> [Cache -> Contents]]
  BY TypeOfNoMemory DEF TypeOK, Gone
<1>3. /\ toWrite' \in [Process -> Seq(Cache)]
      /\ unsaved' \in [Process -> SUBSET Cache]
      /\ writing' \in [Process -> BOOLEAN]
      /\ \A q \in Process : writing'[q] => toWrite'[q] # <<>>
  BY DEF TypeOK, Gone
<1>4. QED
  BY <1>1, <1>2, <1>3 DEF TypeOK, Gone

LEMMA TypeNext == TypeOK /\ [Next]_vars => TypeOK'
<1> SUFFICES ASSUME TypeOK, [Next]_vars PROVE TypeOK'
  OBVIOUS
<1>1. ASSUME NEW p \in Process, Start(p) PROVE TypeOK'
  BY <1>1, TypeStart
<1>2. ASSUME NEW p \in Process, Sigint(p) PROVE TypeOK'
  <2>1. SigintWrites \in Seq(Cache) /\ SigintWrites # <<>>
    BY WriteLists, CachesAssumption DEF SigintWrites
  <2>2. QED
    BY <1>2, <2>1, TypeExit DEF Sigint
<1>3. ASSUME NEW p \in Process, Finish(p) PROVE TypeOK'
  BY <1>3, CachesAssumption, TypeExit DEF Finish
<1>4. ASSUME NEW p \in Process, BeginWrite(p) PROVE TypeOK'
  BY <1>4, TypeBeginWrite
<1>5. ASSUME NEW p \in Process, EndWrite(p) \/ WriteFails(p) PROVE TypeOK'
  BY <1>5, TypeEndWrite, TypeWriteFails
<1>6. ASSUME NEW p \in Process, Exited(p) \/ Killed(p) PROVE TypeOK'
  BY <1>6, TypeGone DEF Exited, Killed
<1>7. ASSUME NEW p \in Process, NEW c \in Cache, NEW k \in Key, NEW d \in Data,
             CachedAnswer(p, c, k, d)
      PROVE  TypeOK'
  BY <1>7, TypeCachedAnswer
<1>8. ASSUME NEW p \in Process, NEW c \in Cache, NEW k \in Key, NEW d \in Data,
             NEW x \in Call, CallFn(x, p, c, k, d)
      PROVE  TypeOK'
  BY <1>8, TypeCallFn
<1>9. ASSUME NEW x \in Call, FnReturns(x) PROVE TypeOK'
  BY <1>9, TypeFnReturns
<1>10. ASSUME NEW x \in Call, FnThrows(x) PROVE TypeOK'
  BY <1>10 DEF TypeOK, FnThrows
<1>11. CASE UNCHANGED vars
  BY <1>11 DEF TypeOK, vars
<1>12. QED
  BY <1>1, <1>2, <1>3, <1>4, <1>5, <1>6, <1>7, <1>8, <1>9, <1>10, <1>11 DEF Next

(* A cache file is either absent or a whole map, and every process works   *)
(* on a whole map (cached-fn.ts:34-39).                                    *)
THEOREM CacheTypeCorrect == Spec => []TypeOK
<1>1. QED
  BY TypeInit, TypeNext, PTL DEF Spec
-----------------------------------------------------------------------------
(***************************************************************************)
(* The invariant holds at first and every action preserves it.             *)
(***************************************************************************)
LEMMA NoContentsFit == Fits(NoContents) /\ \A c \in Cache : Fits(NoMemory[c])
BY DEF Fits, FitsKey, NoContents, NoMemory

LEMMA FitInit == Init => Inv
<1> SUFFICES ASSUME Init PROVE Inv
  OBVIOUS
<1>1. FilesFit /\ AnswersExact
  BY DEF Init, FilesFit, AnswersExact
<1>2. MemoriesFit
  BY NoContentsFit DEF Init, MemoriesFit
<1>3. QED
  BY <1>1, <1>2 DEF Inv

(* What a process starts with is what some process wrote, or nothing. *)
LEMMA FitStart ==
    ASSUME TypeOK, Inv, NEW p \in Process, Start(p)
    PROVE  Inv'
<1>1. \A c \in Cache : Fits(Deserialized(c))
  BY NoContentsFit DEF Inv, FilesFit, Deserialized
<1>2. MemoriesFit'
  <2> SUFFICES ASSUME NEW q \in Process, NEW c \in Cache
               PROVE  Fits(memory'[q][c])
    BY DEF MemoriesFit
  <2>1. memory'[q][c] = IF q = p THEN Deserialized(c) ELSE memory[q][c]
    BY DEF TypeOK, Start
  <2>2. QED
    BY <1>1, <2>1 DEF Inv, MemoriesFit
<1>3. FilesFit' /\ AnswersExact'
  BY DEF Inv, Start, FilesFit, Fits, FitsKey, AnswersExact
<1>4. QED
  BY <1>2, <1>3 DEF Inv

(* A hit: the entry fits its key, and its data is that of the call. *)
LEMMA FitCachedAnswer ==
    ASSUME TypeOK, Inv, NEW p \in Process, NEW c \in Cache, NEW k \in Key,
           NEW d \in Data, CachedAnswer(p, c, k, d)
    PROVE  Inv'
<1>1. FitsKey(k, memory[p][c][k])
  BY DEF Inv, MemoriesFit, Fits
<1>2. memory[p][c][k] # None /\ memory[p][c][k].cachedData = d
  BY DEF CachedAnswer, Hits
<1>3. /\ memory[p][c][k].output.key = k
      /\ memory[p][c][k].output.data = d
  BY <1>1, <1>2 DEF FitsKey
<1>4. AnswersExact'
  BY <1>3 DEF CachedAnswer, AnswersExact
<1>5. FilesFit' /\ MemoriesFit'
  BY DEF Inv, CachedAnswer, FilesFit, MemoriesFit, Fits, FitsKey
<1>6. QED
  BY <1>4, <1>5 DEF Inv

(* A miss: the new entry is computed from the data it is compared by, and  *)
(* no other entry changes.                                                 *)
LEMMA FitFnReturns ==
    ASSUME TypeOK, Inv, NEW x \in Call, FnReturns(x)
    PROVE  Inv'
<1> DEFINE call == calls[x]
<1>1. /\ call \in Pending
      /\ call.process \in Process /\ call.cache \in Cache /\ call.key \in Key
  BY DEF TypeOK, FnReturns, Pending
<1>2. FitsKey(call.key, EntryOf(call))
  BY DEF FitsKey, EntryOf, Computed
<1>3. memory' = [memory EXCEPT ![call.process][call.cache][call.key] = EntryOf(call)]
  BY DEF FnReturns, EntryOf
<1>4. MemoriesFit'
  <2> SUFFICES ASSUME NEW q \in Process, NEW c \in Cache, NEW k \in Key
               PROVE  FitsKey(k, memory'[q][c][k])
    BY DEF MemoriesFit, Fits
  <2>1. FitsKey(k, memory[q][c][k])
    BY DEF Inv, MemoriesFit, Fits
  <2>2. memory'[q][c][k] =
            IF q = call.process /\ c = call.cache /\ k = call.key
            THEN EntryOf(call) ELSE memory[q][c][k]
    BY <1>1, <1>3 DEF TypeOK, Contents
  <2>3. QED
    BY <1>2, <2>1, <2>2
<1>5. answer' = [key |-> call.key, data |-> call.data,
                 plugins |-> plugins[call.process], output |-> Computed(call)]
  BY DEF FnReturns
<1>6. AnswersExact'
  BY <1>5 DEF AnswersExact, Computed
<1>7. FilesFit'
  BY DEF Inv, FnReturns, FilesFit, Fits, FitsKey
<1>8. QED
  BY <1>4, <1>6, <1>7 DEF Inv

(* Writing: the file is emptied, then holds the memory of its writer. *)
LEMMA FitBeginWrite ==
    ASSUME TypeOK, Inv, NEW p \in Process, BeginWrite(p)
    PROVE  Inv'
<1>1. \A c \in Cache : file'[c] # None => file'[c] = file[c]
  BY DEF TypeOK, BeginWrite
<1>2. FilesFit'
  BY <1>1 DEF Inv, FilesFit, Fits, FitsKey
<1>3. MemoriesFit' /\ AnswersExact'
  BY DEF Inv, BeginWrite, MemoriesFit, Fits, FitsKey, AnswersExact
<1>4. QED
  BY <1>2, <1>3 DEF Inv

LEMMA FitEndWrite ==
    ASSUME TypeOK, Inv, NEW p \in Process, EndWrite(p)
    PROVE  Inv'
<1>1. \A c \in Cache : file'[c] = file[c] \/ file'[c] = memory[p][c]
  BY DEF TypeOK, EndWrite
<1>2. FilesFit'
  <2> SUFFICES ASSUME NEW c \in Cache, file'[c] # None
               PROVE  Fits(file'[c])
    BY DEF FilesFit
  <2>1. CASE file'[c] = file[c]
    BY <2>1 DEF Inv, FilesFit
  <2>2. CASE file'[c] = memory[p][c]
    BY <2>2 DEF Inv, MemoriesFit
  <2>3. QED
    BY <1>1, <2>1, <2>2
<1>3. MemoriesFit' /\ AnswersExact'
  BY DEF Inv, EndWrite, Persisted, MemoriesFit, Fits, FitsKey, AnswersExact
<1>4. QED
  BY <1>2, <1>3 DEF Inv

LEMMA FitGone ==
    ASSUME TypeOK, Inv, NEW p \in Process, Gone(p)
    PROVE  Inv'
<1>1. MemoriesFit'
  <2> SUFFICES ASSUME NEW q \in Process, NEW c \in Cache
               PROVE  Fits(memory'[q][c])
    BY DEF MemoriesFit
  <2>1. memory'[q][c] = IF q = p THEN NoMemory[c] ELSE memory[q][c]
    BY DEF TypeOK, Gone
  <2>2. QED
    BY NoContentsFit, <2>1 DEF Inv, MemoriesFit
<1>2. FilesFit' /\ AnswersExact'
  BY DEF Inv, Gone, FilesFit, Fits, FitsKey, AnswersExact
<1>3. QED
  BY <1>1, <1>2 DEF Inv

(* The other actions touch no memory, no file and no answer. *)
LEMMA FitUntouched ==
    ASSUME Inv, UNCHANGED <<memory, file, answer>>
    PROVE  Inv'
BY DEF Inv, MemoriesFit, FilesFit, Fits, FitsKey, AnswersExact

LEMMA FitNext == TypeOK /\ Inv /\ [Next]_vars => Inv'
<1> SUFFICES ASSUME TypeOK, Inv, [Next]_vars PROVE Inv'
  OBVIOUS
<1>1. ASSUME NEW p \in Process, Start(p) PROVE Inv'
  BY <1>1, FitStart
<1>2. ASSUME NEW p \in Process, Sigint(p) \/ Finish(p) PROVE Inv'
  BY <1>2, FitUntouched DEF Sigint, Finish, Exit
<1>3. ASSUME NEW p \in Process, BeginWrite(p) PROVE Inv'
  BY <1>3, FitBeginWrite
<1>4. ASSUME NEW p \in Process, EndWrite(p) PROVE Inv'
  BY <1>4, FitEndWrite
<1>5. ASSUME NEW p \in Process, Exited(p) \/ Killed(p) PROVE Inv'
  BY <1>5, FitGone DEF Exited, Killed
<1>6. ASSUME NEW p \in Process, NEW c \in Cache, NEW k \in Key, NEW d \in Data,
             CachedAnswer(p, c, k, d)
      PROVE  Inv'
  BY <1>6, FitCachedAnswer
<1>7. ASSUME NEW p \in Process, NEW c \in Cache, NEW k \in Key, NEW d \in Data,
             NEW x \in Call, CallFn(x, p, c, k, d)
      PROVE  Inv'
  BY <1>7, FitUntouched DEF CallFn
<1>8. ASSUME NEW x \in Call, FnReturns(x) PROVE Inv'
  BY <1>8, FitFnReturns
<1>9. ASSUME NEW x \in Call, FnThrows(x) PROVE Inv'
  BY <1>9, FitUntouched DEF FnThrows
<1>10. ASSUME NEW p \in Process, WriteFails(p) PROVE Inv'
  BY <1>10, FitUntouched DEF WriteFails, Persisted
<1>11. CASE UNCHANGED vars
  BY <1>11, FitUntouched DEF vars
<1>12. QED
  BY <1>1, <1>2, <1>3, <1>4, <1>5, <1>6, <1>7, <1>8, <1>9, <1>10, <1>11 DEF Next

(* Whatever calls overlap, whatever process writes the files last and      *)
(* however it ends, a cached answer is what fn makes of the data of the    *)
(* call (cached-fn.ts:59-76).                                              *)
THEOREM CacheAnswersExactly == Spec => []AnswersExact
<1>1. Init => TypeOK /\ Inv
  BY TypeInit, FitInit
<1>2. TypeOK /\ Inv /\ [Next]_vars => (TypeOK /\ Inv)'
  BY TypeNext, FitNext
<1>3. Inv => AnswersExact
  BY DEF Inv
<1>4. QED
  BY <1>1, <1>2, <1>3, PTL DEF Spec
-----------------------------------------------------------------------------
(***************************************************************************)
(* What an exit saves.  While a process exits, a cache that it has not to  *)
(* write any more is in its file, or the last attempt to write it failed;  *)
(* it may be so because nothing else is computed by then, and because no   *)
(* other process writes the same files.                                    *)
(***************************************************************************)
OneProcess == \A p, q \in Process : p = q

ToWrite(p) == {toWrite[p][i] : i \in DOMAIN toWrite[p]}

Kept(p, c) == file[c] = memory[p][c] \/ c \in unsaved[p]

ExitInv ==
    /\ \A p \in Process : state[p] # "exiting" => toWrite[p] = <<>>
    /\ \A x \in Call : calls[x] # None => state[calls[x].process] = "up"
    /\ \A p \in Process : state[p] = "exiting" =>
            \A c \in Cache : c \in ToWrite(p) \/ Kept(p, c)

(* Every cache is among those that are written, also by the first handler  *)
(* of SIGINT and the handlers of 'exit' together.                          *)
LEMMA AllAreWritten ==
    /\ \A c \in Cache : \E i \in DOMAIN Caches : Caches[i] = c
    /\ \A c \in Cache : \E i \in DOMAIN SigintWrites : SigintWrites[i] = c
<1>1. \A c \in Cache : \E i \in DOMAIN Caches : Caches[i] = c
  BY DEF Cache
<1>2. ASSUME NEW i \in DOMAIN Caches
      PROVE  i + 1 \in DOMAIN SigintWrites /\ SigintWrites[i + 1] = Caches[i]
  <2>1. Caches \in Seq(Cache) /\ Caches[1] \in Cache
    BY CachesAssumption
  <2>2. QED
    BY <2>1 DEF SigintWrites
<1>3. QED
  BY <1>1, <1>2

(* What leaves the list is its head. *)
LEMMA OnlyHeadLeaves ==
    ASSUME NEW S, NEW s \in Seq(S), s # <<>>, NEW i \in DOMAIN s, s[i] # Head(s)
    PROVE  \E j \in DOMAIN Tail(s) : Tail(s)[j] = s[i]
<1>1. i \in 2..Len(s)
  OBVIOUS
<1>2. i - 1 \in DOMAIN Tail(s) /\ Tail(s)[i - 1] = s[i]
  BY <1>1
<1>3. QED
  BY <1>2

LEMMA ExitKeeps ==
    ASSUME TypeOK, ExitInv, NEW p \in Process, NEW order \in Seq(Cache), Exit(p, order),
           \A c \in Cache : \E i \in DOMAIN order : order[i] = c
    PROVE  ExitInv'
<1>1. \A q \in Process : state'[q] # "exiting" => toWrite'[q] = <<>>
  BY DEF TypeOK, ExitInv, Exit
<1>2. \A x \in Call : calls'[x] # None => state'[calls'[x].process] = "up"
  BY DEF TypeOK, ExitInv, Exit, WithoutCallsOf, Pending
<1>3. ASSUME NEW q \in Process, state'[q] = "exiting", NEW c \in Cache
      PROVE  c \in ToWrite(q)' \/ Kept(q, c)'
  <2>1. CASE q = p
    BY <2>1 DEF TypeOK, Exit, ToWrite
  <2>2. CASE q # p
    BY <1>3, <2>2 DEF TypeOK, ExitInv, Exit, ToWrite, Kept
  <2>3. QED
    BY <2>1, <2>2
<1>4. QED
  BY <1>1, <1>2, <1>3 DEF ExitInv

(* A write, done or failed, is about the head of the list.                 *)
LEMMA PersistedKeeps ==
    ASSUME OneProcess, TypeOK, ExitInv, NEW p \in Process,
           toWrite[p] # <<>>, Persisted(p),
           \A c \in Cache : c = Head(toWrite[p]) \/ Kept(p, c) => Kept(p, c)'
    PROVE  ExitInv'
<1> DEFINE list == toWrite[p]
<1>1. list \in Seq(Cache) /\ list # <<>> /\ Head(list) \in Cache
  BY DEF TypeOK
<1>2. state[p] = "exiting"
  BY <1>1 DEF ExitInv
<1>3. toWrite'[p] = Tail(list)
  BY DEF TypeOK, Persisted
<1>4. ASSUME NEW c \in Cache PROVE c \in ToWrite(p)' \/ Kept(p, c)'
  <2>1. CASE c = Head(list)
    BY <2>1
  <2>2. CASE c # Head(list) /\ c \in ToWrite(p)
    BY <1>1, <1>3, <2>2, OnlyHeadLeaves DEF ToWrite
  <2>3. CASE c # Head(list) /\ c \notin ToWrite(p)
    BY <1>2, <2>3 DEF ExitInv
  <2>4. QED
    BY <2>1, <2>2, <2>3
<1>5. QED
  BY <1>2, <1>4 DEF OneProcess, ExitInv, Persisted

LEMMA EndWriteKeeps ==
    ASSUME OneProcess, TypeOK, ExitInv, NEW p \in Process, EndWrite(p)
    PROVE  ExitInv'
<1>1. toWrite[p] # <<>> /\ Head(toWrite[p]) \in Cache /\ Persisted(p)
  BY DEF TypeOK, EndWrite
<1>2. \A c \in Cache : c = Head(toWrite[p]) \/ Kept(p, c) => Kept(p, c)'
  BY <1>1 DEF TypeOK, EndWrite, Persisted, Kept
<1>3. QED
  BY <1>1, <1>2, PersistedKeeps

LEMMA WriteFailsKeeps ==
    ASSUME OneProcess, TypeOK, ExitInv, NEW p \in Process, WriteFails(p)
    PROVE  ExitInv'
<1>1. toWrite[p] # <<>> /\ Persisted(p)
  BY DEF WriteFails
<1>2. \A c \in Cache : c = Head(toWrite[p]) \/ Kept(p, c) => Kept(p, c)'
  BY DEF TypeOK, WriteFails, Persisted, Kept
<1>3. QED
  BY <1>1, <1>2, PersistedKeeps

LEMMA ExitInvStep ==
    ASSUME OneProcess, TypeOK, ExitInv, [Next]_vars
    PROVE  ExitInv'
<1>1. ASSUME NEW p \in Process, Start(p) PROVE ExitInv'
  BY <1>1 DEF OneProcess, TypeOK, ExitInv, Start, ToWrite, Kept
<1>2. ASSUME NEW p \in Process, Sigint(p) \/ Finish(p) PROVE ExitInv'
  BY <1>2, WriteLists, AllAreWritten, ExitKeeps DEF Sigint, Finish
<1>3. ASSUME NEW p \in Process, BeginWrite(p) PROVE ExitInv'
  <2>1. Head(toWrite[p]) \in ToWrite(p) /\ Head(toWrite[p]) \in Cache
    BY <1>3 DEF TypeOK, BeginWrite, ToWrite
  <2>2. \A c \in Cache : c = Head(toWrite[p]) \/ file'[c] = file[c]
    BY <1>3 DEF TypeOK, BeginWrite
  <2>3. UNCHANGED <<state, memory, toWrite, unsaved, calls>>
    BY <1>3 DEF BeginWrite
  <2>4. QED
    BY <2>1, <2>2, <2>3 DEF OneProcess, ExitInv, ToWrite, Kept
<1>4. ASSUME NEW p \in Process, EndWrite(p) \/ WriteFails(p) PROVE ExitInv'
  BY <1>4, EndWriteKeeps, WriteFailsKeeps
<1>5. ASSUME NEW p \in Process, Exited(p) \/ Killed(p) PROVE ExitInv'
  BY <1>5 DEF OneProcess, TypeOK, ExitInv, Exited, Killed, Gone, WithoutCallsOf, Pending
<1>6. ASSUME NEW p \in Process, NEW c \in Cache, NEW k \in Key, NEW d \in Data,
             CachedAnswer(p, c, k, d)
      PROVE  ExitInv'
  BY <1>6 DEF ExitInv, CachedAnswer, ToWrite, Kept
<1>7. ASSUME NEW p \in Process, NEW c \in Cache, NEW k \in Key, NEW d \in Data,
             NEW x \in Call, CallFn(x, p, c, k, d)
      PROVE  ExitInv'
  <2>1. \A y \in Call : calls'[y] # None => state[calls'[y].process] = "up"
    BY <1>7 DEF TypeOK, ExitInv, CallFn
  <2>2. QED
    BY <1>7, <2>1 DEF ExitInv, CallFn, ToWrite, Kept
<1>8. ASSUME NEW x \in Call, FnReturns(x) PROVE ExitInv'
  <2>1. /\ calls[x] \in Pending /\ calls[x].process \in Process
        /\ state[calls[x].process] = "up" /\ UNCHANGED <<state, toWrite>>
    BY <1>8 DEF TypeOK, ExitInv, FnReturns, Pending
  <2>2. \A y \in Call : calls'[y] # None => calls'[y] = calls[y]
    BY <1>8 DEF TypeOK, FnReturns
  <2>3. \A p \in Process : state[p] # "exiting"
    BY <2>1 DEF OneProcess
  <2>4. QED
    BY <2>1, <2>2, <2>3 DEF ExitInv
<1>9. ASSUME NEW x \in Call, FnThrows(x) PROVE ExitInv'
  <2>1. \A y \in Call : calls'[y] # None => calls'[y] = calls[y]
    BY <1>9 DEF TypeOK, FnThrows
  <2>2. QED
    BY <1>9, <2>1 DEF ExitInv, FnThrows, ToWrite, Kept
<1>10. CASE UNCHANGED vars
  BY <1>10 DEF ExitInv, vars, ToWrite, Kept
<1>11. QED
  BY <1>1, <1>2, <1>3, <1>4, <1>5, <1>6, <1>7, <1>8, <1>9, <1>10 DEF Next

(* A process that exits by itself leaves in every cache file what it had   *)
(* in memory, by whatever handler its exit began and however many calls    *)
(* were under way (cached-fn.ts:50-57), but for the caches whose own last  *)
(* write failed, which keeps no other from being written (cached-fn.ts:45);*)
(* provided that it is the only process on these files, since a second one *)
(* overwrites them.                                                        *)
THEOREM ExitsSave ==
    ASSUME OneProcess
    PROVE  Spec => ExitSaves
<1>1. Init => TypeOK /\ ExitInv
  BY TypeInit DEF Init, ExitInv
<1>2. TypeOK /\ ExitInv /\ [Next]_vars => (TypeOK /\ ExitInv)'
  BY TypeNext, ExitInvStep
<1>3. ExitInv => [\A p \in Process : Exited(p) =>
                     \A c \in Cache : file[c] = memory[p][c] \/ c \in unsaved[p]]_vars
  BY DEF ExitInv, Exited, ToWrite, Kept
<1>4. QED
  BY <1>1, <1>2, <1>3, PTL DEF Spec, ExitSaves
=============================================================================
