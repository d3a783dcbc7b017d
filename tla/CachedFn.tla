------------------------------ MODULE CachedFn ------------------------------
(***************************************************************************)
(* The caches of transformed files and of parsed asset directories         *)
(* (cached-fn.ts): in the memory of every process, read from a file when   *)
(* the process starts and written back when it exits.  The dev server and  *)
(* a `tgv-bundle` may run at once in one project, on the same cache files. *)
(*                                                                         *)
(* A call reads its data (the text of the file) before it looks into the   *)
(* cache and computes after it, so calls for one key overlap.  What fn     *)
(* computes is what it computed it from: key, data and plugins.            *)
(***************************************************************************)
EXTENDS Sequences, FiniteSets, Naturals

CONSTANTS
    Process,
    Caches,       \* the cached functions, in the order they are created
    Key,          \* relative path and hmr; a directory
    Data,         \* texts of a file; listings of a directory
    Plugins,      \* configurations of the plugins, across starts
    Call,         \* at most Cardinality(Call) calls at once (a bound)
    None

Cache == {Caches[i] : i \in DOMAIN Caches}

ASSUME CachesAssumption == Caches \in Seq(Cache) /\ Caches # <<>>
VARIABLES
    state,    \* of every process: "down", "up", "exiting"
    plugins,  \* the plugins a process was started with
    memory,   \* Cache, per process and cached function
    toWrite,  \* the caches that an exiting process has yet to write
    writing,  \* whether it is in the middle of writing the first of them
    unsaved,  \* the caches whose last write by it has failed
    file,     \* the cache files
    calls,    \* the calls that wait for fn
    answer    \* the latest answer given

vars == <<state, plugins, memory, toWrite, writing, unsaved, file, calls, answer>>

(* An entry: the data it was computed from and the output. *)
Output == [key : Key, data : Data, plugins : Plugins]
Entry == [cachedData : Data, output : Output]
Contents == [Key -> Entry \cup {None}]

NoContents == [k \in Key |-> None]
NoMemory == [c \in Cache |-> NoContents]

(* A call of fn that has not returned; an answer, with what was asked and  *)
(* the plugins in force.                                                   *)
Pending == [process : Process, cache : Cache, key : Key, data : Data]
Answer == [key : Key, data : Data, plugins : Plugins, output : Output]

ASSUME NoneAssumption == None \notin Entry /\ None \notin Pending

Init ==
    /\ state = [p \in Process |-> "down"]
    /\ plugins \in [Process -> Plugins]
    /\ memory = [p \in Process |-> NoMemory]
    /\ toWrite = [p \in Process |-> <<>>]
    /\ writing = [p \in Process |-> FALSE]
    /\ unsaved = [p \in Process |-> {}]
    /\ file = [c \in Cache |-> None]
    /\ calls = [x \in Call |-> None]
    /\ answer = None

(* Mutant: there is no `?? new Map()`. *)
DeserializedOrUndefined(c) == file[c]

(* A file that is absent or cut short does not deserialize. *)
Deserialized(c) == IF file[c] = None THEN NoContents ELSE file[c]

Start(p) ==
    /\ state[p] = "down"
    /\ state' = [state EXCEPT ![p] = "up"]
    /\ \E v \in Plugins : plugins' = [plugins EXCEPT ![p] = v]
    /\ memory' = [memory EXCEPT ![p] = [c \in Cache |-> Deserialized(c)]]
    /\ UNCHANGED <<toWrite, writing, unsaved, file, calls, answer>>
-----------------------------------------------------------------------------
(* Mutant: an entry answers for its key whatever the data. *)
HitsByKey(entry, d) == entry # None

Hits(entry, d) == entry # None /\ entry.cachedData = d

(* cached_fn up to its await: the cached output is returned, or fn called. *)
CachedAnswer(p, c, k, d) ==
    /\ state[p] = "up"
    /\ Hits(memory[p][c][k], d)
    /\ answer' = [key |-> k, data |-> d, plugins |-> plugins[p],
                  output |-> memory[p][c][k].output]
    /\ UNCHANGED <<state, plugins, memory, toWrite, writing, unsaved, file, calls>>

CallFn(x, p, c, k, d) ==
    /\ state[p] = "up"
    /\ ~Hits(memory[p][c][k], d)
    /\ calls[x] = None
    /\ calls' = [calls EXCEPT ![x] = [process |-> p, cache |-> c, key |-> k, data |-> d]]
    /\ UNCHANGED <<state, plugins, memory, toWrite, writing, unsaved, file, answer>>

Computed(call) ==
    [key |-> call.key, data |-> call.data, plugins |-> plugins[call.process]]

(* fn returns: whatever entry the key has by now is replaced. *)
FnReturns(x) ==
    /\ calls[x] # None
    /\ LET call  == calls[x]
           entry == [cachedData |-> call.data, output |-> Computed(call)]
       IN  /\ memory' = [memory EXCEPT ![call.process][call.cache][call.key] = entry]
           /\ answer' = [key |-> call.key, data |-> call.data,
                         plugins |-> plugins[call.process],
                         output |-> entry.output]
    /\ calls' = [calls EXCEPT ![x] = None]
    /\ UNCHANGED <<state, plugins, toWrite, writing, unsaved, file>>

(* A transform error: it is passed on and nothing is cached. *)
FnThrows(x) ==
    /\ calls[x] # None
    /\ calls' = [calls EXCEPT ![x] = None]
    /\ UNCHANGED <<state, plugins, memory, toWrite, writing, unsaved, file, answer>>
-----------------------------------------------------------------------------
(***************************************************************************)
(* The end of a process.  Nothing else runs in it once its exit handlers   *)
(* do: pending calls are never answered.                                   *)
(***************************************************************************)
WithoutCallsOf(p) ==
    [x \in Call |-> IF calls[x] = None THEN None
                    ELSE IF calls[x].process = p THEN None ELSE calls[x]]

Exit(p, order) ==
    /\ state[p] = "up"
    /\ state' = [state EXCEPT ![p] = "exiting"]
    /\ toWrite' = [toWrite EXCEPT ![p] = order]
    /\ calls' = WithoutCallsOf(p)
    /\ UNCHANGED <<plugins, memory, writing, unsaved, file, answer>>

(* Mutant: there are SIGINT handlers only, and the first one exits. *)
FirstHandlerOnly == <<Caches[1]>>

(* Ctrl-C.  Every cache has a SIGINT handler that persists it and exits:   *)
(* the first to run leaves the others to the handlers of 'exit'.           *)
SigintWrites == <<Caches[1]>> \o Caches

Sigint(p) == Exit(p, SigintWrites)

(* process.exit(1) after errors, or the end of a `tgv-bundle`. *)
Finish(p) == Exit(p, Caches)

(* persist_cache of the next cache: writeFileSync empties the file first.  *)
BeginWrite(p) ==
    /\ toWrite[p] # <<>> /\ ~writing[p]
    /\ writing' = [writing EXCEPT ![p] = TRUE]
    /\ file' = [file EXCEPT ![Head(toWrite[p])] = None]
    /\ UNCHANGED <<state, plugins, memory, toWrite, unsaved, calls, answer>>

(* The process goes on to the next one, or to its end. *)
Persisted(p) ==
    /\ writing' = [writing EXCEPT ![p] = FALSE]
    /\ toWrite' = [toWrite EXCEPT ![p] = Tail(@)]
    /\ UNCHANGED <<state, plugins, memory, calls, answer>>

EndWrite(p) ==
    /\ writing[p]
    /\ file' = [file EXCEPT ![Head(toWrite[p])] = memory[p][Head(toWrite[p])]]
    /\ unsaved' = [unsaved EXCEPT ![p] = @ \ {Head(toWrite[p])}]
    /\ Persisted(p)

(* "Not critical": what throws is dropped, the process does not stop at    *)
(* it.  It has thrown before the file was opened, which is then as it was, *)
(* or while it was written, and leaves it cut short.                       *)
WriteFails(p) ==
    /\ toWrite[p] # <<>>
    /\ unsaved' = [unsaved EXCEPT ![p] = @ \cup {Head(toWrite[p])}]
    /\ Persisted(p)
    /\ UNCHANGED file

Gone(p) ==
    /\ state' = [state EXCEPT ![p] = "down"]
    /\ memory' = [memory EXCEPT ![p] = NoMemory]
    /\ toWrite' = [toWrite EXCEPT ![p] = <<>>]
    /\ writing' = [writing EXCEPT ![p] = FALSE]
    /\ unsaved' = [unsaved EXCEPT ![p] = {}]
    /\ calls' = WithoutCallsOf(p)
    /\ UNCHANGED <<plugins, file, answer>>

Exited(p) == state[p] = "exiting" /\ toWrite[p] = <<>> /\ Gone(p)

Killed(p) == state[p] # "down" /\ Gone(p)

Next ==
    \/ \E p \in Process :
        \/ Start(p) \/ Sigint(p) \/ Finish(p)
        \/ BeginWrite(p) \/ EndWrite(p) \/ WriteFails(p)
        \/ Exited(p) \/ Killed(p)
        \/ \E c \in Cache, k \in Key, d \in Data :
            CachedAnswer(p, c, k, d) \/ \E x \in Call : CallFn(x, p, c, k, d)
    \/ \E x \in Call : FnReturns(x) \/ FnThrows(x)

Spec == Init /\ [][Next]_vars
-----------------------------------------------------------------------------
TypeOK ==
    /\ state \in [Process -> {"down", "up", "exiting"}]
    /\ plugins \in [Process -> Plugins]
    /\ memory \in [Process -> [Cache -> Contents]]
    /\ toWrite \in [Process -> Seq(Cache)]
    /\ writing \in [Process -> BOOLEAN]
    /\ \A p \in Process : writing[p] => toWrite[p] # <<>>
    /\ unsaved \in [Process -> SUBSET Cache]
    /\ file \in [Cache -> Contents \cup {None}]
    /\ calls \in [Call -> Pending \cup {None}]
    /\ answer \in Answer \cup {None}

(***************************************************************************)
(* Whatever calls overlapped, and whichever process wrote the file last,   *)
(* an answer is what fn makes of the data of its call (cached-fn.ts:59).   *)
(***************************************************************************)
AnswersExact ==
    answer # None => answer.output.key = answer.key /\ answer.output.data = answer.data

(***************************************************************************)
(* A process that exits by itself leaves in every cache file what it had   *)
(* in memory, whatever handler came first (cached-fn.ts:50-57), unless its *)
(* last write of that very cache failed: what fails with one cache keeps   *)
(* no other from being saved (cached-fn.ts:45).                            *)
(***************************************************************************)
ExitSaves ==
    [][\A p \in Process : Exited(p) =>
            \A c \in Cache : file[c] = memory[p][c] \/ c \in unsaved[p]]_vars
=============================================================================
