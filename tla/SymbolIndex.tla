----------------------------- MODULE SymbolIndex -----------------------------
(***************************************************************************)
(* PrismCodebaseIndexerService (codebaseIndexerService.ts): the in-memory  *)
(* symbol index, keyed by file, that rebuildIndex fills folder by folder   *)
(* and updateFileIndex refreshes one file at a time. Both are async and    *)
(* re-entrant: every await (listing a folder, reading a file) is a step,   *)
(* so rebuilds, updates and changes to the files interleave freely.        *)
(*                                                                         *)
(* A file's content is abstracted to a version number; the symbols parsed *)
(* from it are a function of that version, so an index entry records the  *)
(* version it was parsed from.                                             *)
(***************************************************************************)
EXTENDS Naturals, FiniteSets

CONSTANTS
    Roots,        \* workspace folders (model values)
    Files,        \* files (model values)
    FileRoot,     \* FileRoot[f]: the folder holding f
    Rebuilders,   \* callers of rebuildIndex, one call each (model values)
    Updaters,     \* callers of updateFileIndex, one call each (model values)
    MaxCalls,     \* the rebuildIndex calls each rebuilder makes, one after another
    RootArgs,     \* the arguments rebuildIndex is called with: folders, or All
    All,          \* rebuildIndex() without a folder (a model value)
    MaxResults,   \* the maxResults given to getAllURIsInDirectory
    MaxChanges,   \* bound on the changes made to files
    None          \* no entry, no file, no content (a model value)

ASSUME FileRoot \in [Files -> Roots]
ASSUME RootArgs \subseteq Roots \cup {All}

VARIABLES
    fs,       \* fs[f]: [exists, ver] the file on disk
    changes,  \* the number of file changes so far
    index,    \* index[f]: the version the entry of f was parsed from, or None
    rb,       \* rb[r]: the state of rebuildIndex call r
    up,       \* up[u]: the state of updateFileIndex call u
    fired,    \* the number of onDidUpdateIndex events
    clean,    \* history: a full rebuild started after the last file change
    alone     \* history: the last call was a full rebuild that started and
              \* ran with no other call in flight and no file change

vars == <<fs, changes, index, rb, up, fired, clean, alone>>

Versions == 0..MaxChanges
\* "failed": the rebuild's promise rejected before it fired the event.
RbPCs == {"idle", "list", "read", "set", "done", "failed"}
UpPCs == {"idle", "read", "set", "done"}

TypeOK ==
    /\ fs \in [Files -> [exists : BOOLEAN, ver : Versions]]
    /\ changes \in 0..MaxChanges
    /\ index \in [Files -> Versions \cup {None}]
    /\ rb \in [Rebuilders -> [pc : RbPCs, calls : 0..MaxCalls, roots : SUBSET Roots, todo : SUBSET Files,
                              cur : Files \cup {None}, got : Versions \cup {None}]]
    /\ up \in [Updaters -> [pc : UpPCs, file : Files \cup {None}, got : Versions \cup {None}]]
    /\ fired \in 0..(MaxCalls * Cardinality(Rebuilders))
    /\ clean \in BOOLEAN
    /\ alone \in BOOLEAN

Init ==
    /\ fs \in [Files -> [exists : BOOLEAN, ver : {0}]]
    /\ changes = 0
    /\ index = [f \in Files |-> None]
    /\ rb = [r \in Rebuilders |-> [pc |-> "idle", calls |-> 0, roots |-> {}, todo |-> {},
                                   cur |-> None, got |-> None]]
    /\ up = [u \in Updaters |-> [pc |-> "idle", file |-> None, got |-> None]]
    /\ fired = 0
    /\ clean = FALSE
    /\ alone = FALSE

(***************************************************************************)
(* The files change under the index: edited, deleted or created. The       *)
(* service has no file watcher, so it is not told.                         *)
(***************************************************************************)
ChangeFile(f) ==
    /\ changes < MaxChanges
    /\ \/ fs' = [fs EXCEPT ![f] = [exists |-> TRUE, ver |-> changes + 1]]
       \/ /\ fs[f].exists
          /\ fs' = [fs EXCEPT ![f].exists = FALSE]
    /\ changes' = changes + 1
    /\ clean' = FALSE
    /\ alone' = FALSE
    /\ UNCHANGED <<index, rb, up, fired>>

(***************************************************************************)
(* readFile as awaited by updateFileIndex: the content it resolves with    *)
(* (the version read), or None when it throws for a missing file.          *)
(***************************************************************************)
ReadResult(f) == IF fs[f].exists THEN fs[f].ver ELSE None

\* The catch of updateFileIndex swallows the error: the entry is left as is.
SetEntry(f, got) ==
    IF got = None THEN index ELSE [index EXCEPT ![f] = got]

(***************************************************************************)
(* rebuildIndex(root?). It clears the whole index at once, whatever root   *)
(* it was given, then walks the given folder (or every workspace folder):  *)
(* it awaits the folder's listing, capped at maxResults, and awaits        *)
(* updateFileIndex on each listed file in turn. When the last folder is    *)
(* done it fires onDidUpdateIndex. The order of the folders and of the     *)
(* listing is left open.                                                   *)
(***************************************************************************)
\* A caller awaits each call before it makes the next.
CanCall(r) == rb[r].pc \in {"idle", "done"} /\ rb[r].calls < MaxCalls

\* Some rebuild or update other than rebuild r is in flight.
OthersBusy(r) ==
    \/ \E q \in Rebuilders \ {r} : rb[q].pc \in {"list", "read", "set"}
    \/ \E u \in Updaters : up[u].pc = "set"

StartCall(r, a) ==
    /\ rb' = [rb EXCEPT ![r].pc = "list", ![r].calls = @ + 1,
                        ![r].roots = IF a = All THEN Roots ELSE {a}]
    /\ clean' = (a = All \/ clean)
    /\ alone' = (a = All /\ ~OthersBusy(r))

RebuildStartKeeps(r) ==
    /\ CanCall(r)
    /\ \E a \in RootArgs : StartCall(r, a)
    /\ UNCHANGED <<fs, changes, index, up, fired>>

RebuildStart(r) ==
    /\ CanCall(r)
    /\ \E a \in RootArgs : StartCall(r, a)
    /\ index' = [f \in Files |-> None]
    /\ UNCHANGED <<fs, changes, up, fired>>

\* The files getAllURIsInDirectory(folder, {maxResults}) may resolve with.
Listing(root) ==
    LET present == {f \in Files : FileRoot[f] = root /\ fs[f].exists}
        n == IF Cardinality(present) < MaxResults THEN Cardinality(present) ELSE MaxResults
    IN {S \in SUBSET present : Cardinality(S) = n}

\* Where a rebuild goes once a file is done: the next listed file, or the
\* next folder.
AfterFile(todo) == IF todo = {} THEN "list" ELSE "read"

ListRootFires(r) ==
    /\ rb[r].pc = "list"
    /\ \E root \in rb[r].roots : \E S \in Listing(root) :
          rb' = [rb EXCEPT ![r].roots = @ \ {root}, ![r].todo = S,
                           ![r].pc = AfterFile(S)]
    /\ fired' = fired + 1
    /\ UNCHANGED <<fs, changes, index, up, clean, alone>>

ListRoot(r) ==
    /\ rb[r].pc = "list"
    /\ \E root \in rb[r].roots : \E S \in Listing(root) :
          rb' = [rb EXCEPT ![r].roots = @ \ {root}, ![r].todo = S,
                           ![r].pc = AfterFile(S)]
    /\ UNCHANGED <<fs, changes, index, up, fired, clean, alone>>

RebuildFinish(r) ==
    /\ rb[r].pc = "list"
    /\ rb[r].roots = {}
    /\ rb' = [rb EXCEPT ![r].pc = "done"]
    /\ fired' = fired + 1
    /\ UNCHANGED <<fs, changes, index, up, clean, alone>>

\* updateFileIndex as a step of the rebuild, whose read error it swallowed
\* were it not caught: the await throws and rebuildIndex rejects.
RbReadUncaught(r) ==
    /\ rb[r].pc = "read"
    /\ \E f \in rb[r].todo :
          rb' = [rb EXCEPT ![r].todo = @ \ {f}, ![r].cur = f,
                           ![r].got = ReadResult(f),
                           ![r].pc = IF ReadResult(f) = None THEN "failed" ELSE "set"]
    /\ UNCHANGED <<fs, changes, index, up, fired, clean, alone>>

\* The rebuild awaits updateFileIndex(uri): the file is read ...
RbRead(r) ==
    /\ rb[r].pc = "read"
    /\ \E f \in rb[r].todo :
          rb' = [rb EXCEPT ![r].todo = @ \ {f}, ![r].cur = f,
                           ![r].got = ReadResult(f), ![r].pc = "set"]
    /\ UNCHANGED <<fs, changes, index, up, fired, clean, alone>>

\* ... and when the read resolves the entry is parsed and set.
RbSet(r) ==
    /\ rb[r].pc = "set"
    /\ index' = SetEntry(rb[r].cur, rb[r].got)
    /\ rb' = [rb EXCEPT ![r].pc = AfterFile(rb[r].todo), ![r].cur = None,
                        ![r].got = None]
    /\ UNCHANGED <<fs, changes, up, fired, clean, alone>>

(***************************************************************************)
(* updateFileIndex(uri) called on its own: the same read and set.          *)
(***************************************************************************)
UpRead(u) ==
    /\ up[u].pc = "idle"
    /\ \E f \in Files :
          up' = [up EXCEPT ![u] = [pc |-> "set", file |-> f, got |-> ReadResult(f)]]
    /\ alone' = (alone /\ \A r \in Rebuilders : rb[r].pc \notin {"list", "read", "set"})
    /\ UNCHANGED <<fs, changes, index, rb, fired, clean>>

UpSet(u) ==
    /\ up[u].pc = "set"
    /\ index' = SetEntry(up[u].file, up[u].got)
    /\ up' = [up EXCEPT ![u].pc = "done"]
    /\ UNCHANGED <<fs, changes, rb, fired, clean, alone>>

(***************************************************************************)
(* The specification.                                                      *)
(***************************************************************************)
RbStep(r) ==
    \/ RebuildStart(r) \/ ListRoot(r) \/ RebuildFinish(r) \/ RbRead(r) \/ RbSet(r)

UpStep(u) == UpRead(u) \/ UpSet(u)

Next ==
    \/ \E r \in Rebuilders : RbStep(r)
    \/ \E u \in Updaters : UpStep(u)
    \/ \E f \in Files : ChangeFile(f)

\* The listing, the reads and the continuations after them resolve; a call
\* once made runs to its end. Nobody is obliged to call the service.
Fairness ==
    /\ \A r \in Rebuilders : WF_vars(RbStep(r) /\ ~CanCall(r))
    /\ \A u \in Updaters : WF_vars(UpSet(u))

Spec == Init /\ [][Next]_vars /\ Fairness

(***************************************************************************)
(* Properties.                                                             *)
(***************************************************************************)

\* No call is running: every rebuild and update is idle or finished.
Quiescent ==
    /\ \A r \in Rebuilders : rb[r].pc \in {"idle", "done", "failed"}
    /\ \A u \in Updaters : up[u].pc \in {"idle", "done"}

\* The index holds exactly the files on disk, each parsed from its current
\* content.
IndexExact ==
    \A f \in Files : index[f] = IF fs[f].exists THEN fs[f].ver ELSE None

\* rebuildIndex() "rebuilds the index for all folders": once every call
\* has returned, if a full rebuild started after the last change to the
\* files, the index is exactly the files on disk, each entry current.
CleanRebuildIsExact == (Quiescent /\ clean) => IndexExact

\* rebuildIndex() run on its own: once it and every call after it have
\* returned, if no other call overlapped it and no file changed since it
\* started, the index is exactly the files on disk, each entry current.
IsolatedRebuildIsExact == (Quiescent /\ alone) => IndexExact

\* Every rebuildIndex call ends by firing onDidUpdateIndex, even when
\* files listed for it are deleted before it reads them (updateFileIndex
\* swallows the read error).
RebuildsFinish ==
    \A r \in Rebuilders : rb[r].pc \in {"list", "read", "set"} ~> rb[r].pc = "done"

\* rebuildIndex(root) "rebuilds the index for the given workspace folder":
\* an entry is dropped only by a rebuild of the folder that holds it.
RebuildKeepsOtherRoots ==
    [][\A f \in Files :
          (index[f] # None /\ index'[f] = None)
             => \E r \in Rebuilders : CanCall(r) /\ FileRoot[f] \in rb'[r].roots]_vars

====
