------------------------------ MODULE SkillWalk ------------------------------
(***************************************************************************)
(* Which workspace skill files a session loads: workspaceSkillEntries and  *)
(* the walk it makes in src/agent/runtime.ts.                              *)
(*                                                                         *)
(* workspace/skills is a graph of real folders.  A folder is a sequence of *)
(* entries in directory order; a path is the sequence of names it spells.  *)
(* An entry is "out" when Pi leaves it out of every walk: a dot entry,     *)
(* node_modules, a broken link, or one an ignore file names.               *)
(*                                                                         *)
(* The recursion of walkSkillFolder is a stack of its calls, and a step is *)
(* one entry of one folder: what siblings share, the list of folders above *)
(* and the counts and lists of the walk, is state that each step changes.  *)
(***************************************************************************)
EXTENDS Naturals, Sequences, FiniteSets

CONSTANTS
  Folders,    \* the real folders
  Files,      \* the real files
  Root,       \* workspace/skills itself
  Workspaces, \* the workspaces examined, as [in, within, closed]
  Policies,   \* the skill policies, as [mode, allowlist]
  MaxFolders  \* MAX_SKILL_ENTRY_FOLDERS

Entry ==
  [name : STRING, to : Folders \cup Files,
   directory : BOOLEAN, link : BOOLEAN, out : BOOLEAN, broken : BOOLEAN]

Workspace ==
  [in : [Folders -> Seq(Entry)], \* the entries of each folder
   within : [Folders -> SUBSET Folders], \* the folders on each one's real path, itself too
   closed : SUBSET Folders] \* the folders that cannot be read

\* What a file system promises: a name is taken once in a folder, a folder lies within those its
\* parent lies within, and a child that is no link lies just below the folder that lists it.
FileTree(w) ==
  \A f \in Folders :
    /\ f \in w.within[f]
    /\ \A g \in w.within[f] : w.within[g] \subseteq w.within[f]
    /\ \A i, j \in DOMAIN w.in[f] : w.in[f][i].name = w.in[f][j].name => i = j
    /\ \A i \in DOMAIN w.in[f] :
         LET e == w.in[f][i]
         IN e.directory => /\ e.to \in Folders
                           /\ ~e.link => /\ e.to \notin w.within[f]
                                         /\ w.within[e.to] = w.within[f] \cup {e.to}

ASSUME SkillWalkAssumption ==
  /\ IsFiniteSet(Folders)
  /\ Root \in Folders
  /\ MaxFolders \in Nat \ {0}
  /\ Workspaces \subseteq Workspace
  /\ \A w \in Workspaces : FileTree(w)
  /\ Policies \subseteq
       [mode : {"bundled", "all-workspace", "allowlist"}, allowlist : Seq(STRING)]

VARIABLES
  workspace,
  policy,
  step,          \* "ask", "take", "walk", "load" or "done"
  left,          \* the turns of the loop now running: entries to take, then files to load
  entry,         \* the entry that is walked
  frames,        \* the calls of walkSkillFolder at work, outermost first, as [folder, path, left]
  realAncestors,
  walk,
  selection,
  entered        \* history, for the properties: the folders the walk has counted

vars == <<workspace, policy, step, left, entry, frames, realAncestors, walk, selection, entered>>

NoSelection == [files |-> <<>>, loaded |-> <<>>, loops |-> {}, large |-> {}, unreadable |-> {}]
NewWalk == [folders |-> 0, overCap |-> FALSE, files |-> <<>>, loops |-> {}, unreadable |-> {}]
NoEntry ==
  [name |-> "none", to |-> Root,
   directory |-> FALSE, link |-> FALSE, out |-> FALSE, broken |-> FALSE]

-----------------------------------------------------------------------------
(* Folders, as readSkillFolder reads them.  A child is known by its place. *)

ContainsRealPath(folder, path) == folder \in workspace.within[path]
Loops(real, chain) == \E i \in DOMAIN chain : ContainsRealPath(real, chain[i])

First(places) == CHOOSE i \in places : \A j \in places : i <= j
Child(folder, i) == workspace.in[folder][i]

Readable(folder) == folder \notin workspace.closed
Children(folder) == {i \in DOMAIN workspace.in[folder] : ~Child(folder, i).out}
SkillEntries(folder) ==
  {i \in Children(folder) : Child(folder, i).name = "SKILL.md" /\ ~Child(folder, i).directory}
HasSkillFile(folder) == SkillEntries(folder) # {}
Descends(folder) == Readable(folder) /\ ~HasSkillFile(folder)
Markdown(e) == ~e.directory /\ e.name \in {"SKILL.md", "note.md"}

Found(path, e) == [path |-> Append(path, e.name), real |-> e.to]
SkillFile(path, folder) == Found(path, Child(folder, First(SkillEntries(folder))))

-----------------------------------------------------------------------------
(* walkSkillFolder.                                                        *)

\* A call, of the folder last in chain: it counts the folder, and stays at work only over the
\* children of a folder it can read and that has no SKILL.md.
WalkSkillFolder(path, chain, calls, found) ==
  LET folder == chain[Len(chain)]
      counted == [found EXCEPT !.folders = @ + 1]
      stays == counted.folders <= MaxFolders /\ Descends(folder)
  IN /\ walk' = CASE counted.folders > MaxFolders -> [counted EXCEPT !.overCap = TRUE]
                  [] stays -> counted
                  [] counted.folders <= MaxFolders /\ ~Readable(folder) ->
                       [counted EXCEPT !.unreadable = @ \cup {path}]
                  [] OTHER -> [counted EXCEPT !.files = Append(@, SkillFile(path, folder))]
     /\ frames' = IF stays
                  THEN Append(calls, [folder |-> folder, path |-> path, left |-> Children(folder)])
                  ELSE calls
     /\ realAncestors' = IF stays THEN chain ELSE SubSeq(chain, 1, Len(chain) - 1)

Top == frames[Len(frames)]
Place == First(Top.left)
Visited == Child(Top.folder, Place)
PathTo == Append(Top.path, Visited.name)
NextPlace == [frames EXCEPT ![Len(frames)].left = @ \ {Place}]

Visiting == step = "walk" /\ frames # <<>> /\ ~walk.overCap /\ Top.left # {}

VisitFolder ==
  /\ Visiting /\ Visited.directory /\ ~Loops(Visited.to, realAncestors)
  /\ WalkSkillFolder(PathTo, Append(realAncestors, Visited.to), NextPlace, walk)
  /\ entered' = entered \cup {[path |-> PathTo, chain |-> Append(realAncestors, Visited.to)]}
  /\ UNCHANGED <<workspace, policy, step, left, entry, selection>>

\* A folder above is met again: a link is recorded, and neither is followed.
MeetLoop ==
  /\ Visiting /\ Visited.directory /\ Loops(Visited.to, realAncestors)
  /\ walk' = [walk EXCEPT !.loops = @ \cup IF Visited.link THEN {PathTo} ELSE {}]
  /\ frames' = NextPlace
  /\ UNCHANGED <<workspace, policy, step, left, entry, realAncestors, selection, entered>>

\* Only the call for the entry itself, and of an allowlist, includes plain files.
Listed == policy.mode = "allowlist"
IncludeRootFiles == Listed /\ Len(frames) = 1

VisitFile ==
  /\ Visiting /\ ~Visited.directory
  /\ walk' = IF IncludeRootFiles /\ Markdown(Visited)
             THEN [walk EXCEPT !.files = Append(@, Found(Top.path, Visited))]
             ELSE walk
  /\ frames' = NextPlace
  /\ UNCHANGED <<workspace, policy, step, left, entry, realAncestors, selection, entered>>

Shorter(s) == SubSeq(s, 1, Len(s) - 1)

\* A call that returns leaves its folder on the list of folders above.
SlipReturn ==
  /\ step = "walk" /\ frames # <<>> /\ (Top.left = {} \/ walk.overCap)
  /\ frames' = Shorter(frames)
  /\ UNCHANGED <<workspace, policy, step, left, entry, realAncestors, walk, selection, entered>>

Return ==
  /\ step = "walk" /\ frames # <<>> /\ (Top.left = {} \/ walk.overCap)
  /\ frames' = Shorter(frames)
  /\ realAncestors' = Shorter(realAncestors)
  /\ UNCHANGED <<workspace, policy, step, left, entry, walk, selection, entered>>

-----------------------------------------------------------------------------
(* workspaceSkillEntries.                                                  *)

Turns == IF Listed THEN DOMAIN policy.allowlist ELSE Children(Root)

\* The entry of a turn, if it is there: one named is taken ignored or not.
EntriesAt(turn) ==
  IF Listed
  THEN {e \in {Child(Root, i) : i \in DOMAIN workspace.in[Root]} :
          e.name = policy.allowlist[turn] /\ ~e.broken}
  ELSE {Child(Root, turn)}
Entries == UNION {EntriesAt(turn) : turn \in Turns}

\* The answers that need no walk come at once.
Ask ==
  /\ step = "ask"
  /\ \/ /\ policy.mode = "bundled"
        /\ step' = "done"
        /\ UNCHANGED <<left, selection>>
     \/ /\ policy.mode # "bundled" /\ ~Readable(Root)
        /\ step' = "done"
        /\ selection' = [selection EXCEPT !.unreadable = {<<>>}]
        /\ UNCHANGED left
     \/ /\ policy.mode = "all-workspace" /\ Readable(Root) /\ HasSkillFile(Root)
        /\ step' = "done"
        /\ selection' = [selection EXCEPT !.files = <<SkillFile(<<>>, Root)>>,
                                          !.loaded = <<SkillFile(<<>>, Root)>>]
        /\ UNCHANGED left
     \/ /\ policy.mode # "bundled" /\ Readable(Root) /\ (Listed \/ ~HasSkillFile(Root))
        /\ step' = "take"
        /\ left' = Turns
        /\ UNCHANGED selection
  /\ UNCHANGED <<workspace, policy, entry, frames, realAncestors, walk, entered>>

Taking == step = "take" /\ left # {} /\ left' = left \ {First(left)}

TakeNothing ==
  /\ Taking /\ EntriesAt(First(left)) = {}
  /\ UNCHANGED <<workspace, policy, step, entry, frames, realAncestors, walk, selection, entered>>

TakeFile(e) ==
  /\ Taking /\ e \in EntriesAt(First(left)) /\ ~e.directory
  /\ selection' = IF Markdown(e) THEN [selection EXCEPT !.files = Append(@, Found(<<>>, e))]
                  ELSE selection
  /\ UNCHANGED <<workspace, policy, step, entry, frames, realAncestors, walk, entered>>

TakeRoot(e) ==
  /\ Taking /\ e \in EntriesAt(First(left)) /\ e.directory /\ ContainsRealPath(e.to, Root)
  /\ selection' = [selection EXCEPT !.loops = @ \cup IF e.link THEN {e.name} ELSE {}]
  /\ UNCHANGED <<workspace, policy, step, entry, frames, realAncestors, walk, entered>>

TakeFolder(e) ==
  /\ Taking /\ e \in EntriesAt(First(left)) /\ e.directory /\ ~ContainsRealPath(e.to, Root)
  /\ step' = "walk"
  /\ entry' = e
  /\ WalkSkillFolder(<<e.name>>, <<Root, e.to>>, <<>>, NewWalk)
  /\ entered' = {[path |-> <<e.name>>, chain |-> <<Root, e.to>>]}
  /\ UNCHANGED <<workspace, policy, selection>>

\* The walk is over: the entry's files join the selection, or it stays out.
Settle ==
  /\ step = "walk" /\ frames = <<>>
  /\ step' = "take"
  /\ LET read == [selection EXCEPT !.unreadable = @ \cup walk.unreadable]
     IN selection' =
          CASE walk.loops # {} -> [read EXCEPT !.loops = @ \cup {entry.name}]
            [] walk.loops = {} /\ walk.overCap -> [read EXCEPT !.large = @ \cup {entry.name}]
            [] OTHER -> [read EXCEPT !.files = @ \o walk.files]
  /\ UNCHANGED <<workspace, policy, left, entry, frames, realAncestors, walk, entered>>

TakenAll ==
  /\ step = "take" /\ left = {}
  /\ step' = "load"
  /\ left' = DOMAIN selection.files
  /\ UNCHANGED <<workspace, policy, entry, frames, realAncestors, walk, selection, entered>>

\* A second path to the same real file is dropped.
Load ==
  /\ step = "load" /\ left # {}
  /\ left' = left \ {First(left)}
  /\ LET file == selection.files[First(left)]
     IN selection' =
          IF \E i \in DOMAIN selection.loaded : selection.loaded[i].real = file.real
          THEN selection ELSE [selection EXCEPT !.loaded = Append(@, file)]
  /\ UNCHANGED <<workspace, policy, step, entry, frames, realAncestors, walk, entered>>

Answer ==
  /\ step = "load" /\ left = {}
  /\ step' = "done"
  /\ UNCHANGED <<workspace, policy, left, entry, frames, realAncestors, walk, selection, entered>>

-----------------------------------------------------------------------------
Init ==
  /\ workspace \in Workspaces
  /\ policy \in Policies
  /\ step = "ask"
  /\ left = {}
  /\ entry = NoEntry
  /\ frames = <<>>
  /\ realAncestors = <<Root>>
  /\ walk = NewWalk
  /\ selection = NoSelection
  /\ entered = {}

Next ==
  \/ Ask \/ TakeNothing \/ Settle \/ TakenAll \/ Load \/ Answer
  \/ VisitFolder \/ MeetLoop \/ VisitFile \/ Return
  \/ \E e \in Entries : TakeFile(e) \/ TakeRoot(e) \/ TakeFolder(e)

Spec == Init /\ [][Next]_vars

-----------------------------------------------------------------------------
(* What Pi's own walk would do: it follows every path, links too, and stops  *)
(* below a folder only at a SKILL.md or a folder it cannot read.             *)

End(p) == p.chain[Len(p.chain)]
Onto(p, e) == [path |-> Append(p.path, e.name), chain |-> Append(p.chain, e.to)]
Below(p) ==
  {Onto(p, Child(End(p), i)) :
     i \in {j \in Children(End(p)) : Descends(End(p)) /\ Child(End(p), j).directory}}

\* The paths that Pi walks into an entry, by their length, each with the folders along it.
PiPaths(e) ==
  LET of[n \in 0 .. Cardinality(Folders)] ==
        IF n = 0 THEN {[path |-> <<e.name>>, chain |-> <<Root, e.to>>]}
        ELSE UNION {Below(p) : p \in of[n - 1]}
  IN of

\* A path longer than the folders there are meets one of them twice, and Pi goes on forever.
Endless(e) == PiPaths(e)[Cardinality(Folders)] # {}
Walked(e) == UNION {PiPaths(e)[n] : n \in 0 .. Cardinality(Folders)}

PiFilesAt(p, includeRootFiles) ==
  IF ~Readable(End(p)) THEN {}
  ELSE IF HasSkillFile(End(p)) THEN {SkillFile(p.path, End(p))}
  ELSE {Found(p.path, Child(End(p), i)) :
          i \in {j \in Children(End(p)) :
                   includeRootFiles /\ Len(p.path) = 1 /\ Markdown(Child(End(p), j))}}
PiFiles(e, includeRootFiles) == UNION {PiFilesAt(p, includeRootFiles) : p \in Walked(e)}

Asked == step = "done" /\ policy.mode # "bundled" /\ Readable(Root)
FolderEntries == {e \in Entries : e.directory}
Refused(e) == e.name \in selection.loops \cup selection.large
FilesOf(e) == {f \in {selection.files[i] : i \in DOMAIN selection.files} : f.path[1] = e.name}

\* An entry the harness takes gives exactly the files that Pi's own walk of it would load, which
\* ends, within the cap; and every file found is loaded once, by its first path. The walk follows
\* links and shares its list of folders and its counter between siblings; a folder
\* left on the list or a link followed twice changes what the next sibling loads.
LoadsWhatPiWould ==
  Asked /\ (Listed \/ ~HasSkillFile(Root)) =>
    /\ \A e \in FolderEntries : ~Refused(e) =>
         /\ e.to # Root /\ ~Endless(e) /\ Cardinality(Walked(e)) <= MaxFolders
         /\ FilesOf(e) = PiFiles(e, Listed)
    /\ \A i \in DOMAIN selection.files : \E j \in DOMAIN selection.loaded :
         selection.loaded[j].real = selection.files[i].real
    /\ \A i, j \in DOMAIN selection.loaded :
         selection.loaded[i].real = selection.loaded[j].real => i = j
    /\ \A j \in DOMAIN selection.loaded : \E i \in DOMAIN selection.files :
         /\ selection.files[i] = selection.loaded[j]
         /\ \A k \in 1 .. i - 1 : selection.files[k].real # selection.loaded[j].real

\* An entry is left out only for a cause: a path Pi would walk that ends in a folder holding one
\* already on that path, or more folders than the cap. A folder that two links reach is no cause.
\* The cause is a loop of links and no proof that Pi's walk has no end: where the folder the loop
\* comes back to holds a SKILL.md, Pi would stop there, and the entry is left out all the same.
RefusedForCause ==
  Asked /\ (Listed \/ ~HasSkillFile(Root)) =>
    \A e \in FolderEntries :
      /\ e.name \in selection.loops =>
           \E p \in Walked(e) : \E i \in 1 .. Len(p.chain) - 1 :
             ContainsRealPath(End(p), p.chain[i])
      /\ e.name \in selection.large => Cardinality(Walked(e)) > MaxFolders

\* The two sides of the contract, which a walk can break apart: what the harness takes of a
\* workspace is what Pi would load of it, and what it leaves out has a loop or is too large.
WalkAgreesWithPi == LoadsWhatPiWould /\ RefusedForCause
=============================================================================
