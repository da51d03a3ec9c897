--------------------------- MODULE SkillWalkProof ---------------------------
(***************************************************************************)
(* What the walk of the workspace skills takes and leaves out, for every   *)
(* workspace: WalkAgreesWithPi as a theorem.                               *)
(*                                                                         *)
(* The walk is a depth-first search that stops at a folder it has above.   *)
(* The invariant says of every path it has entered that Pi walks it too,   *)
(* and of every path just below one entered that it was entered, or is     *)
(* left to visit in a call still at work.  When no call is left, the paths *)
(* entered hold Pi's first path and everything below each: by induction on *)
(* their length they are all that Pi walks.                                *)
(***************************************************************************)
EXTENDS SkillWalk, Integers, FunctionTheorems, FiniteSetTheorems, SequenceTheorems,
        WellFoundedInduction, TLAPS

-----------------------------------------------------------------------------
(* The invariant.                                                          *)

FileFound == [path : Seq(STRING), real : Folders \cup Files]
Trails == [path : Seq(STRING), chain : Seq(Folders)]
Call == [folder : Folders, path : Seq(STRING), left : SUBSET Nat]
Walk ==
  [folders : Nat, overCap : BOOLEAN, files : Seq(FileFound),
   loops : SUBSET Seq(STRING), unreadable : SUBSET Seq(STRING)]
Selection ==
  [files : Seq(FileFound), loaded : Seq(FileFound), loops : SUBSET STRING, large : SUBSET STRING,
   unreadable : SUBSET Seq(STRING)]

TypeOK ==
  /\ workspace \in Workspaces
  /\ policy \in Policies
  /\ step \in {"ask", "take", "walk", "load", "done"}
  /\ left \in SUBSET Nat
  /\ entry \in Entry \cup {NoEntry}
  /\ frames \in Seq(Call)
  /\ realAncestors \in Seq(Folders)
  /\ walk \in Walk
  /\ selection \in Selection
  /\ entered \in SUBSET Trails

\* No folder along a chain holds one before it.
Apart(chain) == \A i, j \in DOMAIN chain : i < j => ~ContainsRealPath(chain[j], chain[i])

\* A path that Pi walks into e, with no loop on it.
PathOf(e, p) ==
  /\ Len(p.path) > 0
  /\ Len(p.chain) = Len(p.path) + 1
  /\ Apart(p.chain)
  /\ p \in PiPaths(e)[Len(p.path) - 1]

LoopCause(e) ==
  \E p \in Walked(e) : \E i \in 1 .. Len(p.chain) - 1 : ContainsRealPath(End(p), p.chain[i])

\* The path of the k-th call at work.
Trail(calls, above, k) == [path |-> calls[k].path, chain |-> SubSeq(above, 1, k + 1)]

\* The list of folders above is the root and the folders of the calls at work, each just below the
\* one before, and each was entered.
StackOK(calls, above, seen) ==
  /\ Len(above) = Len(calls) + 1
  /\ \A k \in DOMAIN calls :
       /\ above[k + 1] = calls[k].folder
       /\ Len(calls[k].path) = k
       /\ Trail(calls, above, k) \in seen
       /\ Descends(calls[k].folder)
       /\ calls[k].left \subseteq Children(calls[k].folder)
  /\ \A j, k \in DOMAIN calls : j < k => \A m \in 1 .. j : calls[k].path[m] = calls[j].path[m]

\* Nothing was entered yet by way of a child that is left to visit.
Unvisited(calls, seen) ==
  \A k \in DOMAIN calls : \A i \in calls[k].left : \A d \in seen :
    ~ /\ Len(d.path) > k
      /\ \A m \in 1 .. k : d.path[m] = calls[k].path[m]
      /\ d.path[k + 1] = Child(calls[k].folder, i).name

\* Below what was entered all is entered, or left to visit; with the cap reached or a loop met the
\* rest no longer matters.
Covered(calls, above, found, settled, seen) ==
  ~found.overCap /\ found.loops = {} =>
    \A d \in settled : \A i \in Children(End(d)) :
      Descends(End(d)) /\ Child(End(d), i).directory =>
        \/ Onto(d, Child(End(d), i)) \in seen
        \/ \E k \in DOMAIN calls : d = Trail(calls, above, k) /\ i \in calls[k].left

\* The files found are Pi's of what was entered, but for those left to visit.
FilesOK(calls, above, found, settled, seen) ==
  /\ \A n \in DOMAIN found.files : \E d \in seen : found.files[n] \in PiFilesAt(d, Listed)
  /\ ~found.overCap =>
       \A d \in settled : \A f \in PiFilesAt(d, Listed) :
         \/ \E n \in DOMAIN found.files : found.files[n] = f
         \/ \E k \in DOMAIN calls :
              /\ d = Trail(calls, above, k)
              /\ \E i \in calls[k].left :
                   Markdown(Child(End(d), i)) /\ f = Found(d.path, Child(End(d), i))

\* The walk of e, with the calls at work: called is the path of a call that begins, or of none.
WalkOK(e, calls, above, found, seen, called) ==
  /\ e \in FolderEntries /\ ~ContainsRealPath(e.to, Root)
  /\ [path |-> <<e.name>>, chain |-> <<Root, e.to>>] \in seen
  /\ \A d \in seen : PathOf(e, d)
  /\ StackOK(calls, above, seen)
  /\ Unvisited(calls, seen)
  /\ Covered(calls, above, found, seen \ called, seen)
  /\ FilesOK(calls, above, found, seen \ called, seen)
  /\ found.loops # {} => LoopCause(e)

Counted(found, seen) ==
  /\ IsFiniteSet(seen)
  /\ Cardinality(seen) = found.folders
  /\ found.overCap <=> found.folders > MaxFolders

WalkInv ==
  step = "walk" =>
    /\ WalkOK(entry, frames, realAncestors, walk, entered, {})
    /\ Counted(walk, entered)

\* An entry is taken rightly: Pi's walk of it ends within the cap.
TakenRightly(e) == e.to # Root /\ ~Endless(e) /\ Cardinality(Walked(e)) <= MaxFolders

\* The turns that are over have given Pi's files, or a refusal with a cause.
SelectionOK(chosen, turns, working) ==
  /\ \A n \in DOMAIN chosen.files : \E e \in Entries :
       /\ chosen.files[n].path[1] = e.name
       /\ e.directory => chosen.files[n] \in PiFiles(e, Listed)
  /\ \A turn \in turns : \A e \in EntriesAt(turn) \ working :
       e.directory /\ e.name \notin chosen.loops \cup chosen.large =>
         /\ TakenRightly(e)
         /\ \A f \in PiFiles(e, Listed) : \E n \in DOMAIN chosen.files : chosen.files[n] = f
  /\ \A e \in FolderEntries :
       /\ e.name \in chosen.loops => LoopCause(e)
       /\ e.name \in chosen.large => Cardinality(Walked(e)) > MaxFolders

Walks == Readable(Root) /\ policy.mode # "bundled" /\ (Listed \/ ~HasSkillFile(Root))

SelectionInv ==
  /\ step = "ask" => selection = NoSelection
  /\ step \in {"take", "walk", "load"} => Walks
  /\ step \in {"take", "walk"} => left \subseteq Turns
  /\ step \in {"take", "walk"} => selection.loaded = <<>>
  /\ step = "take" => SelectionOK(selection, Turns \ left, {})
  /\ step = "walk" => SelectionOK(selection, Turns \ left, {entry})
  /\ step \in {"load", "done"} /\ Walks => SelectionOK(selection, Turns, {})

\* The files before the one to load next are loaded, once each, by the first path there is.
LoadedOK(chosen, over) ==
  /\ \A i \in over : \E j \in DOMAIN chosen.loaded : chosen.loaded[j].real = chosen.files[i].real
  /\ \A i, j \in DOMAIN chosen.loaded : chosen.loaded[i].real = chosen.loaded[j].real => i = j
  /\ \A j \in DOMAIN chosen.loaded : \E i \in over :
       /\ chosen.files[i] = chosen.loaded[j]
       /\ \A k \in 1 .. i - 1 : chosen.files[k].real # chosen.loaded[j].real

LoadInv ==
  /\ step = "load" =>
       left \subseteq DOMAIN selection.files /\ LoadedOK(selection, DOMAIN selection.files \ left)
  /\ step = "done" /\ Walks => LoadedOK(selection, DOMAIN selection.files)

Inv == TypeOK /\ WalkInv /\ SelectionInv /\ LoadInv

-----------------------------------------------------------------------------
(* Induction on the natural numbers, with the property given as a set.     *)

\* A set of naturals that is not empty has a least member: of the intervals from 0 to a member,
\* which are finite sets, one has no other below it.
LEMMA LeastNatural ==
  ASSUME NEW T, T \subseteq Nat, T # {}
  PROVE  \E x \in T : \A y \in T : x <= y
<1> DEFINE below == {0 .. n : n \in T}
<1>1. below \subseteq FiniteSubsetsOf(Nat)
  <2>1. ASSUME NEW n \in T PROVE 0 .. n \in FiniteSubsetsOf(Nat)
    <3>1. IsFiniteSet(0 .. n)
      BY FS_Interval
    <3>2. 0 .. n \in SUBSET Nat
      OBVIOUS
    <3> QED
      BY <3>1, <3>2 DEF FiniteSubsetsOf
  <2> QED
    BY <2>1
<1>2. below # {}
  OBVIOUS
<1>3. IsWellFoundedOn(StrictSubsetOrdering(Nat), FiniteSubsetsOf(Nat))
  BY FS_StrictSubsetOrderingWellFounded
<1> HIDE DEF below
<1>4. \E x \in below : \A y \in below : <<y, x>> \notin StrictSubsetOrdering(Nat)
  BY <1>1, <1>2, <1>3, WFMin
<1>5. PICK b \in below : \A y \in below : <<y, b>> \notin StrictSubsetOrdering(Nat)
  BY <1>4
<1>6. PICK x \in T : b = 0 .. x
  BY DEF below
<1>7. ASSUME NEW y \in T PROVE x <= y
  <2> SUFFICES ASSUME y < x PROVE FALSE
    OBVIOUS
  <2>1. 0 .. y \in below
    BY DEF below
  <2>2. 0 .. y \subseteq 0 .. x /\ x \in 0 .. x /\ x \notin 0 .. y
    OBVIOUS
  <2>3. <<0 .. y, 0 .. x>> \in (SUBSET Nat) \X (SUBSET Nat)
    OBVIOUS
  <2>4. 0 .. y # 0 .. x
    BY <2>2
  <2>5. <<0 .. y, 0 .. x>> \in StrictSubsetOrdering(Nat)
    BY <2>2, <2>3, <2>4 DEF StrictSubsetOrdering
  <2> QED
    BY <1>5, <1>6, <2>1, <2>5
<1> QED
  BY <1>7

LEMMA Induction ==
  ASSUME NEW S, 0 \in S, \A n \in Nat : n \in S => n + 1 \in S
  PROVE  Nat \subseteq S
<1> SUFFICES ASSUME Nat \ S # {} PROVE FALSE
  OBVIOUS
<1>1. PICK x \in Nat \ S : \A y \in Nat \ S : x <= y
  BY LeastNatural
<1>2. x - 1 \in Nat /\ x - 1 \in S
  BY <1>1
<1> QED
  BY <1>1, <1>2

\* f holds what k rounds of G make of first.
Iterates(f, S, first, G, k) ==
  f \in [0 .. k -> S] /\ f[0] = first /\ \A n \in 1 .. k : f[n] = G[f[n - 1]]

\* What is repeated k times, from a first value, is a function.
LEMMA Iteration ==
  ASSUME NEW S, NEW first \in S, NEW G \in [S -> S], NEW K \in Nat
  PROVE  \E f : Iterates(f, S, first, G, K)
<1> DEFINE Is(f, k) == Iterates(f, S, first, G, k)
           Done == {k \in Nat : \E f : Is(f, k)}
<1> USE DEF Iterates
<1>1. 0 \in Done
  <2>1. Is([n \in 0 .. 0 |-> first], 0)
    OBVIOUS
  <2> QED
    BY <2>1
<1>2. ASSUME NEW k \in Nat, k \in Done PROVE k + 1 \in Done
  <2>1. PICK f : Is(f, k)
    BY <1>2
  <2> DEFINE g == [n \in 0 .. k + 1 |-> IF n = k + 1 THEN G[f[k]] ELSE f[n]]
  <2>2. g \in [0 .. k + 1 -> S] /\ g[0] = first
    BY <2>1
  <2>3. ASSUME NEW n \in 1 .. k + 1 PROVE g[n] = G[g[n - 1]]
    <3>1. n - 1 \in 0 .. k /\ n - 1 # k + 1 /\ g[n - 1] = f[n - 1]
      OBVIOUS
    <3>2. CASE n = k + 1
      BY <3>1, <3>2
    <3>3. CASE n # k + 1
      <4>1. n \in 1 .. k /\ g[n] = f[n]
        BY <3>3
      <4> QED
        BY <2>1, <3>1, <4>1
    <3> QED
      BY <3>2, <3>3
  <2>4. Is(g, k + 1)
    BY <2>2, <2>3
  <2> HIDE DEF g, Is
  <2> QED
    BY <2>4
<1> HIDE DEF Done
<1>3. Nat \subseteq Done
  BY <1>1, <1>2, Induction
<1>4. PICK f : Is(f, K)
  BY <1>3 DEF Done
<1> QED
  BY <1>4

-----------------------------------------------------------------------------
(* The paths that Pi walks.                                                *)

LEMMA FiniteImage ==
  ASSUME NEW S, IsFiniteSet(S), NEW f
  PROVE  IsFiniteSet({f[x] : x \in S})
<1> DEFINE T == {f[x] : x \in S}
           g == [x \in S |-> f[x]]
<1>1. g \in [S -> T] /\ \A t \in T : \E x \in S : g[x] = t
  OBVIOUS
<1> HIDE DEF T, g
<1>2. g \in Surjection(S, T)
  BY <1>1, Fun_IsSurj
<1>3. IsFiniteSet(T)
  BY <1>2, FS_Surjection
<1> QED
  BY <1>3 DEF T

LEMMA TreeFacts ==
  ASSUME TypeOK
  PROVE  /\ workspace \in Workspace
         /\ FileTree(workspace)
         /\ policy \in [mode : {"bundled", "all-workspace", "allowlist"}, allowlist : Seq(STRING)]
BY SkillWalkAssumption DEF TypeOK

\* A folder has finitely many children, which are entries of it, by place.
LEMMA ChildFacts ==
  ASSUME workspace \in Workspace, NEW f \in Folders
  PROVE  /\ IsFiniteSet(Children(f))
         /\ Children(f) \subseteq Nat
         /\ Children(f) \subseteq DOMAIN workspace.in[f]
         /\ \A i \in DOMAIN workspace.in[f] : Child(f, i) \in Entry
<1>1. workspace.in[f] \in Seq(Entry)
  BY DEF Workspace
<1>2. DOMAIN workspace.in[f] = 1 .. Len(workspace.in[f]) /\ Len(workspace.in[f]) \in Nat
  BY <1>1
<1>3. IsFiniteSet(DOMAIN workspace.in[f])
  BY <1>2, FS_Interval
<1>4. Children(f) \subseteq DOMAIN workspace.in[f]
  BY DEF Children
<1>5. IsFiniteSet(Children(f))
  BY <1>3, <1>4, FS_Subset
<1> QED
  BY <1>1, <1>2, <1>4, <1>5 DEF Child

LEMMA OntoFacts ==
  ASSUME NEW p \in Trails, NEW e \in Entry, e.to \in Folders
  PROVE  /\ Onto(p, e) \in Trails
         /\ Len(Onto(p, e).path) = Len(p.path) + 1
         /\ Len(Onto(p, e).chain) = Len(p.chain) + 1
         /\ End(Onto(p, e)) = e.to
         /\ Onto(p, e).path[Len(p.path) + 1] = e.name
         /\ \A m \in 1 .. Len(p.path) : Onto(p, e).path[m] = p.path[m]
         /\ \A m \in 1 .. Len(p.chain) : Onto(p, e).chain[m] = p.chain[m]
<1>1. p.path \in Seq(STRING) /\ p.chain \in Seq(Folders) /\ e.name \in STRING
  BY DEF Trails, Entry
<1>2. /\ Onto(p, e).path = Append(p.path, e.name) /\ Onto(p, e).chain = Append(p.chain, e.to)
      /\ Onto(p, e) = [path |-> Append(p.path, e.name), chain |-> Append(p.chain, e.to)]
  BY DEF Onto
<1>3. Append(p.path, e.name) \in Seq(STRING) /\ Append(p.chain, e.to) \in Seq(Folders)
  BY <1>1
<1> QED
  BY <1>1, <1>2, <1>3 DEF Trails, End

\* Below is a finite set of paths, each one folder longer.
LEMMA BelowFacts ==
  ASSUME workspace \in Workspace, FileTree(workspace),
         NEW p \in Trails, Len(p.chain) > 0
  PROVE  /\ End(p) \in Folders
         /\ IsFiniteSet(Below(p))
         /\ \A q \in Below(p) :
              /\ q \in Trails
              /\ Len(q.path) = Len(p.path) + 1
              /\ Len(q.chain) = Len(p.chain) + 1
              /\ Len(p.path) > 0 => q.path[1] = p.path[1]
<1>1. End(p) \in Folders
  BY DEF End, Trails
<1> DEFINE Places == {j \in Children(End(p)) : Descends(End(p)) /\ Child(End(p), j).directory}
<1>2. IsFiniteSet(Places) /\ Places \subseteq DOMAIN workspace.in[End(p)]
  BY <1>1, ChildFacts, FS_Subset
<1> DEFINE onto == [i \in Places |-> Onto(p, Child(End(p), i))]
<1>3. Below(p) = {onto[i] : i \in Places}
  BY DEF Below
<1>4. IsFiniteSet({onto[i] : i \in Places})
  BY <1>2, FiniteImage
<1>5. ASSUME NEW q \in Below(p)
      PROVE  /\ q \in Trails /\ Len(q.path) = Len(p.path) + 1 /\ Len(q.chain) = Len(p.chain) + 1
             /\ Len(p.path) > 0 => q.path[1] = p.path[1]
  <2>1. PICK i \in Places : q = Onto(p, Child(End(p), i))
    BY DEF Below
  <2>2. Child(End(p), i) \in Entry
    BY <1>1, <1>2, ChildFacts
  <2>3. Child(End(p), i).to \in Folders
    BY <1>1, <1>2 DEF FileTree, Child
  <2>4. Len(p.path) > 0 => 1 \in 1 .. Len(p.path)
    BY DEF Trails
  <2> QED
    BY <2>1, <2>2, <2>3, <2>4, OntoFacts
<1> QED
  BY <1>1, <1>3, <1>4, <1>5

Start(e) == [path |-> <<e.name>>, chain |-> <<Root, e.to>>]

LEMMA StartFacts ==
  ASSUME NEW e \in Entry, e.to \in Folders
  PROVE  /\ Start(e) \in Trails
         /\ Len(Start(e).path) = 1 /\ Start(e).path[1] = e.name
         /\ Len(Start(e).chain) = 2
         /\ End(Start(e)) = e.to
<1>1. e.name \in STRING /\ Root \in Folders
  BY SkillWalkAssumption DEF Entry
<1>2. <<e.name>> \in Seq(STRING) /\ <<Root, e.to>> \in Seq(Folders)
  BY <1>1
<1> QED
  BY <1>2 DEF Start, End, Trails

\* Pi's paths by their length: the entry's own, and those just below the paths one shorter.
LEMMA PiPathsDef ==
  ASSUME workspace \in Workspace, FileTree(workspace), NEW e \in Entry, e.to \in Folders
  PROVE  /\ PiPaths(e)[0] = {Start(e)}
         /\ \A n \in 1 .. Cardinality(Folders) :
              PiPaths(e)[n] = UNION {Below(p) : p \in PiPaths(e)[n - 1]}
<1> DEFINE K == Cardinality(Folders)
           Long == {p \in Trails : Len(p.chain) > 0}
           G == [P \in SUBSET Long |-> UNION {Below(p) : p \in P}]
           Def(f) ==
             f = [n \in 0 .. K |->
                    IF n = 0 THEN {[path |-> <<e.name>>, chain |-> <<Root, e.to>>]}
                    ELSE UNION {Below(p) : p \in f[n - 1]}]
<1>1. K \in Nat
  BY SkillWalkAssumption, FS_CardinalityType
<1>2. {Start(e)} \in SUBSET Long
  BY StartFacts
<1>3. G \in [SUBSET Long -> SUBSET Long]
  <2>1. ASSUME NEW P \in SUBSET Long PROVE UNION {Below(p) : p \in P} \in SUBSET Long
    <3>1. ASSUME NEW p \in P, NEW q \in Below(p) PROVE q \in Long
      <4>1. p \in Trails /\ Len(p.chain) > 0 /\ Len(p.chain) \in Nat
        BY DEF Trails
      <4> QED
        BY <4>1, BelowFacts
    <3> QED
      BY <3>1
  <2> HIDE DEF Long
  <2> QED
    BY <2>1
<1>4. \E f : Iterates(f, SUBSET Long, {Start(e)}, G, K)
  <2> HIDE DEF K, Long, G
  <2> QED
    BY <1>1, <1>2, <1>3, Iteration
<1>5. PICK f \in [0 .. K -> SUBSET Long] :
        f[0] = {Start(e)} /\ \A n \in 1 .. K : f[n] = G[f[n - 1]]
  BY <1>4 DEF Iterates
<1>6. Def(f)
  <2>1. ASSUME NEW n \in 0 .. K
        PROVE  f[n] = IF n = 0 THEN {[path |-> <<e.name>>, chain |-> <<Root, e.to>>]}
                      ELSE UNION {Below(p) : p \in f[n - 1]}
    <3>1. CASE n = 0
      BY <1>5, <3>1 DEF Start
    <3>2. CASE n # 0
      <4>1. n \in 1 .. K /\ n - 1 \in 0 .. K /\ f[n - 1] \in SUBSET Long
        BY <1>1, <1>5, <3>2
      <4> QED
        BY <1>5, <3>2, <4>1
    <3> QED
      BY <3>1, <3>2
  <2> QED
    BY <1>5, <2>1
<1>7. PiPaths(e) = CHOOSE h : Def(h)
  BY DEF PiPaths
<1>8. Def(PiPaths(e))
  <2> HIDE DEF Def
  <2> QED
    BY <1>6, <1>7
<1> HIDE DEF K
<1>9. PiPaths(e)[0] = {Start(e)}
  BY <1>1, <1>8 DEF Start
<1>10. ASSUME NEW n \in 1 .. K PROVE PiPaths(e)[n] = UNION {Below(p) : p \in PiPaths(e)[n - 1]}
  <2>1. n \in 0 .. K /\ n # 0
    BY <1>1
  <2> QED
    BY <1>8, <2>1
<1> QED
  BY <1>9, <1>10 DEF K

\* Each of them is a path of its length, and there are finitely many.
LEMMA PiPathsFacts ==
  ASSUME workspace \in Workspace, FileTree(workspace), NEW e \in Entry, e.to \in Folders
  PROVE  \A n \in 0 .. Cardinality(Folders) :
           /\ IsFiniteSet(PiPaths(e)[n])
           /\ \A p \in PiPaths(e)[n] :
                /\ p \in Trails /\ Len(p.path) = n + 1 /\ Len(p.chain) = n + 2
                /\ p.path[1] = e.name
<1> DEFINE K == Cardinality(Folders)
           Good(n) == /\ IsFiniteSet(PiPaths(e)[n])
                      /\ \A p \in PiPaths(e)[n] :
                           /\ p \in Trails /\ Len(p.path) = n + 1 /\ Len(p.chain) = n + 2
                           /\ p.path[1] = e.name
           Done == {n \in Nat : n <= K => Good(n)}
<1>1. K \in Nat
  BY SkillWalkAssumption, FS_CardinalityType
<1>2. 0 \in Done
  <2>1. PiPaths(e)[0] = {Start(e)}
    BY PiPathsDef
  <2>2. IsFiniteSet({Start(e)})
    BY FS_Singleton
  <2>3. /\ Start(e) \in Trails /\ Len(Start(e).path) = 0 + 1 /\ Len(Start(e).chain) = 0 + 2
        /\ Start(e).path[1] = e.name
    BY StartFacts
  <2>4. Good(0)
    BY <2>1, <2>2, <2>3
  <2> QED
    BY <2>4
<1>3. ASSUME NEW n \in Nat, n \in Done PROVE n + 1 \in Done
  <2> SUFFICES ASSUME n + 1 <= K PROVE Good(n + 1)
    OBVIOUS
  <2>1. Good(n)
    BY <1>1, <1>3
  <2>2. PiPaths(e)[n + 1] = UNION {Below(p) : p \in PiPaths(e)[n]}
    <3>1. n + 1 \in 1 .. K /\ (n + 1) - 1 = n
      BY <1>1
    <3> QED
      BY <3>1, PiPathsDef
  <2>3. ASSUME NEW p \in PiPaths(e)[n]
        PROVE  /\ IsFiniteSet(Below(p))
               /\ \A q \in Below(p) :
                    /\ q \in Trails /\ Len(q.path) = n + 2 /\ Len(q.chain) = n + 3
                    /\ q.path[1] = e.name
    <3>1. /\ p \in Trails /\ Len(p.path) = n + 1 /\ Len(p.chain) = n + 2
          /\ p.path[1] = e.name
      BY <2>1
    <3> QED
      BY <3>1, BelowFacts
  <2> DEFINE below == [p \in PiPaths(e)[n] |-> Below(p)]
  <2>4. IsFiniteSet({below[p] : p \in PiPaths(e)[n]})
    BY <2>1, FiniteImage
  <2>5. {Below(p) : p \in PiPaths(e)[n]} = {below[p] : p \in PiPaths(e)[n]}
    OBVIOUS
  <2>6. IsFiniteSet(UNION {Below(p) : p \in PiPaths(e)[n]})
    BY <2>3, <2>4, <2>5, FS_UNION
  <2>7. ASSUME NEW q \in PiPaths(e)[n + 1]
        PROVE  /\ q \in Trails /\ Len(q.path) = n + 2 /\ Len(q.chain) = n + 3
               /\ q.path[1] = e.name
    BY <2>2, <2>3
  <2> QED
    BY <2>2, <2>6, <2>7
<1> HIDE DEF Done
<1>4. Nat \subseteq Done
  BY <1>2, <1>3, Induction
<1> QED
  BY <1>1, <1>4 DEF Done

LEMMA WalkedFacts ==
  ASSUME workspace \in Workspace, FileTree(workspace), NEW e \in Entry, e.to \in Folders
  PROVE  /\ IsFiniteSet(Walked(e))
         /\ Cardinality(Walked(e)) \in Nat
         /\ Start(e) \in Walked(e)
         /\ \A p \in Walked(e) :
              /\ p \in Trails /\ Len(p.path) > 0 /\ Len(p.chain) = Len(p.path) + 1
              /\ p.path[1] = e.name
<1> DEFINE K == Cardinality(Folders)
           lengths == [n \in 0 .. K |-> PiPaths(e)[n]]
<1>1. K \in Nat /\ IsFiniteSet(0 .. K)
  BY SkillWalkAssumption, FS_CardinalityType, FS_Interval
<1>2. IsFiniteSet({lengths[n] : n \in 0 .. K})
  <2> HIDE DEF lengths
  <2> QED
    BY <1>1, FiniteImage
<1>3. {PiPaths(e)[n] : n \in 0 .. K} = {lengths[n] : n \in 0 .. K}
  OBVIOUS
<1>4. \A P \in {PiPaths(e)[n] : n \in 0 .. K} : IsFiniteSet(P)
  BY PiPathsFacts
<1>5. IsFiniteSet(Walked(e))
  BY <1>2, <1>3, <1>4, FS_UNION DEF Walked
<1>6. Start(e) \in Walked(e)
  BY <1>1, PiPathsDef DEF Walked
<1>7. ASSUME NEW p \in Walked(e)
      PROVE  /\ p \in Trails /\ Len(p.path) > 0 /\ Len(p.chain) = Len(p.path) + 1
             /\ p.path[1] = e.name
  <2>1. PICK n \in 0 .. K : p \in PiPaths(e)[n]
    BY DEF Walked
  <2> QED
    BY <2>1, PiPathsFacts
<1> QED
  BY <1>5, <1>6, <1>7, FS_CardinalityType

\* Folders of which none holds an earlier one are as many as they look: no more than there are.
LEMMA ApartBound ==
  ASSUME workspace \in Workspace, FileTree(workspace),
         NEW chain \in Seq(Folders), Apart(chain)
  PROVE  Len(chain) <= Cardinality(Folders)
<1>1. chain \in [1 .. Len(chain) -> Folders] /\ Len(chain) \in Nat
  OBVIOUS
<1>2. ASSUME NEW i \in 1 .. Len(chain), NEW j \in 1 .. Len(chain), i < j PROVE chain[i] # chain[j]
  <2>1. chain[j] \notin workspace.within[chain[i]] /\ chain[i] \in workspace.within[chain[i]]
    BY <1>1, <1>2 DEF Apart, ContainsRealPath, FileTree
  <2> QED
    BY <2>1
<1>3. \A i, j \in 1 .. Len(chain) : chain[i] = chain[j] => i = j
  BY <1>1, <1>2
<1>4. chain \in Injection(1 .. Len(chain), Folders)
  BY <1>1, <1>3, Fun_IsInj
<1>5. Cardinality(1 .. Len(chain)) <= Cardinality(Folders)
  BY <1>4, SkillWalkAssumption, FS_Injection
<1>6. Cardinality(1 .. Len(chain)) = Len(chain)
  <2>1. 1 \in Int /\ Len(chain) \in Int
    BY <1>1
  <2>2. Cardinality(1 .. Len(chain)) = IF 1 > Len(chain) THEN 0 ELSE Len(chain) - 1 + 1
    BY <2>1, FS_Interval
  <2> QED
    BY <1>1, <2>2
<1> QED
  BY <1>5, <1>6

\* A path with no loop is short enough to be among those that Pi's walk is asked about, and so is
\* any path just below it.
LEMMA PathFacts ==
  ASSUME workspace \in Workspace, FileTree(workspace), NEW e \in Entry, e.to \in Folders,
         NEW d \in Trails, PathOf(e, d)
  PROVE  /\ Len(d.path) \in 1 .. Cardinality(Folders) - 1
         /\ d \in Walked(e)
         /\ End(d) \in Folders
         /\ \A q \in Below(d) : q \in PiPaths(e)[Len(d.path)] /\ q \in Walked(e)
<1>1. Cardinality(Folders) \in Nat
  BY SkillWalkAssumption, FS_CardinalityType
<1>2. Len(d.chain) <= Cardinality(Folders)
  BY ApartBound DEF PathOf, Trails
<1>3. Len(d.path) \in 1 .. Cardinality(Folders) - 1
  BY <1>1, <1>2 DEF PathOf, Trails
<1>4. d \in Walked(e)
  BY <1>1, <1>3 DEF PathOf, Walked
<1>5. End(d) \in Folders
  BY <1>3 DEF PathOf, End, Trails
<1>6. PiPaths(e)[Len(d.path)] = UNION {Below(p) : p \in PiPaths(e)[Len(d.path) - 1]}
  BY <1>1, <1>3, PiPathsDef
<1>7. \A q \in Below(d) : q \in PiPaths(e)[Len(d.path)]
  BY <1>6 DEF PathOf
<1> QED
  BY <1>1, <1>3, <1>4, <1>5, <1>7 DEF Walked

\* The first path of an entry that is not above the root.
LEMMA StartPath ==
  ASSUME workspace \in Workspace, FileTree(workspace), NEW e \in Entry, e.to \in Folders,
         ~ContainsRealPath(e.to, Root)
  PROVE  PathOf(e, Start(e))
<1>1. Start(e) \in PiPaths(e)[0]
  BY PiPathsDef
<1>2. Apart(Start(e).chain)
  <2>1. Start(e).chain = <<Root, e.to>>
    BY DEF Start
  <2>2. \A i, j \in 1 .. 2 : i < j => i = 1 /\ j = 2
    OBVIOUS
  <2>3. DOMAIN <<Root, e.to>> = 1 .. 2 /\ <<Root, e.to>>[1] = Root /\ <<Root, e.to>>[2] = e.to
    OBVIOUS
  <2> HIDE DEF Start
  <2>4. ASSUME NEW i \in DOMAIN Start(e).chain, NEW j \in DOMAIN Start(e).chain, i < j
        PROVE  ~ContainsRealPath(Start(e).chain[j], Start(e).chain[i])
    <3>1. i = 1 /\ j = 2
      BY <2>1, <2>2, <2>3, <2>4
    <3>2. Start(e).chain[1] = Root /\ Start(e).chain[2] = e.to
      BY <2>1, <2>3
    <3> QED
      BY <3>1, <3>2
  <2> QED
    BY <2>4 DEF Apart
<1>3. Len(Start(e).path) > 0 /\ Len(Start(e).chain) = Len(Start(e).path) + 1
      /\ Len(Start(e).path) - 1 = 0
  <2>1. Len(Start(e).path) = 1 /\ Len(Start(e).chain) = 2
    BY StartFacts
  <2> QED
    BY <2>1
<1> QED
  BY <1>1, <1>2, <1>3 DEF PathOf

\* A path goes on to a child that loops nowhere.
LEMMA PathGoesOn ==
  ASSUME workspace \in Workspace, FileTree(workspace), NEW e \in Entry, e.to \in Folders,
         NEW d \in Trails, PathOf(e, d), Descends(End(d)),
         NEW i \in Children(End(d)), Child(End(d), i).directory
  PROVE  /\ Child(End(d), i) \in Entry /\ Child(End(d), i).to \in Folders
         /\ Onto(d, Child(End(d), i)) \in Trails
         /\ Onto(d, Child(End(d), i)) \in Below(d)
         /\ Onto(d, Child(End(d), i)) \in Walked(e)
         /\ ~Loops(Child(End(d), i).to, d.chain) => PathOf(e, Onto(d, Child(End(d), i)))
<1> DEFINE c == Child(End(d), i)
<1>1. End(d) \in Folders
  BY PathFacts
<1>2. c \in Entry /\ c.to \in Folders
  BY <1>1, ChildFacts DEF FileTree, Child
<1>3. Onto(d, c) \in Below(d)
  BY DEF Below
<1>4. Onto(d, c) \in Walked(e) /\ Onto(d, c) \in PiPaths(e)[Len(d.path)]
  BY <1>3, PathFacts
<1>5. /\ Onto(d, c) \in Trails
      /\ Len(Onto(d, c).path) = Len(d.path) + 1 /\ Len(Onto(d, c).chain) = Len(d.chain) + 1
      /\ \A m \in 1 .. Len(d.chain) : Onto(d, c).chain[m] = d.chain[m]
      /\ End(Onto(d, c)) = c.to
  BY <1>2, OntoFacts
<1>6. ASSUME ~Loops(c.to, d.chain) PROVE PathOf(e, Onto(d, c))
  <2> DEFINE chain == Onto(d, c).chain
  <2>1. d.chain \in Seq(Folders) /\ chain \in Seq(Folders) /\ d.path \in Seq(STRING)
    BY <1>5 DEF Trails
  <2>2. chain[Len(chain)] = c.to
    BY <1>5 DEF End
  <2>3. ASSUME NEW j \in DOMAIN chain, NEW k \in DOMAIN chain, j < k
        PROVE  ~ContainsRealPath(chain[k], chain[j])
    <3>1. j \in 1 .. Len(d.chain) /\ chain[j] = d.chain[j]
      BY <1>5, <2>1, <2>3
    <3>2. CASE k = Len(chain)
      BY <1>6, <2>1, <2>2, <3>1, <3>2 DEF Loops
    <3>3. CASE k # Len(chain)
      <4>1. k \in 1 .. Len(d.chain) /\ chain[k] = d.chain[k]
        BY <1>5, <2>1, <3>3
      <4> QED
        BY <2>1, <2>3, <3>1, <4>1 DEF PathOf, Apart
    <3> QED
      BY <3>2, <3>3
  <2>4. Apart(chain)
    BY <2>3 DEF Apart
  <2>5. Len(d.path) \in Nat /\ Len(d.path) > 0 /\ Len(d.chain) = Len(d.path) + 1
    BY <2>1 DEF PathOf
  <2> QED
    BY <1>4, <1>5, <2>4, <2>5 DEF PathOf
<1> QED
  BY <1>2, <1>3, <1>4, <1>5, <1>6

\* Only a link leads back: a folder's own child lies below it, and below no folder that would
\* lie below the child.
LEMMA OnlyLinksLoop ==
  ASSUME workspace \in Workspace, FileTree(workspace), NEW e \in Entry, e.to \in Folders,
         NEW d \in Trails, PathOf(e, d),
         NEW i \in Children(End(d)), Child(End(d), i).directory, Loops(Child(End(d), i).to, d.chain)
  PROVE  Child(End(d), i).link
<1> SUFFICES ASSUME ~Child(End(d), i).link PROVE FALSE
  OBVIOUS
<1> DEFINE c == Child(End(d), i)
           last == Len(d.chain)
<1>1. End(d) \in Folders /\ End(d) = d.chain[last]
  BY PathFacts DEF End
<1>2. i \in DOMAIN workspace.in[End(d)]
  BY <1>1, ChildFacts
<1>3. /\ c.to \in Folders /\ c.to \notin workspace.within[End(d)]
      /\ workspace.within[c.to] = workspace.within[End(d)] \cup {c.to}
  BY <1>1, <1>2 DEF FileTree, Child
<1>4. d.chain \in Seq(Folders) /\ last \in DOMAIN d.chain
  BY DEF Trails, PathOf
<1>5. PICK k \in DOMAIN d.chain : c.to \in workspace.within[d.chain[k]]
  BY DEF Loops, ContainsRealPath
<1>6. k # last /\ k < last
  BY <1>1, <1>3, <1>4, <1>5
<1>7. End(d) \in workspace.within[End(d)]
  BY <1>1 DEF FileTree
<1>8. End(d) \in workspace.within[c.to]
  BY <1>3, <1>7
<1>9. d.chain[k] \in Folders
  BY <1>4
<1>10. End(d) \in workspace.within[d.chain[k]]
  BY <1>5, <1>8, <1>9 DEF FileTree
<1> QED
  BY <1>1, <1>4, <1>6, <1>10 DEF PathOf, Apart, ContainsRealPath

-----------------------------------------------------------------------------
(* The workspace and the policy stay, so what they decide stays.           *)

Fixed == workspace' = workspace /\ policy' = policy

LEMMA FoldersStay ==
  ASSUME Fixed
  PROVE  /\ \A f, i : Child(f, i)' = Child(f, i)
         /\ \A f : Children(f)' = Children(f)
         /\ \A f : Readable(f)' <=> Readable(f)
         /\ \A f : HasSkillFile(f)' <=> HasSkillFile(f)
         /\ \A f : Descends(f)' <=> Descends(f)
         /\ \A p, f : SkillFile(p, f)' = SkillFile(p, f)
         /\ \A f, g : ContainsRealPath(f, g)' <=> ContainsRealPath(f, g)
         /\ \A c : Apart(c)' <=> Apart(c)
         /\ Listed' <=> Listed
<1> USE DEF Fixed
<1>1. \A f, i : Child(f, i)' = Child(f, i)
  BY DEF Child
<1>2. \A f : Children(f)' = Children(f)
  BY DEF Children, Child
<1>3. \A f : Readable(f)' <=> Readable(f)
  BY DEF Readable
<1>4. \A f : SkillEntries(f)' = SkillEntries(f)
  BY <1>1, <1>2 DEF SkillEntries
<1>5. \A f : HasSkillFile(f)' <=> HasSkillFile(f)
  BY <1>4 DEF HasSkillFile
<1>6. \A f : Descends(f)' <=> Descends(f)
  BY <1>3, <1>5 DEF Descends
<1>7. \A p, f : SkillFile(p, f)' = SkillFile(p, f)
  BY <1>1, <1>4 DEF SkillFile
<1>8. \A f, g : ContainsRealPath(f, g)' <=> ContainsRealPath(f, g)
  BY DEF ContainsRealPath
<1>9. \A c : Apart(c)' <=> Apart(c)
  BY DEF Apart, ContainsRealPath
<1>10. Listed' <=> Listed
  BY DEF Listed
<1> QED
  BY <1>1, <1>2, <1>3, <1>5, <1>6, <1>7, <1>8, <1>9, <1>10

LEMMA PathsStay ==
  ASSUME Fixed
  PROVE  /\ \A p : Below(p)' = Below(p)
         /\ \A e : PiPaths(e)' = PiPaths(e)
         /\ \A e : Walked(e)' = Walked(e)
         /\ \A e : Endless(e)' <=> Endless(e)
         /\ \A p : PiFilesAt(p, Listed)' = PiFilesAt(p, Listed)
         /\ \A e : PiFiles(e, Listed)' = PiFiles(e, Listed)
         /\ \A e, p : PathOf(e, p)' <=> PathOf(e, p)
         /\ \A e : LoopCause(e)' <=> LoopCause(e)
<1>1. \A p : Below(p)' = Below(p)
  <2>1. \A p : {j \in Children(End(p)) : Descends(End(p)) /\ Child(End(p), j).directory}'
             = {j \in Children(End(p)) : Descends(End(p)) /\ Child(End(p), j).directory}
    BY FoldersStay
  <2> QED
    BY <2>1, FoldersStay DEF Below
<1>2. \A e : PiPaths(e)' = PiPaths(e)
  BY SMTT(60) DEF PiPaths, Below, Fixed, Children, Child, Descends, HasSkillFile,
                  SkillEntries, Readable
<1>3. \A e : Walked(e)' = Walked(e)
  BY <1>2 DEF Walked
<1>4. \A e : Endless(e)' <=> Endless(e)
  BY <1>2 DEF Endless
<1>5. \A p : PiFilesAt(p, Listed)' = PiFilesAt(p, Listed)
  BY FoldersStay DEF PiFilesAt, Listed, Fixed
<1>6. \A e : PiFiles(e, Listed)' = PiFiles(e, Listed)
  BY <1>3, <1>5 DEF PiFiles
<1>7. \A e, p : PathOf(e, p)' <=> PathOf(e, p)
  BY <1>2, FoldersStay DEF PathOf
<1>8. \A e : LoopCause(e)' <=> LoopCause(e)
  BY <1>3, FoldersStay DEF LoopCause
<1> QED
  BY <1>1, <1>2, <1>3, <1>4, <1>5, <1>6, <1>7, <1>8

LEMMA EntriesStay ==
  ASSUME Fixed
  PROVE  /\ Turns' = Turns
         /\ \A t : EntriesAt(t)' = EntriesAt(t)
         /\ Entries' = Entries
         /\ FolderEntries' = FolderEntries
         /\ Walks' <=> Walks
         /\ \A e : TakenRightly(e)' <=> TakenRightly(e)
<1>1. Turns' = Turns
  BY FoldersStay DEF Turns, Fixed
<1>2. \A t : EntriesAt(t)' = EntriesAt(t)
  BY DEF EntriesAt, Fixed, Listed, Child
<1>3. Entries' = Entries
  BY <1>1, <1>2 DEF Entries
<1>4. FolderEntries' = FolderEntries
  BY <1>3 DEF FolderEntries
<1>5. Walks' <=> Walks
  BY FoldersStay DEF Walks, Fixed
<1>6. \A e : TakenRightly(e)' <=> TakenRightly(e)
  BY PathsStay DEF TakenRightly
<1> QED
  BY <1>1, <1>2, <1>3, <1>4, <1>5, <1>6

LEMMA WalkStays ==
  ASSUME Fixed
  PROVE  \A e, calls, above, found, seen, called :
           WalkOK(e, calls, above, found, seen, called)' <=>
             WalkOK(e, calls, above, found, seen, called)
<1> SUFFICES ASSUME NEW e, NEW calls, NEW above, NEW found, NEW seen, NEW called
             PROVE  WalkOK(e, calls, above, found, seen, called)' <=>
                      WalkOK(e, calls, above, found, seen, called)
  OBVIOUS
<1>1. StackOK(calls, above, seen)' <=> StackOK(calls, above, seen)
  BY FoldersStay DEF StackOK, Trail
<1>2. Unvisited(calls, seen)' <=> Unvisited(calls, seen)
  BY FoldersStay DEF Unvisited
<1>3. \A s : Covered(calls, above, found, s, seen)' <=> Covered(calls, above, found, s, seen)
  <2>1. ASSUME NEW d, NEW s
        PROVE  (\A i \in Children(End(d)) :
                  Descends(End(d)) /\ Child(End(d), i).directory =>
                    \/ Onto(d, Child(End(d), i)) \in seen
                    \/ \E k \in DOMAIN calls :
                         d = Trail(calls, above, k) /\ i \in calls[k].left)' <=>
               (\A i \in Children(End(d)) :
                  Descends(End(d)) /\ Child(End(d), i).directory =>
                    \/ Onto(d, Child(End(d), i)) \in seen
                    \/ \E k \in DOMAIN calls :
                         d = Trail(calls, above, k) /\ i \in calls[k].left)
    BY FoldersStay DEF End, Onto, Trail
  <2> QED
    BY <2>1, Zenon DEF Covered
<1>4. \A s : FilesOK(calls, above, found, s, seen)' <=> FilesOK(calls, above, found, s, seen)
  BY FoldersStay, PathsStay DEF FilesOK, End, Found, Trail, Markdown
<1>5. (\A d \in seen : PathOf(e, d)') <=> \A d \in seen : PathOf(e, d)
  BY PathsStay
<1> QED
  BY <1>1, <1>2, <1>3, <1>4, <1>5, FoldersStay, PathsStay, EntriesStay DEF WalkOK

LEMMA SelectionStays ==
  ASSUME Fixed
  PROVE  \A chosen, turns, working :
           SelectionOK(chosen, turns, working)' <=> SelectionOK(chosen, turns, working)
<1> SUFFICES ASSUME NEW chosen, NEW turns, NEW working
             PROVE  SelectionOK(chosen, turns, working)' <=> SelectionOK(chosen, turns, working)
  OBVIOUS
<1> QED
  BY FoldersStay, PathsStay, EntriesStay DEF SelectionOK

-----------------------------------------------------------------------------
(* The steps of a walk.                                                    *)

LEMMA EntryFacts ==
  ASSUME TypeOK
  PROVE  /\ \A t \in Turns : EntriesAt(t) \subseteq Entries
         /\ Entries \subseteq Entry
         /\ FolderEntries \subseteq Entries
         /\ \A e \in Entries : e.directory => e.to \in Folders
         /\ \A e, g \in Entries : e.name = g.name => e = g
<1>1. workspace \in Workspace /\ FileTree(workspace) /\ Root \in Folders
  BY TreeFacts, SkillWalkAssumption
<1>2. ASSUME NEW e \in Entries PROVE \E i \in DOMAIN workspace.in[Root] : e = Child(Root, i)
  <2>1. PICK t \in Turns : e \in EntriesAt(t)
    BY DEF Entries
  <2>2. CASE Listed
    BY <2>1, <2>2 DEF EntriesAt
  <2>3. CASE ~Listed
    BY <1>1, <2>1, <2>3, ChildFacts DEF EntriesAt, Turns
  <2> QED
    BY <2>2, <2>3
<1>3. Entries \subseteq Entry
  BY <1>1, <1>2, ChildFacts
<1>4. \A e \in Entries : e.directory => e.to \in Folders
  BY <1>1, <1>2 DEF FileTree, Child
<1>5. \A e, g \in Entries : e.name = g.name => e = g
  BY <1>1, <1>2 DEF FileTree, Child
<1> QED
  BY <1>3, <1>4, <1>5 DEF Entries, FolderEntries

LEMMA FirstIsLeast ==
  ASSUME NEW places \in SUBSET Nat, places # {}
  PROVE  /\ First(places) \in places
         /\ \A i \in places : First(places) <= i
<1>1. \E i \in places : \A j \in places : i <= j
  BY LeastNatural
<1> QED
  BY <1>1 DEF First

\* The part of the list of folders above that a call has is the same in a longer list.
LEMMA PrefixStays ==
  ASSUME NEW S, NEW s \in Seq(S), NEW x \in S, NEW n \in Nat, n <= Len(s)
  PROVE  /\ SubSeq(Append(s, x), 1, n) = SubSeq(s, 1, n)
         /\ SubSeq(Append(s, x), 1, Len(s) + 1) = Append(s, x)
         /\ SubSeq(Append(s, x), 1, Len(Append(s, x)) - 1) = s
         /\ SubSeq(s, 1, Len(s)) = s
<1>1. /\ Append(s, x) \in Seq(S) /\ Len(Append(s, x)) = Len(s) + 1 /\ Len(s) \in Nat
      /\ \A i \in 1 .. Len(s) : Append(s, x)[i] = s[i]
      /\ Append(s, x)[Len(s) + 1] = x
  OBVIOUS
<1>2. ASSUME NEW t \in Seq(S), NEW u \in Seq(S), Len(t) = Len(u), \A i \in 1 .. Len(t) : t[i] = u[i]
      PROVE  t = u
  BY <1>2
<1>3. ASSUME NEW t \in Seq(S), NEW m \in Nat, m <= Len(t)
      PROVE  /\ SubSeq(t, 1, m) \in Seq(S) /\ Len(SubSeq(t, 1, m)) = m
             /\ \A i \in 1 .. m : SubSeq(t, 1, m)[i] = t[i]
  BY <1>3
<1> QED
  BY <1>1, <1>2, <1>3

\* When no call is at work, the paths entered are those that Pi walks.
LEMMA WalkComplete ==
  ASSUME TypeOK, NEW e, NEW above, NEW found \in Walk, NEW seen \in SUBSET Trails,
         WalkOK(e, <<>>, above, found, seen, {}), Counted(found, seen),
         ~found.overCap, found.loops = {}
  PROVE  /\ TakenRightly(e)
         /\ \A n \in DOMAIN found.files : found.files[n] \in PiFiles(e, Listed)
         /\ \A f \in PiFiles(e, Listed) : \E n \in DOMAIN found.files : found.files[n] = f
<1> DEFINE K == Cardinality(Folders)
           Done == {n \in Nat : n <= K => PiPaths(e)[n] \subseteq seen}
<1>1. /\ workspace \in Workspace /\ FileTree(workspace) /\ Root \in Folders /\ MaxFolders \in Nat
      /\ K \in Nat
  BY TreeFacts, SkillWalkAssumption, FS_CardinalityType
<1>2. e \in Entry /\ e.to \in Folders /\ e \in FolderEntries
  BY EntryFacts DEF WalkOK, FolderEntries
<1>3. 0 \in Done
  BY <1>1, <1>2, PiPathsDef DEF WalkOK, Start
<1>4. ASSUME NEW n \in Nat, n \in Done PROVE n + 1 \in Done
  <2> SUFFICES ASSUME n + 1 <= K, NEW q \in PiPaths(e)[n + 1] PROVE q \in seen
    OBVIOUS
  <2>1. PiPaths(e)[n + 1] = UNION {Below(p) : p \in PiPaths(e)[n]}
    <3>1. n + 1 \in 1 .. K /\ (n + 1) - 1 = n
      BY <1>1
    <3> QED
      BY <1>1, <1>2, <3>1, PiPathsDef
  <2>2. PICK p \in PiPaths(e)[n] : q \in Below(p)
    BY <2>1
  <2>3. p \in seen
    BY <1>1, <1>4
  <2>4. PICK i \in Children(End(p)) : /\ Descends(End(p)) /\ Child(End(p), i).directory
                                      /\ q = Onto(p, Child(End(p), i))
    BY <2>2 DEF Below
  <2>5. DOMAIN <<>> = {}
    OBVIOUS
  <2> QED
    BY <2>3, <2>4, <2>5 DEF WalkOK, Covered
<1> HIDE DEF Done
<1>5. Nat \subseteq Done
  BY <1>3, <1>4, Induction
<1>6. \A n \in 0 .. K : PiPaths(e)[n] \subseteq seen
  BY <1>1, <1>5 DEF Done
<1>7. Walked(e) = seen
  <2>1. Walked(e) \subseteq seen
    BY <1>6 DEF Walked
  <2>2. \A d \in seen : d \in Walked(e)
    BY <1>1, <1>2, PathFacts DEF WalkOK
  <2> QED
    BY <2>1, <2>2
<1>8. ~Endless(e)
  <2> SUFFICES ASSUME NEW p \in PiPaths(e)[K] PROVE FALSE
    BY DEF Endless
  <2>1. p \in seen /\ p \in Trails /\ Len(p.path) = K + 1
    BY <1>1, <1>2, <1>6, PiPathsFacts
  <2>2. Len(p.path) \in 1 .. K - 1
    BY <1>1, <1>2, <2>1, PathFacts DEF WalkOK
  <2> QED
    BY <1>1, <2>1, <2>2
<1>9. Cardinality(Walked(e)) <= MaxFolders
  BY <1>1, <1>7 DEF Counted, Walk
<1>10. e.to # Root
  BY <1>1 DEF WalkOK, ContainsRealPath, FileTree
<1>11. ASSUME NEW n \in DOMAIN found.files PROVE found.files[n] \in PiFiles(e, Listed)
  BY <1>7 DEF WalkOK, FilesOK, PiFiles
<1>12. ASSUME NEW f \in PiFiles(e, Listed) PROVE \E n \in DOMAIN found.files : found.files[n] = f
  <2>1. PICK d \in seen : f \in PiFilesAt(d, Listed)
    BY <1>7 DEF PiFiles
  <2>2. DOMAIN <<>> = {}
    OBVIOUS
  <2> QED
    BY <2>1, <2>2 DEF WalkOK, FilesOK
<1> QED
  BY <1>8, <1>9, <1>10, <1>11, <1>12 DEF TakenRightly

\* Over the cap: what was entered is among what Pi walks, and more than the cap.
LEMMA WalkOverCap ==
  ASSUME TypeOK, NEW e, NEW calls, NEW above, NEW found \in Walk, NEW seen \in SUBSET Trails,
         WalkOK(e, calls, above, found, seen, {}), Counted(found, seen), found.overCap
  PROVE  Cardinality(Walked(e)) > MaxFolders
<1>1. workspace \in Workspace /\ FileTree(workspace) /\ MaxFolders \in Nat
  BY TreeFacts, SkillWalkAssumption
<1>2. e \in Entry /\ e.to \in Folders
  BY EntryFacts DEF WalkOK, FolderEntries
<1>3. seen \subseteq Walked(e)
  BY <1>1, <1>2, PathFacts DEF WalkOK
<1>4. IsFiniteSet(Walked(e)) /\ Cardinality(Walked(e)) \in Nat
  BY <1>1, <1>2, WalkedFacts
<1>5. Cardinality(seen) <= Cardinality(Walked(e))
  BY <1>3, <1>4, FS_Subset
<1>6. found.folders \in Nat
  BY DEF Walk
<1> QED
  BY <1>1, <1>4, <1>5, <1>6 DEF Counted

\* What each change of a walk leaves alone.
LEMMA WalkFields ==
  ASSUME NEW w \in Walk
  PROVE  w.folders \in Nat /\ w.files \in Seq(FileFound) /\ w.overCap \in BOOLEAN
BY DEF Walk

LEMMA WalkCounts ==
  ASSUME NEW w \in Walk
  PROVE  /\ [w EXCEPT !.folders = @ + 1] \in Walk
         /\ [w EXCEPT !.folders = @ + 1].folders = w.folders + 1
         /\ [w EXCEPT !.folders = @ + 1].files = w.files
         /\ [w EXCEPT !.folders = @ + 1].loops = w.loops
         /\ ([w EXCEPT !.folders = @ + 1].overCap <=> w.overCap)
BY DEF Walk

LEMMA WalkStops ==
  ASSUME NEW w \in Walk
  PROVE  /\ [w EXCEPT !.overCap = TRUE] \in Walk
         /\ [w EXCEPT !.overCap = TRUE].folders = w.folders
         /\ [w EXCEPT !.overCap = TRUE].files = w.files
         /\ [w EXCEPT !.overCap = TRUE].loops = w.loops
         /\ [w EXCEPT !.overCap = TRUE].overCap
BY DEF Walk

LEMMA WalkFinds ==
  ASSUME NEW w \in Walk, NEW f \in FileFound
  PROVE  /\ [w EXCEPT !.files = Append(@, f)] \in Walk
         /\ [w EXCEPT !.files = Append(@, f)].folders = w.folders
         /\ [w EXCEPT !.files = Append(@, f)].files = Append(w.files, f)
         /\ [w EXCEPT !.files = Append(@, f)].loops = w.loops
         /\ ([w EXCEPT !.files = Append(@, f)].overCap <=> w.overCap)
<1> DEFINE longer == Append(w.files, f)
<1>1. longer \in Seq(FileFound)
  BY WalkFields
<1>2. [w EXCEPT !.files = Append(@, f)] = [w EXCEPT !.files = longer]
  OBVIOUS
<1> HIDE DEF longer
<1>3. [w EXCEPT !.files = longer] \in Walk
  BY <1>1 DEF Walk
<1>4. /\ [w EXCEPT !.files = longer].folders = w.folders
      /\ [w EXCEPT !.files = longer].files = longer
      /\ [w EXCEPT !.files = longer].loops = w.loops
  BY DEF Walk
<1>5. [w EXCEPT !.files = longer].overCap <=> w.overCap
  BY DEF Walk
<1> QED
  BY <1>2, <1>3, <1>4, <1>5 DEF longer

LEMMA WalkSkips ==
  ASSUME NEW w \in Walk, NEW p \in Seq(STRING)
  PROVE  /\ [w EXCEPT !.unreadable = @ \cup {p}] \in Walk
         /\ [w EXCEPT !.unreadable = @ \cup {p}].folders = w.folders
         /\ [w EXCEPT !.unreadable = @ \cup {p}].files = w.files
         /\ [w EXCEPT !.unreadable = @ \cup {p}].loops = w.loops
         /\ ([w EXCEPT !.unreadable = @ \cup {p}].overCap <=> w.overCap)
BY DEF Walk

LEMMA WalkLoops ==
  ASSUME NEW w \in Walk, NEW l \in SUBSET Seq(STRING)
  PROVE  /\ [w EXCEPT !.loops = @ \cup l] \in Walk
         /\ [w EXCEPT !.loops = @ \cup l].folders = w.folders
         /\ [w EXCEPT !.loops = @ \cup l].files = w.files
         /\ [w EXCEPT !.loops = @ \cup l].loops = w.loops \cup l
         /\ ([w EXCEPT !.loops = @ \cup l].overCap <=> w.overCap)
BY DEF Walk

LEMMA AppendFacts ==
  ASSUME NEW S, NEW s \in Seq(S), NEW x \in S
  PROVE  /\ Append(s, x) \in Seq(S) /\ Len(s) \in Nat /\ Len(Append(s, x)) = Len(s) + 1
         /\ DOMAIN s = 1 .. Len(s) /\ DOMAIN Append(s, x) = 1 .. Len(s) + 1
         /\ \A i \in 1 .. Len(s) : Append(s, x)[i] = s[i]
         /\ Append(s, x)[Len(s) + 1] = x
OBVIOUS

\* A call begins: its path is new, below the calls at work, and nothing is entered below it yet.
Begins(e, calls, above, found, seen, d, x) ==
  /\ calls \in Seq(Call) /\ above \in Seq(Folders) /\ found \in Walk /\ ~found.overCap
  /\ seen \in SUBSET Trails /\ IsFiniteSet(seen) /\ Cardinality(seen) = found.folders + 1
  /\ d \in seen /\ x \in Folders /\ d.chain = Append(above, x)
  /\ WalkOK(e, calls, above, found, seen, {d})
  /\ \A j \in DOMAIN calls : \A m \in 1 .. j : d.path[m] = calls[j].path[m]
  /\ \A q \in seen :
       ~ (Len(q.path) > Len(d.path) /\ \A m \in 1 .. Len(d.path) : q.path[m] = d.path[m])

\* A call that has run to its loop, or returned: what it takes and leaves is the walk's again.
LEMMA CallKeeps ==
  ASSUME TypeOK, NEW e, NEW calls, NEW above, NEW found, NEW seen, NEW d, NEW x,
         Begins(e, calls, above, found, seen, d, x),
         WalkSkillFolder(d.path, d.chain, calls, found)
  PROVE  /\ WalkOK(e, frames', realAncestors', walk', seen, {})
         /\ Counted(walk', seen)
         /\ frames' \in Seq(Call) /\ realAncestors' \in Seq(Folders) /\ walk' \in Walk
<1> DEFINE counted == [found EXCEPT !.folders = @ + 1]
           stays == counted.folders <= MaxFolders /\ Descends(x)
           n == Len(calls)
<1> USE DEF Begins
<1>1. /\ workspace \in Workspace /\ FileTree(workspace) /\ MaxFolders \in Nat
  BY TreeFacts, SkillWalkAssumption
<1>2. /\ d.path \in Seq(STRING) /\ d.chain \in Seq(Folders)
      /\ d = [path |-> d.path, chain |-> d.chain]
      /\ n \in Nat /\ Len(above) \in Nat /\ Len(above) = n + 1 /\ Len(d.path) = n + 1
      /\ Len(d.chain) = n + 2 /\ d.chain[Len(d.chain)] = x /\ End(d) = x
      /\ DOMAIN calls = 1 .. n
  <2>1. /\ d.path \in Seq(STRING) /\ d.chain \in Seq(Folders)
        /\ d = [path |-> d.path, chain |-> d.chain]
    BY DEF Trails
  <2>2. Len(above) = n + 1 /\ Len(d.chain) = Len(d.path) + 1
    BY DEF WalkOK, StackOK, PathOf
  <2>3. Len(d.chain) = Len(above) + 1 /\ d.chain[Len(above) + 1] = x
    OBVIOUS
  <2>4. n \in Nat /\ Len(above) \in Nat /\ Len(d.path) \in Nat /\ DOMAIN calls = 1 .. n
    BY <2>1
  <2> QED
    BY <2>1, <2>2, <2>3, <2>4 DEF End
<1>3. /\ counted \in Walk /\ counted.folders = found.folders + 1 /\ counted.files = found.files
      /\ counted.loops = found.loops
      /\ found.folders \in Nat /\ found.files \in Seq(FileFound)
  BY WalkCounts, WalkFields
<1>10. ~counted.overCap
  BY WalkCounts
<1>4. /\ walk' = CASE counted.folders > MaxFolders -> [counted EXCEPT !.overCap = TRUE]
                   [] stays -> counted
                   [] counted.folders <= MaxFolders /\ ~Readable(x) ->
                        [counted EXCEPT !.unreadable = @ \cup {d.path}]
                   [] OTHER -> [counted EXCEPT !.files = Append(@, SkillFile(d.path, x))]
      /\ frames' = IF stays
                   THEN Append(calls, [folder |-> x, path |-> d.path, left |-> Children(x)])
                   ELSE calls
      /\ realAncestors' = IF stays THEN d.chain ELSE SubSeq(d.chain, 1, Len(d.chain) - 1)
  BY <1>2 DEF WalkSkillFolder
<1>5. SubSeq(d.chain, 1, Len(d.chain) - 1) = above
  BY <1>2, PrefixStays
<1>6. counted.folders \in Nat /\ Cardinality(seen) = counted.folders
  BY <1>3
<1> HIDE DEF counted
<1>7. CASE counted.folders > MaxFolders
  <2> ~stays
    BY <1>1, <1>6, <1>7
  <2> HIDE DEF stays
  <2>1. frames' = calls /\ realAncestors' = above /\ walk' = [counted EXCEPT !.overCap = TRUE]
    <3>1. frames' = calls /\ realAncestors' = above
      BY <1>4, <1>5
    <3>2. ~(counted.folders <= MaxFolders)
      BY <1>1, <1>6, <1>7
    <3> QED
      BY <1>4, <1>7, <3>1, <3>2
  <2>2. /\ walk' \in Walk /\ walk'.folders = counted.folders /\ walk'.overCap
        /\ walk'.files = found.files /\ walk'.loops = found.loops
    BY <1>3, <2>1, WalkStops
  <2>3. Counted(walk', seen)
    BY <1>6, <1>7, <2>2 DEF Counted
  <2>4. Covered(calls, above, walk', seen \ {}, seen)
    BY <2>2 DEF Covered
  <2>5. FilesOK(calls, above, walk', seen \ {}, seen)
    BY <2>2 DEF FilesOK, WalkOK
  <2>6. WalkOK(e, calls, above, walk', seen, {})
    BY <2>2, <2>4, <2>5 DEF WalkOK
  <2> QED
    BY <2>1, <2>2, <2>3, <2>6
<1>8. CASE counted.folders <= MaxFolders /\ ~Descends(x)
  <2>1. /\ frames' = calls /\ realAncestors' = above
        /\ ~Readable(x) => walk' = [counted EXCEPT !.unreadable = @ \cup {d.path}]
        /\ Readable(x) => walk' = [counted EXCEPT !.files = Append(@, SkillFile(d.path, x))]
    BY <1>1, <1>4, <1>5, <1>6, <1>8
  <2>2. Readable(x) => HasSkillFile(x) /\ SkillFile(d.path, x) \in FileFound
    <3> SUFFICES ASSUME Readable(x) PROVE HasSkillFile(x) /\ SkillFile(d.path, x) \in FileFound
      OBVIOUS
    <3>1. HasSkillFile(x)
      BY <1>8 DEF Descends
    <3>2. /\ SkillEntries(x) \in SUBSET Nat /\ SkillEntries(x) # {}
          /\ SkillEntries(x) \subseteq Children(x)
      BY <1>1, <3>1, ChildFacts DEF HasSkillFile, SkillEntries
    <3>3. First(SkillEntries(x)) \in Children(x)
      BY <3>2, FirstIsLeast
    <3>4. Child(x, First(SkillEntries(x))) \in Entry
      BY <1>1, <3>3, ChildFacts
    <3> QED
      BY <1>2, <3>1, <3>4 DEF SkillFile, Found, FileFound, Entry
  <2>3. /\ walk' \in Walk /\ walk'.folders = counted.folders /\ ~walk'.overCap
        /\ walk'.loops = found.loops
        /\ ~Readable(x) => walk'.files = found.files
        /\ Readable(x) => walk'.files = Append(found.files, SkillFile(d.path, x))
    <3>1. CASE Readable(x)
      <4>1. walk' = [counted EXCEPT !.files = Append(@, SkillFile(d.path, x))]
        BY <2>1, <3>1
      <4>2. SkillFile(d.path, x) \in FileFound
        BY <2>2, <3>1
      <4>3. walk' \in Walk
        BY <1>3, <4>1, <4>2, WalkFinds
      <4>4. walk'.folders = counted.folders
        BY <1>3, <4>1, <4>2, WalkFinds
      <4>5. walk'.files = Append(counted.files, SkillFile(d.path, x))
        BY <1>3, <4>1, <4>2, WalkFinds
      <4>6. walk'.loops = counted.loops
        BY <1>3, <4>1, <4>2, WalkFinds
      <4>7. ~walk'.overCap
        BY <1>3, <1>10, <4>1, <4>2, WalkFinds
      <4> QED
        BY <1>3, <3>1, <4>3, <4>4, <4>5, <4>6, <4>7
    <3>2. CASE ~Readable(x)
      <4>1. walk' = [counted EXCEPT !.unreadable = @ \cup {d.path}]
        BY <2>1, <3>2
      <4>2. d.path \in Seq(STRING)
        BY <1>2
      <4>3. walk' \in Walk
        BY <1>3, <4>1, <4>2, WalkSkips
      <4>4. walk'.folders = counted.folders /\ walk'.files = counted.files
        BY <1>3, <4>1, <4>2, WalkSkips
      <4>5. walk'.loops = counted.loops
        BY <1>3, <4>1, <4>2, WalkSkips
      <4>6. ~walk'.overCap
        BY <1>3, <1>10, <4>1, <4>2, WalkSkips
      <4> QED
        BY <1>3, <3>2, <4>3, <4>4, <4>5, <4>6
    <3> QED
      BY <3>1, <3>2
  <2>4. Counted(walk', seen)
    BY <1>1, <1>6, <1>8, <2>3 DEF Counted
  <2>5. Covered(calls, above, walk', seen \ {}, seen)
    <3> SUFFICES ASSUME walk'.loops = {}, NEW p \in seen, NEW i \in Children(End(p)),
                        Descends(End(p)), Child(End(p), i).directory
                 PROVE  \/ Onto(p, Child(End(p), i)) \in seen
                        \/ \E k \in DOMAIN calls : p = Trail(calls, above, k) /\ i \in calls[k].left
      BY DEF Covered
    <3>1. p # d
      BY <1>2, <1>8
    <3> QED
      BY <2>3, <3>1 DEF WalkOK, Covered
  <2>6. PiFilesAt(d, Listed) = IF Readable(x) THEN {SkillFile(d.path, x)} ELSE {}
    BY <1>2, <2>2 DEF PiFilesAt
  <2>7. /\ \A m \in DOMAIN found.files : m \in DOMAIN walk'.files /\ walk'.files[m] = found.files[m]
        /\ \A m \in DOMAIN walk'.files :
             \/ m \in DOMAIN found.files /\ walk'.files[m] = found.files[m]
             \/ Readable(x) /\ walk'.files[m] = SkillFile(d.path, x)
        /\ Readable(x) => \E m \in DOMAIN walk'.files : walk'.files[m] = SkillFile(d.path, x)
    <3>1. CASE Readable(x)
      <4>1. walk'.files = Append(found.files, SkillFile(d.path, x))
        BY <2>3, <3>1
      <4>2. /\ DOMAIN found.files = 1 .. Len(found.files) /\ Len(found.files) \in Nat
            /\ DOMAIN walk'.files = 1 .. Len(found.files) + 1
            /\ \A m \in 1 .. Len(found.files) : walk'.files[m] = found.files[m]
            /\ walk'.files[Len(found.files) + 1] = SkillFile(d.path, x)
        BY <1>3, <2>2, <3>1, <4>1, AppendFacts
      <4>3. \A m \in DOMAIN walk'.files : m \in 1 .. Len(found.files) \/ m = Len(found.files) + 1
        BY <4>2
      <4>4. Len(found.files) + 1 \in DOMAIN walk'.files
        BY <4>2
      <4>5. \A m \in DOMAIN found.files :
              m \in DOMAIN walk'.files /\ walk'.files[m] = found.files[m]
        BY <4>2
      <4> QED
        BY <3>1, <4>2, <4>3, <4>4, <4>5
    <3>2. CASE ~Readable(x)
      BY <2>3, <3>2
    <3> QED
      BY <3>1, <3>2
  <2>8. FilesOK(calls, above, walk', seen \ {}, seen)
    <3>1. ASSUME NEW m \in DOMAIN walk'.files
          PROVE  \E p \in seen : walk'.files[m] \in PiFilesAt(p, Listed)
      BY <2>6, <2>7, <3>1 DEF WalkOK, FilesOK
    <3>2. ASSUME NEW p \in seen, NEW f \in PiFilesAt(p, Listed)
          PROVE  \/ \E m \in DOMAIN walk'.files : walk'.files[m] = f
                 \/ \E k \in DOMAIN calls :
                      /\ p = Trail(calls, above, k)
                      /\ \E i \in calls[k].left :
                           Markdown(Child(End(p), i)) /\ f = Found(p.path, Child(End(p), i))
      <4>1. CASE p = d
        BY <2>6, <2>7, <4>1
      <4>2. CASE p # d
        <5>1. \/ \E m \in DOMAIN found.files : found.files[m] = f
              \/ \E k \in DOMAIN calls :
                      /\ p = Trail(calls, above, k)
                      /\ \E i \in calls[k].left :
                           Markdown(Child(End(p), i)) /\ f = Found(p.path, Child(End(p), i))
          BY <3>2, <4>2 DEF WalkOK, FilesOK
        <5> QED
          BY <2>7, <5>1
      <4> QED
        BY <4>1, <4>2
    <3> QED
      BY <3>1, <3>2 DEF FilesOK
  <2>9. WalkOK(e, calls, above, walk', seen, {})
    BY <2>3, <2>5, <2>8 DEF WalkOK
  <2> QED
    BY <2>1, <2>3, <2>4, <2>9
<1>9. CASE counted.folders <= MaxFolders /\ Descends(x)
  <2> DEFINE new == [folder |-> x, path |-> d.path, left |-> Children(x)]
             deeper == Append(calls, new)
  <2> stays
    BY <1>9
  <2> HIDE DEF stays
  <2>1. frames' = deeper /\ realAncestors' = d.chain /\ walk' = counted
    <3>1. frames' = deeper /\ realAncestors' = d.chain
      BY <1>4
    <3>2. ~(counted.folders > MaxFolders) /\ Readable(x)
      BY <1>1, <1>6, <1>9 DEF Descends
    <3> QED
      BY <1>4, <3>1, <3>2
  <2>2. new \in Call /\ new.folder = x /\ new.path = d.path /\ new.left = Children(x)
    BY <1>1, <1>2, ChildFacts DEF Call
  <2> HIDE DEF new
  <2>3. /\ deeper \in Seq(Call) /\ Len(deeper) = n + 1 /\ DOMAIN deeper = 1 .. n + 1
        /\ deeper[n + 1] = new
        /\ \A k \in 1 .. n : deeper[k] = calls[k]
    BY <1>2, <2>2
  <2> HIDE DEF deeper
  <2>4. Counted(walk', seen)
    BY <1>1, <1>3, <1>6, <1>9, <1>10, <2>1 DEF Counted
  <2>5. \A k \in 1 .. n : Trail(deeper, d.chain, k) = Trail(calls, above, k)
    <3>1. ASSUME NEW k \in 1 .. n PROVE SubSeq(d.chain, 1, k + 1) = SubSeq(above, 1, k + 1)
      <4>1. k + 1 \in Nat /\ k + 1 <= Len(above)
        BY <1>2
      <4> QED
        BY <4>1, PrefixStays
    <3> QED
      BY <2>3, <3>1 DEF Trail
  <2>6. Trail(deeper, d.chain, n + 1) = d
    <3>1. SubSeq(d.chain, 1, Len(above) + 1) = d.chain
      BY <1>2, PrefixStays
    <3>2. (n + 1) + 1 = Len(above) + 1
      BY <1>2
    <3> QED
      BY <1>2, <2>2, <2>3, <3>1, <3>2 DEF Trail
  <2>7. StackOK(deeper, d.chain, seen)
    <3>1. Len(d.chain) = Len(deeper) + 1
      BY <1>2, <2>3
    <3>2. ASSUME NEW k \in 1 .. n + 1
          PROVE  /\ d.chain[k + 1] = deeper[k].folder
                 /\ Len(deeper[k].path) = k
                 /\ Trail(deeper, d.chain, k) \in seen
                 /\ Descends(deeper[k].folder)
                 /\ deeper[k].left \subseteq Children(deeper[k].folder)
      <4>1. CASE k = n + 1
        BY <1>2, <1>9, <2>2, <2>3, <2>6, <4>1
      <4>2. CASE k # n + 1
        <5>1. k \in 1 .. n /\ k \in DOMAIN calls
          BY <1>2, <4>2
        <5>2. d.chain[k + 1] = above[k + 1]
          BY <1>2, <5>1
        <5>3. deeper[k] = calls[k] /\ Trail(deeper, d.chain, k) = Trail(calls, above, k)
          BY <2>3, <2>5, <5>1
        <5> QED
          BY <5>1, <5>2, <5>3 DEF WalkOK, StackOK
      <4> QED
        BY <4>1, <4>2
    <3>3. ASSUME NEW j \in 1 .. n + 1, NEW k \in 1 .. n + 1, j < k, NEW m \in 1 .. j
          PROVE  deeper[k].path[m] = deeper[j].path[m]
      <4>1. j \in 1 .. n /\ j \in DOMAIN calls /\ deeper[j] = calls[j]
        BY <1>2, <2>3, <3>3
      <4>2. CASE k = n + 1
        BY <2>2, <2>3, <4>1, <4>2
      <4>3. CASE k # n + 1
        <5>1. k \in DOMAIN calls /\ deeper[k] = calls[k]
          BY <1>2, <2>3, <4>3
        <5> QED
          BY <3>3, <4>1, <5>1 DEF WalkOK, StackOK
      <4> QED
        BY <4>2, <4>3
    <3> QED
      BY <2>3, <3>1, <3>2, <3>3 DEF StackOK
  <2>8. Unvisited(deeper, seen)
    <3> SUFFICES ASSUME NEW k \in 1 .. n + 1, NEW i \in deeper[k].left, NEW q \in seen,
                        Len(q.path) > k,
                        \A m \in 1 .. k : q.path[m] = deeper[k].path[m],
                        q.path[k + 1] = Child(deeper[k].folder, i).name
                 PROVE  FALSE
      BY <2>3 DEF Unvisited
    <3>1. CASE k = n + 1
      BY <1>2, <2>2, <2>3, <3>1
    <3>2. CASE k # n + 1
      <4>1. k \in DOMAIN calls /\ deeper[k] = calls[k]
        BY <1>2, <2>3, <3>2
      <4> QED
        BY <4>1 DEF WalkOK, Unvisited
    <3> QED
      BY <3>1, <3>2
  <2>9. Covered(deeper, d.chain, walk', seen \ {}, seen)
    <3> SUFFICES ASSUME walk'.loops = {}, NEW p \in seen, NEW i \in Children(End(p)),
                        Descends(End(p)), Child(End(p), i).directory
                 PROVE  \/ Onto(p, Child(End(p), i)) \in seen
                        \/ \E k \in 1 .. n + 1 :
                             p = Trail(deeper, d.chain, k) /\ i \in deeper[k].left
      BY <2>3 DEF Covered
    <3>1. CASE p = d
      <4>1. n + 1 \in 1 .. n + 1
        BY <1>2
      <4> QED
        BY <1>2, <2>2, <2>3, <2>6, <3>1, <4>1
    <3>2. CASE p # d
      <4>1. \/ Onto(p, Child(End(p), i)) \in seen
            \/ \E k \in DOMAIN calls : p = Trail(calls, above, k) /\ i \in calls[k].left
        BY <1>3, <1>10, <2>1, <3>2 DEF WalkOK, Covered
      <4>2. \A k \in DOMAIN calls : k \in 1 .. n + 1 /\ k \in 1 .. n
        BY <1>2
      <4> QED
        BY <2>3, <2>5, <4>1, <4>2
    <3> QED
      BY <3>1, <3>2
  <2>10. FilesOK(deeper, d.chain, walk', seen \ {}, seen)
    <3>1. walk'.files = found.files
      BY <1>3, <2>1
    <3>2. ASSUME NEW p \in seen, NEW f \in PiFilesAt(p, Listed)
          PROVE  \/ \E m \in DOMAIN walk'.files : walk'.files[m] = f
                 \/ \E k \in 1 .. n + 1 :
                      /\ p = Trail(deeper, d.chain, k)
                      /\ \E i \in deeper[k].left :
                           Markdown(Child(End(p), i)) /\ f = Found(p.path, Child(End(p), i))
      <4>1. CASE p = d
        <5>1. \E i \in Children(x) : Markdown(Child(x, i)) /\ f = Found(d.path, Child(x, i))
          BY <1>2, <1>9, <3>2, <4>1 DEF PiFilesAt, Descends
        <5>2. n + 1 \in 1 .. n + 1
          BY <1>2
        <5> QED
          BY <1>2, <2>2, <2>3, <2>6, <4>1, <5>1, <5>2
      <4>2. CASE p # d
        <5>1. \/ \E m \in DOMAIN found.files : found.files[m] = f
              \/ \E k \in DOMAIN calls :
                      /\ p = Trail(calls, above, k)
                      /\ \E i \in calls[k].left :
                           Markdown(Child(End(p), i)) /\ f = Found(p.path, Child(End(p), i))
          BY <3>2, <4>2 DEF WalkOK, FilesOK
        <5>2. \A k \in DOMAIN calls : k \in 1 .. n + 1 /\ k \in 1 .. n
          BY <1>2
        <5> QED
          BY <2>3, <2>5, <3>1, <5>1, <5>2
      <4> QED
        BY <4>1, <4>2
    <3> QED
      BY <2>3, <3>1, <3>2 DEF FilesOK, WalkOK
  <2>11. WalkOK(e, deeper, d.chain, walk', seen, {})
    BY <1>3, <2>1, <2>7, <2>8, <2>9, <2>10 DEF WalkOK
  <2> QED
    BY <1>2, <1>3, <2>1, <2>3, <2>4, <2>11
<1> QED
  BY <1>1, <1>6, <1>7, <1>8, <1>9


-----------------------------------------------------------------------------
(* The call at work.                                                       *)

\* Its folder and its entry.
TopTrail == Trail(frames, realAncestors, Len(frames))

LEMMA TopFacts ==
  ASSUME TypeOK, WalkInv, step = "walk", frames # <<>>
  PROVE  /\ Len(frames) \in Nat /\ Len(frames) > 0 /\ Len(frames) \in DOMAIN frames
         /\ DOMAIN frames = 1 .. Len(frames)
         /\ Top \in Call /\ Top.left \subseteq Children(Top.folder) /\ Descends(Top.folder)
         /\ Len(realAncestors) = Len(frames) + 1
         /\ TopTrail = [path |-> Top.path, chain |-> realAncestors]
         /\ TopTrail.path = Top.path /\ TopTrail.chain = realAncestors
         /\ TopTrail \in entered /\ TopTrail \in Trails /\ PathOf(entry, TopTrail)
         /\ End(TopTrail) = Top.folder
         /\ Len(Top.path) = Len(frames)
         /\ entry \in Entry /\ entry.to \in Folders
<1> DEFINE n == Len(frames)
<1>1. frames \in Seq(Call) /\ realAncestors \in Seq(Folders) /\ entered \in SUBSET Trails
  BY DEF TypeOK
<1>2. n \in Nat /\ n > 0 /\ n \in DOMAIN frames /\ DOMAIN frames = 1 .. n
  BY <1>1
<1>3. WalkOK(entry, frames, realAncestors, walk, entered, {})
  BY DEF WalkInv
<1>4. StackOK(frames, realAncestors, entered)
  BY <1>3 DEF WalkOK
<1>5. Top \in Call /\ Top = frames[n]
  BY <1>1, <1>2 DEF Top
<1>6. /\ Len(realAncestors) = n + 1 /\ realAncestors[n + 1] = Top.folder /\ Len(Top.path) = n
      /\ TopTrail \in entered /\ Descends(Top.folder) /\ Top.left \subseteq Children(Top.folder)
  BY <1>2, <1>4, <1>5 DEF StackOK, TopTrail
<1>7. SubSeq(realAncestors, 1, n + 1) = realAncestors
  BY <1>1, <1>6
<1>8. TopTrail = [path |-> Top.path, chain |-> realAncestors]
  BY <1>5, <1>7 DEF TopTrail, Trail
<1>9. TopTrail.path = Top.path /\ TopTrail.chain = realAncestors /\ End(TopTrail) = Top.folder
  BY <1>6, <1>8 DEF End
<1>10. PathOf(entry, TopTrail) /\ TopTrail \in Trails
  BY <1>1, <1>3, <1>6 DEF WalkOK
<1>11. entry \in Entry /\ entry.to \in Folders
  BY <1>3, EntryFacts DEF WalkOK, FolderEntries
<1> QED
  BY <1>2, <1>5, <1>6, <1>8, <1>9, <1>10, <1>11

\* The next of its children, and the calls that have it behind them.
LEMMA PlaceFacts ==
  ASSUME TypeOK, WalkInv, Visiting
  PROVE  /\ Place \in Top.left /\ Place \in Children(Top.folder)
         /\ Visited = Child(End(TopTrail), Place) /\ Visited \in Entry
         /\ NextPlace \in Seq(Call) /\ Len(NextPlace) = Len(frames)
         /\ DOMAIN NextPlace = DOMAIN frames
         /\ \A k \in DOMAIN frames :
              /\ NextPlace[k].folder = frames[k].folder /\ NextPlace[k].path = frames[k].path
              /\ NextPlace[k].left \subseteq frames[k].left
              /\ k # Len(frames) => NextPlace[k].left = frames[k].left
              /\ \A above : Trail(NextPlace, above, k) = Trail(frames, above, k)
         /\ NextPlace[Len(frames)].left = Top.left \ {Place}
<1>1. /\ workspace \in Workspace /\ frames \in Seq(Call)
      /\ step = "walk" /\ frames # <<>> /\ Top.left # {}
  BY TreeFacts DEF TypeOK, Visiting
<1>2. /\ Len(frames) \in DOMAIN frames /\ DOMAIN frames = 1 .. Len(frames) /\ Len(frames) \in Nat
      /\ Top \in Call /\ Top.left \subseteq Children(Top.folder) /\ End(TopTrail) = Top.folder
  BY <1>1, TopFacts
<1>3. Top.left \in SUBSET Nat /\ Top.folder \in Folders
  BY <1>2 DEF Call
<1>4. Place \in Top.left
  BY <1>1, <1>3, FirstIsLeast DEF Place
<1>5. Place \in Children(Top.folder) /\ Visited = Child(End(TopTrail), Place) /\ Visited \in Entry
  BY <1>1, <1>2, <1>3, <1>4, ChildFacts DEF Visited
<1> DEFINE n == Len(frames)
           next == [frames[n] EXCEPT !.left = @ \ {Place}]
<1>6. NextPlace = [frames EXCEPT ![n] = next]
  BY DEF NextPlace
<1>7. /\ next \in Call /\ next.folder = frames[n].folder /\ next.path = frames[n].path
      /\ next.left = Top.left \ {Place}
  BY <1>2 DEF Top, Call
<1> HIDE DEF next
<1>8. /\ NextPlace \in Seq(Call) /\ Len(NextPlace) = n /\ DOMAIN NextPlace = DOMAIN frames
      /\ NextPlace[n] = next
      /\ \A k \in DOMAIN frames : k # n => NextPlace[k] = frames[k]
  BY <1>1, <1>2, <1>6, <1>7
<1>9. ASSUME NEW k \in DOMAIN frames
      PROVE  /\ NextPlace[k].folder = frames[k].folder /\ NextPlace[k].path = frames[k].path
             /\ NextPlace[k].left \subseteq frames[k].left
             /\ k # Len(frames) => NextPlace[k].left = frames[k].left
  <2>1. CASE k = n
    BY <1>7, <1>8, <2>1 DEF Top
  <2>2. CASE k # n
    BY <1>8, <2>2
  <2> QED
    BY <2>1, <2>2
<1>10. \A k \in DOMAIN frames : \A above : Trail(NextPlace, above, k) = Trail(frames, above, k)
  BY <1>9 DEF Trail
<1> QED
  BY <1>4, <1>5, <1>7, <1>8, <1>9, <1>10

LEMMA NextStack ==
  ASSUME TypeOK, WalkInv, Visiting, NEW seen, entered \subseteq seen
  PROVE  StackOK(NextPlace, realAncestors, seen)
<1>1. StackOK(frames, realAncestors, entered)
  BY DEF WalkInv, WalkOK, Visiting
<1>2. ASSUME NEW k \in DOMAIN frames
      PROVE  /\ realAncestors[k + 1] = NextPlace[k].folder
             /\ Len(NextPlace[k].path) = k
             /\ Trail(NextPlace, realAncestors, k) \in seen
             /\ Descends(NextPlace[k].folder)
             /\ NextPlace[k].left \subseteq Children(NextPlace[k].folder)
  <2>1. /\ NextPlace[k].folder = frames[k].folder /\ NextPlace[k].path = frames[k].path
        /\ NextPlace[k].left \subseteq frames[k].left
        /\ Trail(NextPlace, realAncestors, k) = Trail(frames, realAncestors, k)
    BY PlaceFacts
  <2> QED
    BY <1>1, <2>1 DEF StackOK
<1>3. \A j, k \in DOMAIN frames : j < k =>
        \A m \in 1 .. j : NextPlace[k].path[m] = NextPlace[j].path[m]
  <2>1. \A k \in DOMAIN frames : NextPlace[k].path = frames[k].path
    BY PlaceFacts
  <2> QED
    BY <1>1, <2>1 DEF StackOK
<1>4. Len(realAncestors) = Len(NextPlace) + 1 /\ DOMAIN NextPlace = DOMAIN frames
  BY <1>1, PlaceFacts DEF StackOK
<1> QED
  BY <1>2, <1>3, <1>4 DEF StackOK

LEMMA NextUnvisited ==
  ASSUME TypeOK, WalkInv, Visiting
  PROVE  Unvisited(NextPlace, entered)
<1>1. Unvisited(frames, entered)
  BY DEF WalkInv, WalkOK, Visiting
<1>2. \A k \in DOMAIN frames :
        /\ NextPlace[k].folder = frames[k].folder /\ NextPlace[k].path = frames[k].path
        /\ NextPlace[k].left \subseteq frames[k].left
  BY PlaceFacts
<1>3. DOMAIN NextPlace = DOMAIN frames
  BY PlaceFacts
<1> QED
  BY <1>1, <1>2, <1>3 DEF Unvisited

LEMMA NextCovers ==
  ASSUME TypeOK, WalkInv, Visiting, NEW seen, entered \subseteq seen, NEW found,
         found.loops = {} => walk.loops = {},
         found.loops = {} /\ Visited.directory => Onto(TopTrail, Visited) \in seen
  PROVE  Covered(NextPlace, realAncestors, found, entered, seen)
<1> SUFFICES ASSUME found.loops = {}, NEW d \in entered, NEW i \in Children(End(d)),
                    Descends(End(d)), Child(End(d), i).directory
             PROVE  \/ Onto(d, Child(End(d), i)) \in seen
                    \/ \E k \in DOMAIN NextPlace :
                         d = Trail(NextPlace, realAncestors, k) /\ i \in NextPlace[k].left
  BY DEF Covered
<1>1. CASE Onto(d, Child(End(d), i)) \in entered
  BY <1>1
<1>2. CASE Onto(d, Child(End(d), i)) \notin entered
  <2>1. PICK k \in DOMAIN frames : d = Trail(frames, realAncestors, k) /\ i \in frames[k].left
    BY <1>2 DEF WalkInv, WalkOK, Visiting, Covered
  <2>2. d = Trail(NextPlace, realAncestors, k) /\ k \in DOMAIN NextPlace
    BY <2>1, PlaceFacts
  <2>3. CASE k # Len(frames)
    <3>1. NextPlace[k].left = frames[k].left
      BY <2>3, PlaceFacts
    <3> QED
      BY <2>1, <2>2, <3>1
  <2>4. CASE k = Len(frames)
    <3>1. d = TopTrail /\ frames[k] = Top
      BY <2>1, <2>4 DEF TopTrail, Top
    <3>2. NextPlace[k].left = Top.left \ {Place} /\ Visited = Child(End(TopTrail), Place)
      BY <2>4, PlaceFacts
    <3>3. CASE i = Place
      BY <3>1, <3>2, <3>3
    <3>4. CASE i # Place
      BY <2>1, <2>2, <3>1, <3>2, <3>4
    <3> QED
      BY <3>3, <3>4
  <2> QED
    BY <2>3, <2>4
<1> QED
  BY <1>1, <1>2

LEMMA NextFiles ==
  ASSUME TypeOK, WalkInv, Visiting, NEW seen, entered \subseteq seen, NEW found,
         \A n \in DOMAIN walk.files : n \in DOMAIN found.files /\ found.files[n] = walk.files[n],
         \A n \in DOMAIN found.files :
           \/ n \in DOMAIN walk.files /\ found.files[n] = walk.files[n]
           \/ found.files[n] \in PiFilesAt(TopTrail, Listed),
         Markdown(Visited) /\ Found(TopTrail.path, Visited) \in PiFilesAt(TopTrail, Listed) =>
           \E n \in DOMAIN found.files : found.files[n] = Found(TopTrail.path, Visited)
  PROVE  FilesOK(NextPlace, realAncestors, found, entered, seen)
<1>1. FilesOK(frames, realAncestors, walk, entered, entered) /\ ~walk.overCap
  <2>1. entered \ {} = entered
    OBVIOUS
  <2> QED
    BY <2>1 DEF WalkInv, WalkOK, Visiting
<1>2. TopTrail \in entered
  BY TopFacts DEF Visiting
<1>3. ASSUME NEW n \in DOMAIN found.files
      PROVE  \E d \in seen : found.files[n] \in PiFilesAt(d, Listed)
  <2>1. CASE n \in DOMAIN walk.files /\ found.files[n] = walk.files[n]
    BY <1>1, <2>1 DEF FilesOK
  <2>2. CASE found.files[n] \in PiFilesAt(TopTrail, Listed)
    BY <1>2, <2>2
  <2> QED
    BY <2>1, <2>2
<1>4. ASSUME NEW d \in entered, NEW f \in PiFilesAt(d, Listed)
      PROVE  \/ \E n \in DOMAIN found.files : found.files[n] = f
             \/ \E k \in DOMAIN NextPlace :
                  /\ d = Trail(NextPlace, realAncestors, k)
                  /\ \E i \in NextPlace[k].left :
                       Markdown(Child(End(d), i)) /\ f = Found(d.path, Child(End(d), i))
  <2>1. CASE \E n \in DOMAIN walk.files : walk.files[n] = f
    BY <2>1
  <2>2. CASE ~ \E n \in DOMAIN walk.files : walk.files[n] = f
    <3>1. PICK k \in DOMAIN frames :
            /\ d = Trail(frames, realAncestors, k)
            /\ \E i \in frames[k].left :
                 Markdown(Child(End(d), i)) /\ f = Found(d.path, Child(End(d), i))
      BY <1>1, <2>2 DEF FilesOK
    <3>2. PICK i \in frames[k].left :
            Markdown(Child(End(d), i)) /\ f = Found(d.path, Child(End(d), i))
      BY <3>1
    <3>3. d = Trail(NextPlace, realAncestors, k) /\ k \in DOMAIN NextPlace
      BY <3>1, PlaceFacts
    <3>4. CASE k # Len(frames)
      <4>1. NextPlace[k].left = frames[k].left
        BY <3>4, PlaceFacts
      <4> QED
        BY <3>2, <3>3, <4>1
    <3>5. CASE k = Len(frames)
      <4>1. d = TopTrail /\ frames[k] = Top
        BY <3>1, <3>5 DEF TopTrail, Top
      <4>2. NextPlace[k].left = Top.left \ {Place} /\ Visited = Child(End(TopTrail), Place)
        BY <3>5, PlaceFacts
      <4>3. CASE i = Place
        BY <1>4, <3>2, <4>1, <4>2, <4>3
      <4>4. CASE i # Place
        BY <3>2, <3>3, <4>1, <4>2, <4>4
      <4> QED
        BY <4>3, <4>4
    <3> QED
      BY <3>4, <3>5
  <2> QED
    BY <2>1, <2>2
<1> QED
  BY <1>3, <1>4 DEF FilesOK

-----------------------------------------------------------------------------
(* The steps keep the invariant.                                           *)

LEMMA WalkAfter ==
  ASSUME Fixed,
         step' = "walk" => /\ WalkOK(entry', frames', realAncestors', walk', entered', {})
                           /\ Counted(walk', entered')
  PROVE  WalkInv'
BY WalkStays DEF WalkInv, Counted

LEMMA SelectionAfter ==
  ASSUME Fixed,
         step' = "ask" => selection' = NoSelection,
         step' \in {"take", "walk", "load"} => Walks,
         step' \in {"take", "walk"} => left' \subseteq Turns,
         step' \in {"take", "walk"} => selection'.loaded = <<>>,
         step' = "take" => SelectionOK(selection', Turns \ left', {}),
         step' = "walk" => SelectionOK(selection', Turns \ left', {entry'}),
         step' \in {"load", "done"} /\ Walks => SelectionOK(selection', Turns, {})
  PROVE  SelectionInv'
BY SelectionStays, EntriesStay DEF SelectionInv, NoSelection

LEMMA VisitFolderKeeps ==
  ASSUME TypeOK, WalkInv, VisitFolder
  PROVE  WalkInv' /\ frames' \in Seq(Call) /\ realAncestors' \in Seq(Folders) /\ walk' \in Walk
         /\ entered' \in SUBSET Trails
<1> DEFINE x == Visited.to
           d == Onto(TopTrail, Visited)
           seen == entered \cup {d}
           n == Len(frames)
<1>1. /\ workspace \in Workspace /\ FileTree(workspace)
      /\ realAncestors \in Seq(Folders) /\ walk \in Walk /\ entered \in SUBSET Trails
  BY TreeFacts DEF TypeOK
<1>2. /\ Visiting /\ step = "walk" /\ frames # <<>> /\ ~walk.overCap /\ Top.left # {}
      /\ Visited.directory /\ ~Loops(x, realAncestors)
  BY DEF VisitFolder, Visiting
<1>3. WalkOK(entry, frames, realAncestors, walk, entered, {}) /\ Counted(walk, entered)
  BY <1>2 DEF WalkInv
<1>4. /\ n \in Nat /\ n > 0 /\ n \in DOMAIN frames /\ DOMAIN frames = 1 .. n
      /\ TopTrail.path = Top.path /\ TopTrail.chain = realAncestors
      /\ TopTrail \in entered /\ TopTrail \in Trails /\ PathOf(entry, TopTrail)
      /\ End(TopTrail) = Top.folder /\ Descends(Top.folder) /\ Len(Top.path) = n
      /\ entry \in Entry /\ entry.to \in Folders
  BY <1>2, TopFacts
<1>5. /\ Place \in Top.left /\ Place \in Children(Top.folder)
      /\ Visited = Child(End(TopTrail), Place) /\ Visited \in Entry
      /\ NextPlace \in Seq(Call) /\ DOMAIN NextPlace = DOMAIN frames
  BY <1>2, PlaceFacts
<1>6. x \in Folders /\ d \in Trails /\ PathOf(entry, d)
  BY <1>1, <1>2, <1>4, <1>5, PathGoesOn
<1>7. /\ Len(d.path) = n + 1 /\ d.path[n + 1] = Visited.name
      /\ \A m \in 1 .. n : d.path[m] = Top.path[m]
  <2>1. TopTrail \in Trails /\ Visited \in Entry /\ Visited.to \in Folders /\ Len(TopTrail.path) = n
    BY <1>4, <1>5, <1>6
  <2>2. /\ Len(d.path) = Len(TopTrail.path) + 1
        /\ d.path[Len(TopTrail.path) + 1] = Visited.name
        /\ \A m \in 1 .. Len(TopTrail.path) : d.path[m] = TopTrail.path[m]
    BY <2>1, OntoFacts
  <2> QED
    BY <1>4, <2>1, <2>2
<1>8. d = [path |-> PathTo, chain |-> Append(realAncestors, x)]
  BY <1>4 DEF Onto, PathTo
<1>9. /\ d.path = PathTo /\ d.chain = Append(realAncestors, x)
  BY <1>8
<1>10. entered' = seen /\ WalkSkillFolder(d.path, d.chain, NextPlace, walk)
  BY <1>8, <1>9 DEF VisitFolder
<1> HIDE DEF d, x
<1>11. Unvisited(frames, entered) /\ StackOK(frames, realAncestors, entered)
  BY <1>3 DEF WalkOK
<1>12. \A q \in entered :
         ~ (Len(q.path) > n /\ \A m \in 1 .. n + 1 : q.path[m] = d.path[m])
  <2>1. \A m \in 1 .. n : m \in 1 .. n + 1
    BY <1>4
  <2>2. n + 1 \in 1 .. n + 1
    BY <1>4
  <2>3. Top = frames[n] /\ Place \in frames[n].left /\ Visited = Child(frames[n].folder, Place)
    BY <1>4, <1>5 DEF Top
  <2> QED
    BY <1>4, <1>7, <1>11, <2>1, <2>2, <2>3 DEF Unvisited
<1>13. d \notin entered
  BY <1>4, <1>7, <1>12
<1>14. IsFiniteSet(seen) /\ Cardinality(seen) = walk.folders + 1
  BY <1>3, <1>13, FS_AddElement DEF Counted
<1>15. \A q \in seen :
         ~ (Len(q.path) > Len(d.path) /\ \A m \in 1 .. Len(d.path) : q.path[m] = d.path[m])
  <2> SUFFICES ASSUME NEW q \in seen, Len(q.path) > Len(d.path),
                      \A m \in 1 .. Len(d.path) : q.path[m] = d.path[m]
               PROVE  FALSE
    OBVIOUS
  <2>1. CASE q = d
    BY <1>4, <1>7, <2>1
  <2>2. CASE q # d
    <3>1. q \in Trails /\ Len(q.path) \in Nat /\ Len(q.path) > n
      BY <1>1, <1>4, <1>7, <2>2 DEF Trails
    <3> QED
      BY <1>7, <1>12, <2>2, <3>1
  <2> QED
    BY <2>1, <2>2
<1>16. \A j \in DOMAIN NextPlace : \A m \in 1 .. j : d.path[m] = NextPlace[j].path[m]
  <2> SUFFICES ASSUME NEW j \in 1 .. n, NEW m \in 1 .. j PROVE d.path[m] = frames[j].path[m]
    BY <1>2, <1>4, <1>5, PlaceFacts
  <2>1. m \in 1 .. n /\ Top = frames[n]
    BY <1>4 DEF Top
  <2>2. d.path[m] = frames[n].path[m]
    BY <1>7, <2>1
  <2>3. j < n => frames[n].path[m] = frames[j].path[m]
    BY <1>4, <1>11 DEF StackOK
  <2> QED
    BY <1>4, <2>2, <2>3
<1>17. WalkOK(entry, NextPlace, realAncestors, walk, seen, {d})
  <2>0. \A k \in 1 .. n : k # n => k < n
    <3>1. n \in Nat
      BY <1>4
    <3> HIDE DEF n
    <3> QED
      BY <3>1
  <2>1. seen \ {d} = entered
    BY <1>13
  <2>2. StackOK(NextPlace, realAncestors, seen)
    BY <1>2, NextStack
  <2>3. Unvisited(NextPlace, seen)
    <3> SUFFICES ASSUME NEW k \in 1 .. n, NEW i \in NextPlace[k].left, NEW q \in seen,
                        Len(q.path) > k,
                        \A m \in 1 .. k : q.path[m] = NextPlace[k].path[m],
                        q.path[k + 1] = Child(NextPlace[k].folder, i).name
                 PROVE  FALSE
      BY <1>4, <1>5 DEF Unvisited
    <3>1. Unvisited(NextPlace, entered)
      BY <1>2, NextUnvisited
    <3>2. CASE q # d
      BY <1>4, <1>5, <3>1, <3>2 DEF Unvisited
    <3>3. CASE q = d /\ k = n
      <4>1. NextPlace[k].folder = Top.folder /\ NextPlace[k].left = Top.left \ {Place}
        BY <1>2, <1>4, <3>3, PlaceFacts DEF Top
      <4>2. Child(Top.folder, i).name = Child(Top.folder, Place).name /\ i # Place /\ i \in Top.left
        BY <1>4, <1>5, <1>7, <3>3, <4>1
      <4>3. i \in Children(Top.folder) /\ Top.folder \in Folders
        BY <1>2, <4>2, TopFacts DEF Call
      <4>4. i \in DOMAIN workspace.in[Top.folder] /\ Place \in DOMAIN workspace.in[Top.folder]
        BY <1>1, <1>5, <4>3, ChildFacts
      <4> QED
        BY <1>1, <4>2, <4>3, <4>4 DEF FileTree, Child
    <3>4. CASE q = d /\ k # n
      <4>1. /\ k \in DOMAIN frames /\ k < n /\ i \in frames[k].left
            /\ NextPlace[k].folder = frames[k].folder /\ NextPlace[k].path = frames[k].path
        <5>1. k \in DOMAIN frames /\ k < n
          BY <1>4, <2>0, <3>4
        <5>2. NextPlace[k].left \subseteq frames[k].left
          BY <1>2, <5>1, PlaceFacts
        <5>3. NextPlace[k].folder = frames[k].folder /\ NextPlace[k].path = frames[k].path
          BY <1>2, <5>1, PlaceFacts
        <5> QED
          BY <5>1, <5>2, <5>3
      <4>2. k + 1 \in 1 .. n /\ \A m \in 1 .. k : m \in 1 .. n
        BY <1>4, <4>1
      <4>3. /\ Len(TopTrail.path) > k
            /\ \A m \in 1 .. k : TopTrail.path[m] = frames[k].path[m]
            /\ TopTrail.path[k + 1] = Child(frames[k].folder, i).name
        BY <1>4, <1>7, <3>4, <4>1, <4>2
      <4> QED
        BY <1>4, <1>11, <4>1, <4>3 DEF Unvisited
    <3> QED
      BY <3>2, <3>3, <3>4
  <2>4. Covered(NextPlace, realAncestors, walk, entered, seen)
    BY <1>2, NextCovers DEF d
  <2>5. FilesOK(NextPlace, realAncestors, walk, entered, seen)
    <3>1. ~Markdown(Visited)
      BY <1>2 DEF Markdown
    <3> QED
      BY <1>2, <3>1, NextFiles
  <2> QED
    BY <1>3, <1>6, <2>1, <2>2, <2>3, <2>4, <2>5 DEF WalkOK
<1>18. d \in seen /\ seen \in SUBSET Trails
  BY <1>1, <1>6
<1>19. /\ WalkOK(entry, frames', realAncestors', walk', seen, {}) /\ Counted(walk', seen)
       /\ frames' \in Seq(Call) /\ realAncestors' \in Seq(Folders) /\ walk' \in Walk
  <2> HIDE DEF seen
  <2>1. Begins(entry, NextPlace, realAncestors, walk, seen, d, x)
    BY <1>1, <1>2, <1>5, <1>6, <1>9, <1>14, <1>15, <1>16, <1>17, <1>18 DEF Begins
  <2> QED
    BY <1>10, <2>1, CallKeeps
<1>20. Fixed /\ entry' = entry
  BY DEF VisitFolder, Fixed
<1> QED
  BY <1>10, <1>18, <1>19, <1>20, WalkAfter

LEMMA MeetLoopKeeps ==
  ASSUME TypeOK, WalkInv, MeetLoop
  PROVE  WalkInv' /\ frames' \in Seq(Call) /\ walk' \in Walk
<1> DEFINE d == Onto(TopTrail, Visited)
<1>1. /\ workspace \in Workspace /\ FileTree(workspace)
      /\ walk \in Walk /\ entered \in SUBSET Trails
  BY TreeFacts DEF TypeOK
<1>2. /\ Visiting /\ step = "walk" /\ frames # <<>> /\ ~walk.overCap
      /\ Visited.directory /\ Loops(Visited.to, realAncestors)
  BY DEF MeetLoop, Visiting
<1>3. WalkOK(entry, frames, realAncestors, walk, entered, {}) /\ Counted(walk, entered)
  BY <1>2 DEF WalkInv
<1>4. /\ TopTrail.path = Top.path /\ TopTrail.chain = realAncestors
      /\ TopTrail \in entered /\ TopTrail \in Trails /\ PathOf(entry, TopTrail)
      /\ End(TopTrail) = Top.folder /\ Descends(Top.folder)
      /\ entry \in Entry /\ entry.to \in Folders
  BY <1>2, TopFacts
<1>5. /\ Place \in Children(Top.folder)
      /\ Visited = Child(End(TopTrail), Place) /\ Visited \in Entry
      /\ NextPlace \in Seq(Call)
  BY <1>2, PlaceFacts
<1>6. Visited.link
  BY <1>1, <1>2, <1>4, <1>5, OnlyLinksLoop
<1>7. d \in Trails /\ d \in Walked(entry) /\ Visited.to \in Folders
  BY <1>1, <1>2, <1>4, <1>5, PathGoesOn
<1>8. /\ Len(d.chain) = Len(realAncestors) + 1 /\ End(d) = Visited.to
      /\ \A m \in 1 .. Len(realAncestors) : d.chain[m] = realAncestors[m]
  BY <1>4, <1>5, <1>7, OntoFacts
<1>9. LoopCause(entry)
  <2>1. PICK i \in DOMAIN realAncestors : ContainsRealPath(Visited.to, realAncestors[i])
    BY <1>2 DEF Loops
  <2>2. realAncestors \in Seq(Folders)
    BY DEF TypeOK
  <2>3. i \in 1 .. Len(realAncestors) /\ i \in 1 .. Len(d.chain) - 1
    BY <1>8, <2>2
  <2> QED
    BY <1>7, <1>8, <2>1, <2>3 DEF LoopCause
<1>10. PathTo \in Seq(STRING) /\ walk' = [walk EXCEPT !.loops = @ \cup {PathTo}]
  <2>1. Top.path \in Seq(STRING) /\ Visited.name \in STRING
    BY <1>2, <1>5, TopFacts DEF Call, Entry
  <2> QED
    BY <1>6, <2>1 DEF MeetLoop, PathTo
<1>11. /\ walk' \in Walk /\ walk'.folders = walk.folders /\ walk'.files = walk.files
       /\ walk'.loops = walk.loops \cup {PathTo}
  BY <1>1, <1>10, WalkLoops
<1>12. ~walk'.overCap
  BY <1>1, <1>2, <1>10, WalkLoops
<1>13. Counted(walk', entered)
  BY <1>2, <1>3, <1>11, <1>12 DEF Counted
<1>14. StackOK(NextPlace, realAncestors, entered) /\ Unvisited(NextPlace, entered)
  BY <1>2, NextStack, NextUnvisited
<1>15. Covered(NextPlace, realAncestors, walk', entered, entered)
  BY <1>11 DEF Covered
<1>16. FilesOK(NextPlace, realAncestors, walk', entered, entered)
  <2>1. ~Markdown(Visited)
    BY <1>2 DEF Markdown
  <2> QED
    BY <1>2, <1>11, <2>1, NextFiles
<1>17. WalkOK(entry, NextPlace, realAncestors, walk', entered, {})
  <2>1. entered \ {} = entered
    OBVIOUS
  <2> QED
    BY <1>3, <1>9, <1>14, <1>15, <1>16, <2>1 DEF WalkOK
<1>18. /\ Fixed /\ frames' = NextPlace
       /\ entry' = entry /\ realAncestors' = realAncestors /\ entered' = entered
  BY DEF MeetLoop, Fixed
<1> QED
  BY <1>5, <1>11, <1>13, <1>17, <1>18, WalkAfter

LEMMA VisitFileKeeps ==
  ASSUME TypeOK, WalkInv, VisitFile
  PROVE  WalkInv' /\ frames' \in Seq(Call) /\ walk' \in Walk
<1> DEFINE f == Found(TopTrail.path, Visited)
           takes == IncludeRootFiles /\ Markdown(Visited)
<1>1. workspace \in Workspace /\ walk \in Walk
  BY TreeFacts DEF TypeOK
<1>2. /\ Visiting /\ step = "walk" /\ frames # <<>> /\ ~walk.overCap /\ ~Visited.directory
  BY DEF VisitFile, Visiting
<1>3. WalkOK(entry, frames, realAncestors, walk, entered, {}) /\ Counted(walk, entered)
  BY <1>2 DEF WalkInv
<1>4. /\ TopTrail.path = Top.path /\ TopTrail \in Trails /\ TopTrail \in entered
      /\ End(TopTrail) = Top.folder /\ Descends(Top.folder) /\ Len(Top.path) = Len(frames)
  BY <1>2, TopFacts
<1>5. /\ Place \in Children(Top.folder)
      /\ Visited = Child(End(TopTrail), Place) /\ Visited \in Entry
      /\ NextPlace \in Seq(Call)
  BY <1>2, PlaceFacts
<1>6. f \in FileFound
  <2>1. /\ TopTrail.path \in Seq(STRING) /\ Visited.name \in STRING
        /\ Visited.to \in Folders \cup Files
    BY <1>4, <1>5 DEF Trails, Entry
  <2>2. Append(TopTrail.path, Visited.name) \in Seq(STRING)
    BY <2>1
  <2> QED
    BY <2>1, <2>2 DEF Found, FileFound
<1>7. PiFilesAt(TopTrail, Listed) =
        {Found(TopTrail.path, Child(End(TopTrail), i)) :
           i \in {j \in Children(End(TopTrail)) :
                    IncludeRootFiles /\ Markdown(Child(End(TopTrail), j))}}
  BY <1>4 DEF PiFilesAt, Descends, IncludeRootFiles
<1>8. takes => f \in PiFilesAt(TopTrail, Listed)
  BY <1>4, <1>5, <1>7
<1>9. Markdown(Visited) /\ f \in PiFilesAt(TopTrail, Listed) => takes
  BY <1>7
<1>10. walk' = IF takes THEN [walk EXCEPT !.files = Append(@, f)] ELSE walk
  BY <1>4 DEF VisitFile
<1> HIDE DEF f, takes
<1>11. /\ walk' \in Walk /\ walk'.folders = walk.folders /\ walk'.loops = walk.loops
       /\ ~walk'.overCap
       /\ takes => walk'.files = Append(walk.files, f)
       /\ ~takes => walk'.files = walk.files
  <2>1. CASE takes
    <3>1. walk' = [walk EXCEPT !.files = Append(@, f)]
      BY <1>10, <2>1
    <3>2. walk' \in Walk /\ walk'.folders = walk.folders /\ walk'.loops = walk.loops
      BY <1>1, <1>6, <3>1, WalkFinds
    <3>3. walk'.files = Append(walk.files, f)
      BY <1>1, <1>6, <3>1, WalkFinds
    <3>4. ~walk'.overCap
      BY <1>1, <1>2, <1>6, <3>1, WalkFinds
    <3> QED
      BY <2>1, <3>2, <3>3, <3>4
  <2>2. CASE ~takes
    BY <1>1, <1>2, <1>10, <2>2
  <2> QED
    BY <2>1, <2>2
<1>12. Counted(walk', entered)
  BY <1>2, <1>3, <1>11 DEF Counted
<1>13. /\ \A n \in DOMAIN walk.files : n \in DOMAIN walk'.files /\ walk'.files[n] = walk.files[n]
       /\ \A n \in DOMAIN walk'.files :
            \/ n \in DOMAIN walk.files /\ walk'.files[n] = walk.files[n]
            \/ walk'.files[n] \in PiFilesAt(TopTrail, Listed)
       /\ Markdown(Visited) /\ f \in PiFilesAt(TopTrail, Listed) =>
            \E n \in DOMAIN walk'.files : walk'.files[n] = f
  <2>1. CASE takes
    <3>1. walk.files \in Seq(FileFound)
      BY <1>1, WalkFields
    <3>2. /\ DOMAIN walk.files = 1 .. Len(walk.files) /\ Len(walk.files) \in Nat
          /\ DOMAIN walk'.files = 1 .. Len(walk.files) + 1
          /\ \A n \in 1 .. Len(walk.files) : walk'.files[n] = walk.files[n]
          /\ walk'.files[Len(walk.files) + 1] = f
      BY <1>6, <1>11, <2>1, <3>1, AppendFacts
    <3>3. f \in PiFilesAt(TopTrail, Listed)
      BY <1>8, <2>1
    <3> HIDE DEF TopTrail
    <3>4. \A n \in DOMAIN walk'.files : n \in 1 .. Len(walk.files) \/ n = Len(walk.files) + 1
      BY <3>2
    <3>5. \A n \in DOMAIN walk.files : n \in DOMAIN walk'.files /\ walk'.files[n] = walk.files[n]
      BY <3>2
    <3>6. Len(walk.files) + 1 \in DOMAIN walk'.files
      BY <3>2
    <3> QED
      BY <3>2, <3>3, <3>4, <3>5, <3>6
  <2>2. CASE ~takes
    BY <1>9, <1>11, <2>2
  <2> QED
    BY <2>1, <2>2
<1>14. StackOK(NextPlace, realAncestors, entered) /\ Unvisited(NextPlace, entered)
  BY <1>2, NextStack, NextUnvisited
<1>15. Covered(NextPlace, realAncestors, walk', entered, entered)
  BY <1>2, <1>11, NextCovers
<1>16. FilesOK(NextPlace, realAncestors, walk', entered, entered)
  BY <1>2, <1>13, NextFiles DEF f
<1>17. WalkOK(entry, NextPlace, realAncestors, walk', entered, {})
  <2>1. entered \ {} = entered
    OBVIOUS
  <2> QED
    BY <1>3, <1>11, <1>14, <1>15, <1>16, <2>1 DEF WalkOK
<1>18. /\ Fixed /\ frames' = NextPlace
       /\ entry' = entry /\ realAncestors' = realAncestors /\ entered' = entered
  BY DEF VisitFile, Fixed
<1> QED
  BY <1>5, <1>11, <1>12, <1>17, <1>18, WalkAfter

\* The last call returns: nothing is left to visit in it, unless the cap is reached.
LEMMA ReturnKeeps ==
  ASSUME TypeOK, WalkInv, Return
  PROVE  WalkInv' /\ frames' \in Seq(Call) /\ realAncestors' \in Seq(Folders)
<1> DEFINE n == Len(frames)
           calls == frames'
           above == realAncestors'
<1>1. /\ step = "walk" /\ frames # <<>> /\ (Top.left = {} \/ walk.overCap)
      /\ frames \in Seq(Call) /\ realAncestors \in Seq(Folders)
  BY DEF Return, TypeOK
<1>2. WalkOK(entry, frames, realAncestors, walk, entered, {}) /\ Counted(walk, entered)
  BY <1>1 DEF WalkInv
<1>3. n \in Nat /\ n > 0 /\ DOMAIN frames = 1 .. n /\ Len(realAncestors) = n + 1
  BY <1>1, TopFacts
<1>4. /\ calls \in Seq(Call) /\ Len(calls) = n - 1 /\ DOMAIN calls = 1 .. n - 1
      /\ \A k \in 1 .. n - 1 : calls[k] = frames[k]
  BY <1>1, <1>3 DEF Return, Shorter
<1>5. /\ above \in Seq(Folders) /\ Len(above) = n
      /\ \A k \in 1 .. n : above[k] = realAncestors[k]
  BY <1>1, <1>3 DEF Return, Shorter
<1> HIDE DEF calls, above
<1>6. \A k \in 1 .. n - 1 : k \in DOMAIN frames /\ k + 1 \in 1 .. n
  BY <1>3
<1>7. \A k \in 1 .. n - 1 : Trail(calls, above, k) = Trail(frames, realAncestors, k)
  <2>1. ASSUME NEW k \in 1 .. n - 1 PROVE SubSeq(above, 1, k + 1) = SubSeq(realAncestors, 1, k + 1)
    BY <1>1, <1>3, <1>5
  <2> QED
    BY <1>4, <2>1 DEF Trail
<1>8. StackOK(calls, above, entered)
  <2>1. StackOK(frames, realAncestors, entered)
    BY <1>2 DEF WalkOK
  <2>2. Len(above) = Len(calls) + 1
    BY <1>3, <1>4, <1>5
  <2>3. ASSUME NEW k \in 1 .. n - 1
        PROVE  /\ above[k + 1] = calls[k].folder
               /\ Len(calls[k].path) = k
               /\ Trail(calls, above, k) \in entered
               /\ Descends(calls[k].folder)
               /\ calls[k].left \subseteq Children(calls[k].folder)
    BY <1>4, <1>5, <1>6, <1>7, <2>1 DEF StackOK
  <2>4. \A j, k \in 1 .. n - 1 : j < k => \A m \in 1 .. j : calls[k].path[m] = calls[j].path[m]
    <3> SUFFICES ASSUME NEW j \in 1 .. n - 1, NEW k \in 1 .. n - 1, j < k, NEW m \in 1 .. j
                 PROVE  calls[k].path[m] = calls[j].path[m]
      OBVIOUS
    <3>1. j \in DOMAIN frames /\ k \in DOMAIN frames
      BY <1>6
    <3>2. calls[k] = frames[k] /\ calls[j] = frames[j]
      BY <1>4
    <3> QED
      BY <2>1, <3>1, <3>2 DEF StackOK
  <2> QED
    BY <1>4, <2>2, <2>3, <2>4 DEF StackOK
<1>9. Unvisited(calls, entered)
  BY <1>2, <1>4, <1>6 DEF WalkOK, Unvisited
<1>10. ASSUME NEW k \in DOMAIN frames, NEW i \in frames[k].left, ~walk.overCap
       PROVE  k \in DOMAIN calls /\ calls[k] = frames[k]
  <2>1. k # n
    BY <1>1, <1>10 DEF Top
  <2>2. k \in 1 .. n - 1
    <3> HIDE DEF n
    <3> QED
      BY <1>3, <2>1
  <2> QED
    BY <1>4, <2>2
<1>11. Covered(calls, above, walk, entered, entered)
  <2> SUFFICES ASSUME ~walk.overCap, walk.loops = {}, NEW d \in entered, NEW i \in Children(End(d)),
                      Descends(End(d)), Child(End(d), i).directory,
                      Onto(d, Child(End(d), i)) \notin entered
               PROVE  \E k \in DOMAIN calls : d = Trail(calls, above, k) /\ i \in calls[k].left
    BY DEF Covered
  <2>1. PICK k \in DOMAIN frames : d = Trail(frames, realAncestors, k) /\ i \in frames[k].left
    BY <1>2 DEF WalkOK, Covered
  <2> QED
    BY <1>4, <1>7, <1>10, <2>1
<1>12. FilesOK(calls, above, walk, entered, entered)
  <2>1. \A m \in DOMAIN walk.files : \E d \in entered : walk.files[m] \in PiFilesAt(d, Listed)
    BY <1>2 DEF WalkOK, FilesOK
  <2>2. ASSUME ~walk.overCap, NEW d \in entered, NEW f \in PiFilesAt(d, Listed),
               ~ \E m \in DOMAIN walk.files : walk.files[m] = f
        PROVE  \E k \in DOMAIN calls :
                 /\ d = Trail(calls, above, k)
                 /\ \E i \in calls[k].left :
                      Markdown(Child(End(d), i)) /\ f = Found(d.path, Child(End(d), i))
    <3>1. PICK k \in DOMAIN frames :
            /\ d = Trail(frames, realAncestors, k)
            /\ \E i \in frames[k].left :
                 Markdown(Child(End(d), i)) /\ f = Found(d.path, Child(End(d), i))
      BY <1>2, <2>2 DEF WalkOK, FilesOK
    <3>2. k \in DOMAIN calls /\ calls[k] = frames[k]
      BY <1>10, <2>2, <3>1
    <3> QED
      BY <1>4, <1>7, <3>1, <3>2
  <2> QED
    BY <2>1, <2>2 DEF FilesOK
<1>13. WalkOK(entry, calls, above, walk, entered, {})
  <2>1. entered \ {} = entered
    OBVIOUS
  <2> QED
    BY <1>2, <1>8, <1>9, <1>11, <1>12, <2>1 DEF WalkOK
<1>14. /\ Fixed /\ entry' = entry /\ walk' = walk /\ entered' = entered
  BY DEF Return, Fixed
<1> QED
  BY <1>2, <1>4, <1>5, <1>13, <1>14, WalkAfter DEF calls, above

\* The walk of an entry begins with the entry itself.
LEMMA TakeFolderKeeps ==
  ASSUME TypeOK, NEW e \in EntriesAt(First(left)), left \subseteq Turns, TakeFolder(e)
  PROVE  WalkInv' /\ frames' \in Seq(Call) /\ realAncestors' \in Seq(Folders) /\ walk' \in Walk
         /\ entered' \in SUBSET Trails
<1> DEFINE d == Start(e)
<1>1. workspace \in Workspace /\ FileTree(workspace) /\ Root \in Folders /\ left \in SUBSET Nat
  BY TreeFacts, SkillWalkAssumption DEF TypeOK
<1>2. left # {} /\ e.directory /\ ~ContainsRealPath(e.to, Root) /\ entry' = e /\ Fixed
      /\ WalkSkillFolder(<<e.name>>, <<Root, e.to>>, <<>>, NewWalk)
      /\ entered' = {d}
  BY DEF TakeFolder, Taking, Fixed, Start
<1>3. First(left) \in Turns
  BY <1>1, <1>2, FirstIsLeast
<1>4. e \in Entry /\ e.to \in Folders /\ e \in FolderEntries
  BY <1>2, <1>3, EntryFacts DEF FolderEntries
<1>5. /\ d \in Trails /\ PathOf(e, d) /\ d.path = <<e.name>> /\ d.chain = <<Root, e.to>>
      /\ Len(d.path) = 1
  <2>1. d \in Trails /\ Len(d.path) = 1
    BY <1>4, StartFacts
  <2> QED
    BY <1>1, <1>2, <1>4, <2>1, StartPath DEF Start
<1>6. d.chain = Append(<<Root>>, e.to) /\ <<Root>> \in Seq(Folders)
  BY <1>1, <1>5
<1>7. NewWalk \in Walk /\ ~NewWalk.overCap /\ NewWalk.loops = {} /\ NewWalk.files = <<>>
      /\ NewWalk.folders = 0
  BY DEF NewWalk, Walk
<1>8. [path |-> <<e.name>>, chain |-> <<Root, e.to>>] \in {d}
  BY DEF Start
<1> HIDE DEF d
<1>9. WalkOK(e, <<>>, <<Root>>, NewWalk, {d}, {d})
  <2>1. StackOK(<<>>, <<Root>>, {d})
    BY DEF StackOK
  <2>2. Unvisited(<<>>, {d})
    BY DEF Unvisited
  <2>3. {d} \ {d} = {}
    OBVIOUS
  <2>4. Covered(<<>>, <<Root>>, NewWalk, {}, {d})
    BY DEF Covered
  <2>5. FilesOK(<<>>, <<Root>>, NewWalk, {}, {d})
    BY <1>7 DEF FilesOK
  <2> QED
    BY <1>2, <1>4, <1>5, <1>7, <1>8, <2>1, <2>2, <2>3, <2>4, <2>5 DEF WalkOK
<1>10. IsFiniteSet({d}) /\ Cardinality({d}) = NewWalk.folders + 1
  <2>1. IsFiniteSet({d}) /\ Cardinality({d}) = 1
    BY FS_Singleton
  <2>2. NewWalk.folders + 1 = 1
    BY <1>7
  <2> QED
    BY <2>1, <2>2
<1>11. Begins(e, <<>>, <<Root>>, NewWalk, {d}, d, e.to)
  <2>1. <<>> \in Seq(Call) /\ DOMAIN <<>> = {}
    OBVIOUS
  <2>2. ~ (Len(d.path) > Len(d.path))
    BY <1>5
  <2> QED
    BY <1>4, <1>5, <1>6, <1>7, <1>9, <1>10, <2>1, <2>2 DEF Begins
<1>12. WalkSkillFolder(d.path, d.chain, <<>>, NewWalk)
  BY <1>2, <1>5
<1>13. /\ WalkOK(e, frames', realAncestors', walk', {d}, {}) /\ Counted(walk', {d})
       /\ frames' \in Seq(Call) /\ realAncestors' \in Seq(Folders) /\ walk' \in Walk
  BY <1>11, <1>12, CallKeeps
<1> QED
  BY <1>2, <1>5, <1>13, WalkAfter

-----------------------------------------------------------------------------
(* The turns of workspaceSkillEntries.                                     *)

LEMMA SkillFileFacts ==
  ASSUME workspace \in Workspace, NEW f \in Folders, HasSkillFile(f), NEW path \in Seq(STRING)
  PROVE  /\ SkillFile(path, f) \in FileFound
         /\ Len(path) > 0 => SkillFile(path, f).path[1] = path[1]
<1>1. /\ SkillEntries(f) \in SUBSET Nat /\ SkillEntries(f) # {}
      /\ SkillEntries(f) \subseteq Children(f)
  BY ChildFacts DEF HasSkillFile, SkillEntries
<1>2. First(SkillEntries(f)) \in Children(f)
  BY <1>1, FirstIsLeast
<1> DEFINE c == Child(f, First(SkillEntries(f)))
<1>3. c \in Entry
  BY <1>2, ChildFacts
<1> HIDE DEF c
<1>4. c.name \in STRING /\ c.to \in Folders \cup Files
  BY <1>3 DEF Entry
<1>5. /\ Append(path, c.name) \in Seq(STRING)
      /\ Len(path) > 0 => Append(path, c.name)[1] = path[1]
  BY <1>4
<1>6. SkillFile(path, f) = [path |-> Append(path, c.name), real |-> c.to]
  BY DEF SkillFile, Found, c
<1> QED
  BY <1>4, <1>5, <1>6 DEF FileFound

LEMMA FoundFacts ==
  ASSUME NEW path \in Seq(STRING), NEW e \in Entry
  PROVE  /\ Found(path, e) \in FileFound
         /\ Len(path) > 0 => Found(path, e).path[1] = path[1]
         /\ path = <<>> => Found(path, e).path[1] = e.name
<1>1. e.name \in STRING /\ e.to \in Folders \cup Files
  BY DEF Entry
<1>2. /\ Append(path, e.name) \in Seq(STRING)
      /\ Len(path) > 0 => Append(path, e.name)[1] = path[1]
      /\ path = <<>> => Append(path, e.name)[1] = e.name
  BY <1>1
<1>3. Found(path, e) = [path |-> Append(path, e.name), real |-> e.to]
  BY DEF Found
<1> QED
  BY <1>1, <1>2, <1>3 DEF FileFound

\* The files of an entry have its name first.
LEMMA PiFilesNamed ==
  ASSUME workspace \in Workspace, FileTree(workspace), NEW e \in Entry, e.to \in Folders,
         NEW f \in PiFiles(e, Listed)
  PROVE  f \in FileFound /\ f.path[1] = e.name
<1>1. PICK p \in Walked(e) : f \in PiFilesAt(p, Listed)
  BY DEF PiFiles
<1>2. p \in Trails /\ Len(p.path) > 0 /\ p.path[1] = e.name /\ Len(p.chain) > 0
  <2>1. /\ p \in Trails /\ Len(p.path) > 0 /\ p.path[1] = e.name /\ Len(p.chain) = Len(p.path) + 1
    BY WalkedFacts
  <2> QED
    BY <2>1 DEF Trails
<1>3. p.path \in Seq(STRING) /\ End(p) \in Folders
  BY <1>2 DEF Trails, End
<1>4. CASE HasSkillFile(End(p))
  <2>1. f = SkillFile(p.path, End(p))
    BY <1>1, <1>4 DEF PiFilesAt
  <2> QED
    BY <1>2, <1>3, <1>4, <2>1, SkillFileFacts
<1>5. CASE ~HasSkillFile(End(p))
  <2>1. PICK i \in Children(End(p)) : f = Found(p.path, Child(End(p), i))
    BY <1>1, <1>5 DEF PiFilesAt
  <2>2. Child(End(p), i) \in Entry
    BY <1>3, ChildFacts
  <2> QED
    BY <1>2, <1>3, <2>1, <2>2, FoundFacts
<1> QED
  BY <1>4, <1>5

\* A turn has at most one entry: names are taken once.
LEMMA OneEntry ==
  ASSUME TypeOK, NEW t \in Turns, NEW e \in EntriesAt(t)
  PROVE  e \in Entries /\ e \in Entry /\ EntriesAt(t) = {e}
<1>1. EntriesAt(t) \subseteq Entries /\ Entries \subseteq Entry
  BY EntryFacts
<1>2. ASSUME NEW g \in EntriesAt(t) PROVE g = e
  <2>1. CASE Listed
    <3>1. g.name = e.name
      BY <2>1 DEF EntriesAt
    <3> QED
      BY <1>1, <3>1, EntryFacts
  <2>2. CASE ~Listed
    BY <2>2 DEF EntriesAt
  <2> QED
    BY <2>1, <2>2
<1> QED
  BY <1>1, <1>2

\* What is taken or left out more, each for its reason, leaves the rest as it was.
LEMMA SelectionGrows ==
  ASSUME NEW old, NEW new, NEW turns, NEW working, SelectionOK(old, turns, working),
         \A n \in DOMAIN old.files : n \in DOMAIN new.files /\ new.files[n] = old.files[n],
         \A n \in DOMAIN new.files :
           \/ n \in DOMAIN old.files /\ new.files[n] = old.files[n]
           \/ \E e \in Entries : /\ new.files[n].path[1] = e.name
                                 /\ e.directory => new.files[n] \in PiFiles(e, Listed),
         old.loops \subseteq new.loops, old.large \subseteq new.large,
         \A e \in FolderEntries :
           /\ e.name \in new.loops \ old.loops => LoopCause(e)
           /\ e.name \in new.large \ old.large => Cardinality(Walked(e)) > MaxFolders
  PROVE  SelectionOK(new, turns, working)
<1>1. ASSUME NEW n \in DOMAIN new.files
      PROVE  \E e \in Entries : /\ new.files[n].path[1] = e.name
                                /\ e.directory => new.files[n] \in PiFiles(e, Listed)
  <2>1. CASE n \in DOMAIN old.files /\ new.files[n] = old.files[n]
    BY <2>1 DEF SelectionOK
  <2> QED
    BY <2>1
<1>2. ASSUME NEW turn \in turns, NEW e \in EntriesAt(turn) \ working,
             e.directory, e.name \notin new.loops \cup new.large
      PROVE  /\ TakenRightly(e)
             /\ \A f \in PiFiles(e, Listed) : \E n \in DOMAIN new.files : new.files[n] = f
  <2>1. /\ TakenRightly(e)
        /\ \A f \in PiFiles(e, Listed) : \E n \in DOMAIN old.files : old.files[n] = f
    BY <1>2 DEF SelectionOK
  <2> QED
    BY <2>1
<1>3. ASSUME NEW e \in FolderEntries
      PROVE  /\ e.name \in new.loops => LoopCause(e)
             /\ e.name \in new.large => Cardinality(Walked(e)) > MaxFolders
  BY DEF SelectionOK
<1> QED
  BY <1>1, <1>2, <1>3 DEF SelectionOK

\* More turns are over once each of their entries, but for the one at work, is taken or left out.
LEMMA TurnsOver ==
  ASSUME NEW chosen, NEW turns, NEW working, NEW over, NEW still,
         SelectionOK(chosen, turns, working),
         \A turn \in over : \A e \in EntriesAt(turn) \ still :
           \/ turn \in turns /\ e \notin working
           \/ ~e.directory
           \/ e.name \in chosen.loops \cup chosen.large
           \/ /\ TakenRightly(e)
              /\ \A f \in PiFiles(e, Listed) : \E n \in DOMAIN chosen.files : chosen.files[n] = f
  PROVE  SelectionOK(chosen, over, still)
BY DEF SelectionOK

\* What each change of the selection leaves alone.
LEMMA SelectFile ==
  ASSUME NEW s \in Selection, NEW f \in FileFound
  PROVE  /\ [s EXCEPT !.files = Append(@, f)] \in Selection
         /\ [s EXCEPT !.files = Append(@, f)].files = Append(s.files, f)
         /\ [s EXCEPT !.files = Append(@, f)].loaded = s.loaded
         /\ [s EXCEPT !.files = Append(@, f)].loops = s.loops
         /\ [s EXCEPT !.files = Append(@, f)].large = s.large
<1>1. Append(s.files, f) \in Seq(FileFound)
  BY DEF Selection
<1> QED
  BY <1>1 DEF Selection

LEMMA SelectLoop ==
  ASSUME NEW s \in Selection, NEW l \in SUBSET STRING
  PROVE  /\ [s EXCEPT !.loops = @ \cup l] \in Selection
         /\ [s EXCEPT !.loops = @ \cup l].files = s.files
         /\ [s EXCEPT !.loops = @ \cup l].loaded = s.loaded
         /\ [s EXCEPT !.loops = @ \cup l].loops = s.loops \cup l
         /\ [s EXCEPT !.loops = @ \cup l].large = s.large
BY DEF Selection

LEMMA SelectLarge ==
  ASSUME NEW s \in Selection, NEW l \in SUBSET STRING
  PROVE  /\ [s EXCEPT !.large = @ \cup l] \in Selection
         /\ [s EXCEPT !.large = @ \cup l].files = s.files
         /\ [s EXCEPT !.large = @ \cup l].loaded = s.loaded
         /\ [s EXCEPT !.large = @ \cup l].loops = s.loops
         /\ [s EXCEPT !.large = @ \cup l].large = s.large \cup l
BY DEF Selection

LEMMA SelectRead ==
  ASSUME NEW s \in Selection, NEW u \in SUBSET Seq(STRING)
  PROVE  /\ [s EXCEPT !.unreadable = @ \cup u] \in Selection
         /\ [s EXCEPT !.unreadable = @ \cup u].files = s.files
         /\ [s EXCEPT !.unreadable = @ \cup u].loaded = s.loaded
         /\ [s EXCEPT !.unreadable = @ \cup u].loops = s.loops
         /\ [s EXCEPT !.unreadable = @ \cup u].large = s.large
BY DEF Selection

LEMMA SelectFiles ==
  ASSUME NEW s \in Selection, NEW fs \in Seq(FileFound)
  PROVE  /\ [s EXCEPT !.files = @ \o fs] \in Selection
         /\ [s EXCEPT !.files = @ \o fs].files = s.files \o fs
         /\ [s EXCEPT !.files = @ \o fs].loaded = s.loaded
         /\ [s EXCEPT !.files = @ \o fs].loops = s.loops
         /\ [s EXCEPT !.files = @ \o fs].large = s.large
<1>1. s.files \o fs \in Seq(FileFound)
  BY DEF Selection
<1> QED
  BY <1>1 DEF Selection

LEMMA SelectLoaded ==
  ASSUME NEW s \in Selection, NEW f \in FileFound
  PROVE  /\ [s EXCEPT !.loaded = Append(@, f)] \in Selection
         /\ [s EXCEPT !.loaded = Append(@, f)].files = s.files
         /\ [s EXCEPT !.loaded = Append(@, f)].loaded = Append(s.loaded, f)
         /\ [s EXCEPT !.loaded = Append(@, f)].loops = s.loops
         /\ [s EXCEPT !.loaded = Append(@, f)].large = s.large
<1>1. Append(s.loaded, f) \in Seq(FileFound)
  BY DEF Selection
<1> QED
  BY <1>1 DEF Selection

\* A longer list has the members of the shorter at their places.
Concat(u, s, t) == s \in Seq(FileFound) /\ t \in Seq(FileFound) /\ u = s \o t
Appended(u, s, x) == s \in Seq(FileFound) /\ x \in FileFound /\ u = Append(s, x)

LEMMA ConcatFacts ==
  ASSUME NEW s, NEW t, NEW u, Concat(u, s, t)
  PROVE  /\ \A n \in DOMAIN s : n \in DOMAIN u /\ u[n] = s[n]
         /\ \A n \in DOMAIN t : \E m \in DOMAIN u : u[m] = t[n]
         /\ \A n \in DOMAIN u :
              (n \in DOMAIN s /\ u[n] = s[n]) \/ \E m \in DOMAIN t : u[n] = t[m]
<1>1. /\ DOMAIN s = 1 .. Len(s) /\ Len(s) \in Nat /\ DOMAIN t = 1 .. Len(t) /\ Len(t) \in Nat
      /\ DOMAIN u = 1 .. Len(s) + Len(t)
      /\ \A n \in 1 .. Len(s) + Len(t) : u[n] = IF n <= Len(s) THEN s[n] ELSE t[n - Len(s)]
  BY DEF Concat
<1> DEFINE a == Len(s)
           b == Len(t)
<1>2. /\ \A n \in 1 .. a : n \in 1 .. a + b /\ n <= a
      /\ \A n \in 1 .. b : a + n \in 1 .. a + b /\ ~ (a + n <= a) /\ (a + n) - a = n
      /\ \A n \in 1 .. a + b : n \in 1 .. a \/ (~ (n <= a) /\ n - a \in 1 .. b)
  <2>1. a \in Nat /\ b \in Nat
    BY <1>1
  <2> HIDE DEF a, b
  <2>2. \A n \in 1 .. a : n \in 1 .. a + b /\ n <= a
    BY <2>1
  <2>3. \A n \in 1 .. b : a + n \in 1 .. a + b /\ ~ (a + n <= a) /\ (a + n) - a = n
    BY <2>1
  <2>4. \A n \in 1 .. a + b : n \in 1 .. a \/ (~ (n <= a) /\ n - a \in 1 .. b)
    BY <2>1
  <2> QED
    BY <2>2, <2>3, <2>4
<1>3. \A n \in DOMAIN s : n \in DOMAIN u /\ u[n] = s[n]
  BY <1>1, <1>2
<1>4. \A n \in DOMAIN t : a + n \in DOMAIN u /\ u[a + n] = t[n]
  BY <1>1, <1>2
<1>5. \A n \in DOMAIN u : (n \in DOMAIN s /\ u[n] = s[n]) \/ (n - a \in DOMAIN t /\ u[n] = t[n - a])
  BY <1>1, <1>2
<1> HIDE DEF a
<1> QED
  BY <1>3, <1>4, <1>5

LEMMA AppendedFacts ==
  ASSUME NEW s, NEW x, NEW u, Appended(u, s, x)
  PROVE  /\ \A n \in DOMAIN s : n \in DOMAIN u /\ u[n] = s[n]
         /\ \E n \in DOMAIN u : u[n] = x
         /\ \A n \in DOMAIN u : (n \in DOMAIN s /\ u[n] = s[n]) \/ (n = Len(s) + 1 /\ u[n] = x)
<1>1. /\ DOMAIN s = 1 .. Len(s) /\ Len(s) \in Nat /\ DOMAIN u = 1 .. Len(s) + 1
      /\ \A n \in 1 .. Len(s) : u[n] = s[n]
      /\ u[Len(s) + 1] = x
  BY AppendFacts DEF Appended
<1> DEFINE a == Len(s)
<1>2. /\ \A n \in 1 .. a : n \in 1 .. a + 1
      /\ a + 1 \in 1 .. a + 1
      /\ \A n \in 1 .. a + 1 : n \in 1 .. a \/ n = a + 1
  <2>1. a \in Nat
    BY <1>1
  <2> HIDE DEF a
  <2> QED
    BY <2>1
<1> QED
  BY <1>1, <1>2

\* The next turn.
LEMMA TurnFacts ==
  ASSUME TypeOK, Taking, left \subseteq Turns
  PROVE  /\ First(left) \in left /\ First(left) \in Turns
         /\ left' \in SUBSET Nat /\ left' \subseteq Turns
         /\ \A i \in left : First(left) <= i
         /\ Turns \ left' = (Turns \ left) \cup {First(left)}
<1>1. left \in SUBSET Nat /\ left # {} /\ left' = left \ {First(left)}
  BY DEF TypeOK, Taking
<1>2. First(left) \in left /\ \A i \in left : First(left) <= i
  BY <1>1, FirstIsLeast
<1> QED
  BY <1>1, <1>2

LEMMA TakeNothingKeeps ==
  ASSUME TypeOK, SelectionInv, TakeNothing
  PROVE  SelectionInv' /\ left' \in SUBSET Nat
<1>1. step = "take" /\ step' = "take" /\ selection' = selection /\ Fixed /\ Taking
      /\ EntriesAt(First(left)) = {}
  BY DEF TakeNothing, Taking, Fixed
<1>2. /\ Walks /\ left \subseteq Turns /\ selection.loaded = <<>>
      /\ SelectionOK(selection, Turns \ left, {})
  BY <1>1 DEF SelectionInv
<1>3. /\ left' \in SUBSET Nat /\ left' \subseteq Turns
      /\ Turns \ left' = (Turns \ left) \cup {First(left)}
  BY <1>1, <1>2, TurnFacts
<1>4. SelectionOK(selection, Turns \ left', {})
  BY <1>1, <1>2, <1>3, TurnsOver
<1> QED
  BY <1>1, <1>2, <1>3, <1>4, SelectionAfter

LEMMA TakeFileKeeps ==
  ASSUME TypeOK, SelectionInv, NEW e, TakeFile(e)
  PROVE  SelectionInv' /\ left' \in SUBSET Nat /\ selection' \in Selection
<1> DEFINE f == Found(<<>>, e)
<1>1. /\ step = "take" /\ step' = "take" /\ Fixed /\ Taking
      /\ e \in EntriesAt(First(left)) /\ ~e.directory
      /\ selection' = IF Markdown(e) THEN [selection EXCEPT !.files = Append(@, f)] ELSE selection
  BY DEF TakeFile, Taking, Fixed
<1>2. /\ Walks /\ left \subseteq Turns /\ selection.loaded = <<>>
      /\ SelectionOK(selection, Turns \ left, {}) /\ selection \in Selection
  BY <1>1 DEF SelectionInv, TypeOK
<1>3. /\ left' \in SUBSET Nat /\ left' \subseteq Turns /\ First(left) \in Turns
      /\ Turns \ left' = (Turns \ left) \cup {First(left)}
  BY <1>1, <1>2, TurnFacts
<1>4. e \in Entries /\ e \in Entry /\ EntriesAt(First(left)) = {e}
  BY <1>1, <1>3, OneEntry
<1>5. f \in FileFound /\ f.path[1] = e.name
  <2>1. <<>> \in Seq(STRING)
    OBVIOUS
  <2>2. f \in FileFound
    BY <1>4, <2>1, FoundFacts
  <2>3. f.path = Append(<<>>, e.name)
    BY DEF Found
  <2> QED
    BY <1>4, <2>2, <2>3 DEF Entry
<1> HIDE DEF f
<1>6. /\ selection' \in Selection /\ selection'.loaded = selection.loaded
      /\ selection'.loops = selection.loops /\ selection'.large = selection.large
      /\ selection'.files = selection.files \/ selection'.files = Append(selection.files, f)
  <2>1. CASE Markdown(e)
    <3>1. selection' = [selection EXCEPT !.files = Append(@, f)]
      BY <1>1, <2>1
    <3> QED
      BY <1>2, <1>5, <3>1, SelectFile
  <2>2. CASE ~Markdown(e)
    BY <1>1, <1>2, <2>2
  <2> QED
    BY <2>1, <2>2
<1>7. /\ \A n \in DOMAIN selection.files :
           n \in DOMAIN selection'.files /\ selection'.files[n] = selection.files[n]
      /\ \A n \in DOMAIN selection'.files :
           \/ n \in DOMAIN selection.files /\ selection'.files[n] = selection.files[n]
           \/ selection'.files[n] = f
  <2>1. CASE selection'.files = selection.files
    BY <2>1
  <2>2. CASE selection'.files = Append(selection.files, f)
    <3>1. Appended(selection'.files, selection.files, f)
      BY <1>2, <1>5, <2>2 DEF Appended, Selection
    <3> QED
      BY <3>1, AppendedFacts
  <2> QED
    BY <1>6, <2>1, <2>2
<1>8. SelectionOK(selection', Turns \ left, {})
  BY <1>1, <1>2, <1>4, <1>5, <1>6, <1>7, SelectionGrows
<1>9. SelectionOK(selection', Turns \ left', {})
  BY <1>1, <1>3, <1>4, <1>8, TurnsOver
<1> QED
  BY <1>1, <1>2, <1>3, <1>6, <1>9, SelectionAfter

\* An entry that leads back to the root is a link.
LEMMA TakeRootKeeps ==
  ASSUME TypeOK, SelectionInv, NEW e, TakeRoot(e)
  PROVE  SelectionInv' /\ left' \in SUBSET Nat /\ selection' \in Selection
<1>1. /\ step = "take" /\ step' = "take" /\ Fixed /\ Taking
      /\ e \in EntriesAt(First(left)) /\ e.directory /\ ContainsRealPath(e.to, Root)
      /\ selection' = [selection EXCEPT !.loops = @ \cup IF e.link THEN {e.name} ELSE {}]
  BY DEF TakeRoot, Taking, Fixed
<1>2. /\ Walks /\ left \subseteq Turns /\ selection.loaded = <<>>
      /\ SelectionOK(selection, Turns \ left, {}) /\ selection \in Selection
      /\ workspace \in Workspace /\ FileTree(workspace)
  BY <1>1, TreeFacts DEF SelectionInv, TypeOK
<1>3. /\ left' \in SUBSET Nat /\ left' \subseteq Turns /\ First(left) \in Turns
      /\ Turns \ left' = (Turns \ left) \cup {First(left)}
  BY <1>1, <1>2, TurnFacts
<1>4. /\ e \in Entries /\ e \in Entry /\ EntriesAt(First(left)) = {e}
      /\ e \in FolderEntries /\ e.to \in Folders
  BY <1>1, <1>3, OneEntry, EntryFacts DEF FolderEntries
<1>5. e.link
  <2>1. PICK i \in DOMAIN workspace.in[Root] : e = workspace.in[Root][i]
    <3>1. CASE Listed
      BY <1>1, <3>1 DEF EntriesAt, Child
    <3>2. CASE ~Listed
      <4>1. First(left) \in Children(Root) /\ Root \in Folders
        BY <1>3, <3>2, SkillWalkAssumption DEF Turns
      <4> QED
        BY <1>1, <1>2, <3>2, <4>1, ChildFacts DEF EntriesAt, Child
    <3> QED
      BY <3>1, <3>2
  <2> QED
    BY <1>1, <1>2, <2>1, SkillWalkAssumption DEF FileTree, ContainsRealPath
<1>6. /\ selection' \in Selection /\ selection'.loaded = selection.loaded
      /\ selection'.files = selection.files
      /\ selection'.loops = selection.loops \cup {e.name} /\ selection'.large = selection.large
  <2>1. selection' = [selection EXCEPT !.loops = @ \cup {e.name}]
    BY <1>1, <1>5
  <2>2. {e.name} \in SUBSET STRING
    BY <1>4 DEF Entry
  <2> QED
    BY <1>2, <2>1, <2>2, SelectLoop
<1>7. LoopCause(e)
  <2>1. Start(e) \in Walked(e) /\ End(Start(e)) = e.to /\ Len(Start(e).chain) = 2
    BY <1>2, <1>4, WalkedFacts, StartFacts
  <2>2. Start(e).chain[1] = Root
    BY DEF Start
  <2> HIDE DEF Start
  <2>3. 1 \in 1 .. Len(Start(e).chain) - 1
    BY <2>1
  <2> QED
    BY <1>1, <2>1, <2>2, <2>3 DEF LoopCause
<1>8. \A g \in FolderEntries : g.name = e.name => g = e
  BY <1>4, EntryFacts
<1>9. SelectionOK(selection', Turns \ left, {})
  <2>1. \A g \in FolderEntries :
          /\ g.name \in selection'.loops \ selection.loops => LoopCause(g)
          /\ g.name \in selection'.large \ selection.large => Cardinality(Walked(g)) > MaxFolders
    BY <1>6, <1>7, <1>8
  <2>2. /\ \A n \in DOMAIN selection.files :
             n \in DOMAIN selection'.files /\ selection'.files[n] = selection.files[n]
        /\ \A n \in DOMAIN selection'.files :
             n \in DOMAIN selection.files /\ selection'.files[n] = selection.files[n]
        /\ selection.loops \subseteq selection'.loops /\ selection.large \subseteq selection'.large
    BY <1>6
  <2> QED
    BY <1>2, <2>1, <2>2, SelectionGrows
<1>10. SelectionOK(selection', Turns \ left', {})
  BY <1>3, <1>4, <1>6, <1>9, TurnsOver
<1> QED
  BY <1>1, <1>2, <1>3, <1>6, <1>10, SelectionAfter

LEMMA TakeFolderSelects ==
  ASSUME TypeOK, SelectionInv, NEW e, TakeFolder(e)
  PROVE  SelectionInv' /\ left' \in SUBSET Nat
<1>1. /\ step = "take" /\ step' = "walk" /\ Fixed /\ Taking /\ entry' = e /\ selection' = selection
      /\ e \in EntriesAt(First(left))
  BY DEF TakeFolder, Taking, Fixed
<1>2. /\ Walks /\ left \subseteq Turns /\ selection.loaded = <<>>
      /\ SelectionOK(selection, Turns \ left, {})
  BY <1>1 DEF SelectionInv
<1>3. /\ left' \in SUBSET Nat /\ left' \subseteq Turns /\ First(left) \in Turns
      /\ Turns \ left' = (Turns \ left) \cup {First(left)}
  BY <1>1, <1>2, TurnFacts
<1>4. EntriesAt(First(left)) = {e}
  BY <1>1, <1>3, OneEntry
<1>5. SelectionOK(selection, Turns \ left', {e})
  BY <1>2, <1>3, <1>4, TurnsOver
<1> QED
  BY <1>1, <1>2, <1>3, <1>5, SelectionAfter

\* The entry that was walked joins the selection with Pi's files, or is left out with a cause.
LEMMA SettleKeeps ==
  ASSUME TypeOK, WalkInv, SelectionInv, Settle
  PROVE  SelectionInv' /\ selection' \in Selection
<1> DEFINE read == [selection EXCEPT !.unreadable = @ \cup walk.unreadable]
           turns == Turns \ left
<1>1. /\ step = "walk" /\ frames = <<>> /\ step' = "take" /\ Fixed /\ left' = left
      /\ walk \in Walk /\ selection \in Selection /\ entered \in SUBSET Trails
  BY DEF Settle, Fixed, TypeOK
<1>2. /\ Walks /\ left \subseteq Turns /\ selection.loaded = <<>>
      /\ SelectionOK(selection, turns, {entry})
  BY <1>1 DEF SelectionInv
<1>3. WalkOK(entry, <<>>, realAncestors, walk, entered, {}) /\ Counted(walk, entered)
  BY <1>1 DEF WalkInv
<1>4. entry \in Entries /\ entry \in FolderEntries /\ entry \in Entry /\ entry.name \in STRING
  BY <1>3, EntryFacts DEF WalkOK, FolderEntries, Entry
<1>5. /\ read \in Selection /\ read.files = selection.files /\ read.loaded = <<>>
      /\ read.loops = selection.loops /\ read.large = selection.large
  BY <1>1, <1>2, SelectRead DEF Walk
<1>6. \A g \in FolderEntries : g.name = entry.name => g = entry
  BY <1>4, EntryFacts
<1>7. selection' =
        CASE walk.loops # {} -> [read EXCEPT !.loops = @ \cup {entry.name}]
          [] walk.loops = {} /\ walk.overCap -> [read EXCEPT !.large = @ \cup {entry.name}]
          [] OTHER -> [read EXCEPT !.files = @ \o walk.files]
  BY DEF Settle
<1>8. {entry.name} \in SUBSET STRING
  BY <1>4
<1> HIDE DEF read
<1> SUFFICES /\ selection' \in Selection /\ selection'.loaded = <<>>
             /\ SelectionOK(selection', turns, {})
  BY <1>1, <1>2, SelectionAfter
<1>9. CASE walk.loops # {}
  <2>1. selection' = [read EXCEPT !.loops = @ \cup {entry.name}]
    BY <1>7, <1>9
  <2>2. /\ selection' \in Selection /\ selection'.files = selection.files
        /\ selection'.loaded = <<>>
        /\ selection'.loops = selection.loops \cup {entry.name}
        /\ selection'.large = selection.large
    BY <1>5, <1>8, <2>1, SelectLoop
  <2>3. LoopCause(entry)
    BY <1>3, <1>9 DEF WalkOK
  <2>4. SelectionOK(selection', turns, {entry})
    <3>1. \A g \in FolderEntries :
            /\ g.name \in selection'.loops \ selection.loops => LoopCause(g)
            /\ g.name \in selection'.large \ selection.large => Cardinality(Walked(g)) > MaxFolders
      BY <1>6, <2>2, <2>3
    <3>2. /\ \A n \in DOMAIN selection.files :
               n \in DOMAIN selection'.files /\ selection'.files[n] = selection.files[n]
          /\ \A n \in DOMAIN selection'.files :
               n \in DOMAIN selection.files /\ selection'.files[n] = selection.files[n]
          /\ selection.loops \subseteq selection'.loops
          /\ selection.large \subseteq selection'.large
      BY <2>2
    <3> QED
      BY <1>2, <3>1, <3>2, SelectionGrows
  <2>5. SelectionOK(selection', turns, {})
    BY <2>2, <2>4, TurnsOver
  <2> QED
    BY <2>2, <2>5
<1>10. CASE walk.loops = {} /\ walk.overCap
  <2>1. selection' = [read EXCEPT !.large = @ \cup {entry.name}]
    BY <1>7, <1>10
  <2>2. /\ selection' \in Selection /\ selection'.files = selection.files
        /\ selection'.loaded = <<>>
        /\ selection'.loops = selection.loops
        /\ selection'.large = selection.large \cup {entry.name}
    BY <1>5, <1>8, <2>1, SelectLarge
  <2>3. Cardinality(Walked(entry)) > MaxFolders
    BY <1>1, <1>3, <1>10, WalkOverCap
  <2>4. SelectionOK(selection', turns, {entry})
    <3>1. \A g \in FolderEntries :
            /\ g.name \in selection'.loops \ selection.loops => LoopCause(g)
            /\ g.name \in selection'.large \ selection.large => Cardinality(Walked(g)) > MaxFolders
      BY <1>6, <2>2, <2>3
    <3>2. /\ \A n \in DOMAIN selection.files :
               n \in DOMAIN selection'.files /\ selection'.files[n] = selection.files[n]
          /\ \A n \in DOMAIN selection'.files :
               n \in DOMAIN selection.files /\ selection'.files[n] = selection.files[n]
          /\ selection.loops \subseteq selection'.loops
          /\ selection.large \subseteq selection'.large
      BY <2>2
    <3> QED
      BY <1>2, <3>1, <3>2, SelectionGrows
  <2>5. SelectionOK(selection', turns, {})
    BY <2>2, <2>4, TurnsOver
  <2> QED
    BY <2>2, <2>5
<1>11. CASE walk.loops = {} /\ ~walk.overCap
  <2>1. selection' = [read EXCEPT !.files = @ \o walk.files]
    BY <1>7, <1>11
  <2>2. /\ selection' \in Selection /\ selection'.files = selection.files \o walk.files
        /\ selection'.loaded = <<>>
        /\ selection'.loops = selection.loops /\ selection'.large = selection.large
    BY <1>1, <1>5, <2>1, WalkFields, SelectFiles
  <2>3. /\ TakenRightly(entry)
        /\ \A n \in DOMAIN walk.files : walk.files[n] \in PiFiles(entry, Listed)
        /\ \A f \in PiFiles(entry, Listed) : \E n \in DOMAIN walk.files : walk.files[n] = f
    BY <1>1, <1>3, <1>11, WalkComplete
  <2>4. /\ \A n \in DOMAIN selection.files :
             n \in DOMAIN selection'.files /\ selection'.files[n] = selection.files[n]
        /\ \A n \in DOMAIN walk.files :
             \E m \in DOMAIN selection'.files : selection'.files[m] = walk.files[n]
        /\ \A n \in DOMAIN selection'.files :
             \/ n \in DOMAIN selection.files /\ selection'.files[n] = selection.files[n]
             \/ \E m \in DOMAIN walk.files : selection'.files[n] = walk.files[m]
    <3>1. selection.files \in Seq(FileFound) /\ walk.files \in Seq(FileFound)
      BY <1>1 DEF Selection, Walk
    <3>2. Concat(selection'.files, selection.files, walk.files)
      BY <2>2, <3>1 DEF Concat
    <3> QED
      BY <3>2, ConcatFacts
  <2>5. \A n \in DOMAIN walk.files : walk.files[n].path[1] = entry.name
    <3>1. workspace \in Workspace /\ FileTree(workspace) /\ entry.to \in Folders
      BY <1>4, TreeFacts, EntryFacts DEF FolderEntries
    <3> QED
      BY <1>4, <2>3, <3>1, PiFilesNamed
  <2>6. SelectionOK(selection', turns, {entry})
    <3>1. \A n \in DOMAIN selection'.files :
            \/ n \in DOMAIN selection.files /\ selection'.files[n] = selection.files[n]
            \/ /\ selection'.files[n].path[1] = entry.name
               /\ selection'.files[n] \in PiFiles(entry, Listed)
      BY <2>3, <2>4, <2>5
    <3> QED
      BY <1>2, <1>4, <2>2, <2>4, <3>1, SelectionGrows
  <2>7. \A f \in PiFiles(entry, Listed) :
          \E n \in DOMAIN selection'.files : selection'.files[n] = f
    BY <2>3, <2>4
  <2>8. SelectionOK(selection', turns, {})
    BY <2>3, <2>6, <2>7, TurnsOver
  <2> QED
    BY <2>2, <2>8
<1> QED
  BY <1>9, <1>10, <1>11

LEMMA AskKeeps ==
  ASSUME TypeOK, SelectionInv, Ask
  PROVE  /\ SelectionInv' /\ left' \in SUBSET Nat /\ selection' \in Selection
         /\ ~ (step' = "done" /\ Walks)
<1>1. /\ step = "ask" /\ Fixed /\ selection = NoSelection /\ left \in SUBSET Nat
      /\ workspace \in Workspace /\ Root \in Folders
      /\ policy \in [mode : {"bundled", "all-workspace", "allowlist"}, allowlist : Seq(STRING)]
  BY TreeFacts, SkillWalkAssumption DEF Ask, Fixed, SelectionInv, TypeOK
<1>2. /\ NoSelection \in Selection /\ NoSelection.files = <<>> /\ NoSelection.loaded = <<>>
      /\ NoSelection.loops = {} /\ NoSelection.large = {}
  BY DEF NoSelection, Selection
<1>3. Turns \in SUBSET Nat
  <2>1. Children(Root) \in SUBSET Nat
    BY <1>1, ChildFacts
  <2>2. DOMAIN policy.allowlist \in SUBSET Nat
    BY <1>1
  <2> QED
    BY <2>1, <2>2 DEF Turns
<1>4. CASE policy.mode = "bundled" /\ step' = "done" /\ UNCHANGED <<left, selection>>
  BY <1>1, <1>2, <1>4, SelectionAfter DEF Walks
<1>5. CASE /\ ~Readable(Root) /\ step' = "done"
           /\ selection' = [selection EXCEPT !.unreadable = {<<>>}] /\ UNCHANGED left
  <2>1. selection' \in Selection
    <3>1. {<<>>} \in SUBSET Seq(STRING)
      OBVIOUS
    <3> QED
      BY <1>1, <1>2, <1>5, <3>1 DEF Selection
  <2> QED
    BY <1>1, <1>5, <2>1, SelectionAfter DEF Walks
<1>6. CASE /\ policy.mode = "all-workspace" /\ HasSkillFile(Root) /\ step' = "done"
           /\ selection' = [selection EXCEPT !.files = <<SkillFile(<<>>, Root)>>,
                                             !.loaded = <<SkillFile(<<>>, Root)>>]
           /\ UNCHANGED left
  <2>1. SkillFile(<<>>, Root) \in FileFound
    <3>1. <<>> \in Seq(STRING)
      OBVIOUS
    <3> QED
      BY <1>1, <1>6, <3>1, SkillFileFacts
  <2>2. selection' \in Selection
    <3>1. <<SkillFile(<<>>, Root)>> \in Seq(FileFound)
      BY <2>1
    <3> QED
      BY <1>1, <1>2, <1>6, <3>1 DEF Selection
  <2>3. ~Walks
    BY <1>6 DEF Walks, Listed
  <2> QED
    BY <1>1, <1>6, <2>2, <2>3, SelectionAfter
<1>7. CASE /\ policy.mode # "bundled" /\ Readable(Root) /\ (Listed \/ ~HasSkillFile(Root))
           /\ step' = "take" /\ left' = Turns /\ UNCHANGED selection
  <2>1. Turns \ left' = {}
    BY <1>7
  <2>2. SelectionOK(NoSelection, {}, {})
    BY <1>2 DEF SelectionOK
  <2> QED
    BY <1>1, <1>2, <1>3, <1>7, <2>1, <2>2, SelectionAfter DEF Walks
<1> QED
  BY <1>4, <1>5, <1>6, <1>7 DEF Ask

-----------------------------------------------------------------------------
(* Loading.                                                                *)

LEMMA LoadAfter ==
  ASSUME Fixed,
         step' = "load" => /\ left' \subseteq DOMAIN selection'.files
                           /\ LoadedOK(selection', DOMAIN selection'.files \ left'),
         step' = "done" /\ Walks => LoadedOK(selection', DOMAIN selection'.files)
  PROVE  LoadInv'
BY EntriesStay DEF LoadInv, LoadedOK

LEMMA TakenAllKeeps ==
  ASSUME TypeOK, SelectionInv, TakenAll
  PROVE  SelectionInv' /\ LoadInv' /\ left' \in SUBSET Nat
<1>1. /\ step = "take" /\ left = {} /\ step' = "load" /\ left' = DOMAIN selection.files /\ Fixed
      /\ selection' = selection /\ selection \in Selection
  BY DEF TakenAll, Fixed, TypeOK
<1>2. Walks /\ selection.loaded = <<>> /\ SelectionOK(selection, Turns \ left, {})
  BY <1>1 DEF SelectionInv
<1>3. Turns \ left = Turns
  BY <1>1
<1>4. SelectionInv'
  BY <1>1, <1>2, <1>3, SelectionAfter
<1>5. LoadedOK(selection, {})
  BY <1>2 DEF LoadedOK
<1>6. DOMAIN selection.files \ left' = {} /\ left' \subseteq DOMAIN selection.files
  BY <1>1
<1>7. LoadInv'
  BY <1>1, <1>5, <1>6, LoadAfter
<1>8. left' \in SUBSET Nat
  BY <1>1 DEF Selection
<1> QED
  BY <1>4, <1>7, <1>8

\* What Load does to the two lists: a file is loaded unless a file before it is the same.
Loads(chosen, after, next) ==
  /\ after.files = chosen.files
  /\ after.loaded = IF \E i \in DOMAIN chosen.loaded :
                           chosen.loaded[i].real = chosen.files[First(next)].real
                      THEN chosen.loaded ELSE Append(chosen.loaded, chosen.files[First(next)])

LEMMA LoadsNext ==
  ASSUME NEW chosen \in Selection, NEW next \in SUBSET DOMAIN chosen.files, next # {},
         LoadedOK(chosen, DOMAIN chosen.files \ next), NEW after, Loads(chosen, after, next)
  PROVE  LoadedOK(after, DOMAIN chosen.files \ (next \ {First(next)}))
<1> DEFINE n == First(next)
           file == chosen.files[n]
           before == DOMAIN chosen.files \ next
           over == DOMAIN chosen.files \ (next \ {n})
<1>1. /\ chosen.files \in Seq(FileFound) /\ chosen.loaded \in Seq(FileFound)
      /\ DOMAIN chosen.files = 1 .. Len(chosen.files) /\ Len(chosen.files) \in Nat
  BY DEF Selection
<1>2. next \in SUBSET Nat
  BY <1>1
<1>3. n \in next /\ (\A i \in next : n <= i) /\ n \in DOMAIN chosen.files
  BY <1>2, FirstIsLeast
<1>4. file \in FileFound /\ over = before \cup {n}
  BY <1>1, <1>3
<1>5. \A k \in 1 .. n - 1 : k \in before
  <2> SUFFICES ASSUME NEW k \in 1 .. n - 1 PROVE k \in 1 .. Len(chosen.files) /\ k \notin next
    BY <1>1
  <2>1. k < n /\ n \in 1 .. Len(chosen.files)
    BY <1>1, <1>3
  <2> QED
    BY <1>1, <1>3, <2>1
<1>6. LoadedOK(chosen, before)
  OBVIOUS
<1>7. file = chosen.files[n] /\ after.files = chosen.files
  BY DEF Loads
<1> DEFINE again == \E i \in DOMAIN chosen.loaded : chosen.loaded[i].real = file.real
<1>8. /\ again => after.loaded = chosen.loaded
      /\ ~again => after.loaded = Append(chosen.loaded, file)
  BY DEF Loads
<1> HIDE DEF file, n, before, over
<1>9. /\ \A i \in DOMAIN chosen.loaded :
           i \in DOMAIN after.loaded /\ after.loaded[i] = chosen.loaded[i]
      /\ \E i \in DOMAIN after.loaded : after.loaded[i].real = file.real
      /\ \A i \in DOMAIN after.loaded :
           \/ i \in DOMAIN chosen.loaded /\ after.loaded[i] = chosen.loaded[i]
           \/ ~again /\ i = Len(chosen.loaded) + 1 /\ after.loaded[i] = file
  <2>1. CASE again
    BY <1>8, <2>1
  <2>2. CASE ~again
    <3>1. after.loaded = Append(chosen.loaded, file)
      BY <1>8, <2>2
    <3> HIDE DEF again
    <3>2. Appended(after.loaded, chosen.loaded, file)
      BY <1>1, <1>4, <3>1 DEF Appended
    <3>3. /\ \A i \in DOMAIN chosen.loaded :
               i \in DOMAIN after.loaded /\ after.loaded[i] = chosen.loaded[i]
          /\ \E i \in DOMAIN after.loaded : after.loaded[i] = file
          /\ \A i \in DOMAIN after.loaded :
               \/ i \in DOMAIN chosen.loaded /\ after.loaded[i] = chosen.loaded[i]
               \/ i = Len(chosen.loaded) + 1 /\ after.loaded[i] = file
      BY <3>2, AppendedFacts
    <3> QED
      BY <2>2, <3>3
  <2> QED
    BY <2>1, <2>2
<1>10. /\ \A i \in before : \E j \in DOMAIN chosen.loaded :
            chosen.loaded[j].real = chosen.files[i].real
       /\ \A i, j \in DOMAIN chosen.loaded : chosen.loaded[i].real = chosen.loaded[j].real => i = j
       /\ \A j \in DOMAIN chosen.loaded : \E i \in before :
            /\ chosen.files[i] = chosen.loaded[j]
            /\ \A k \in 1 .. i - 1 : chosen.files[k].real # chosen.loaded[j].real
  BY <1>6 DEF LoadedOK
<1>11. ASSUME NEW i \in over
       PROVE  \E j \in DOMAIN after.loaded : after.loaded[j].real = chosen.files[i].real
  <2>1. CASE i = n
    BY <1>7, <1>9, <2>1
  <2>2. CASE i # n
    <3>1. PICK j \in DOMAIN chosen.loaded : chosen.loaded[j].real = chosen.files[i].real
      BY <1>4, <1>10, <2>2
    <3> QED
      BY <1>9, <3>1
  <2> QED
    BY <2>1, <2>2
<1>12. ASSUME NEW i \in DOMAIN after.loaded, NEW j \in DOMAIN after.loaded,
              after.loaded[i].real = after.loaded[j].real
       PROVE  i = j
  BY <1>9, <1>10, <1>12
<1>13. ASSUME NEW j \in DOMAIN after.loaded
       PROVE  \E i \in over :
                /\ chosen.files[i] = after.loaded[j]
                /\ \A k \in 1 .. i - 1 : chosen.files[k].real # after.loaded[j].real
  <2>1. CASE j \in DOMAIN chosen.loaded /\ after.loaded[j] = chosen.loaded[j]
    <3>1. PICK i \in before :
            /\ chosen.files[i] = chosen.loaded[j]
            /\ \A k \in 1 .. i - 1 : chosen.files[k].real # chosen.loaded[j].real
      BY <1>10, <2>1
    <3> QED
      BY <1>4, <2>1, <3>1
  <2>2. CASE ~again /\ after.loaded[j] = file
    <3>1. \A k \in 1 .. n - 1 : chosen.files[k].real # file.real
      BY <1>5, <1>10, <2>2
    <3> QED
      BY <1>4, <1>7, <2>2, <3>1
  <2> QED
    BY <1>9, <2>1, <2>2
<1>14. LoadedOK(after, over)
  <2>1. \A i \in over : \E j \in DOMAIN after.loaded : after.loaded[j].real = after.files[i].real
    BY <1>7, <1>11
  <2>2. \A i, j \in DOMAIN after.loaded : after.loaded[i].real = after.loaded[j].real => i = j
    BY <1>12
  <2>3. \A j \in DOMAIN after.loaded : \E i \in over :
          /\ after.files[i] = after.loaded[j]
          /\ \A k \in 1 .. i - 1 : after.files[k].real # after.loaded[j].real
    BY <1>7, <1>13
  <2> QED
    BY <2>1, <2>2, <2>3 DEF LoadedOK
<1> QED
  BY <1>14 DEF over, n

LEMMA LoadKeeps ==
  ASSUME TypeOK, SelectionInv, LoadInv, Load
  PROVE  SelectionInv' /\ LoadInv' /\ left' \in SUBSET Nat /\ selection' \in Selection
<1> DEFINE file == selection.files[First(left)]
           again == \E i \in DOMAIN selection.loaded : selection.loaded[i].real = file.real
<1>1. /\ step = "load" /\ left # {} /\ step' = "load" /\ left' = left \ {First(left)} /\ Fixed
      /\ selection' = IF again THEN selection ELSE [selection EXCEPT !.loaded = Append(@, file)]
      /\ selection \in Selection /\ left \in SUBSET Nat
  BY DEF Load, Fixed, TypeOK
<1>2. /\ Walks /\ SelectionOK(selection, Turns, {}) /\ left \subseteq DOMAIN selection.files
      /\ LoadedOK(selection, DOMAIN selection.files \ left)
  BY <1>1 DEF SelectionInv, LoadInv
<1>3. file \in FileFound
  <2>1. First(left) \in DOMAIN selection.files /\ selection.files \in Seq(FileFound)
    BY <1>1, <1>2, FirstIsLeast DEF Selection
  <2> QED
    BY <2>1
<1> DEFINE loaded == IF again THEN selection.loaded ELSE Append(selection.loaded, file)
<1>4. loaded \in Seq(FileFound)
  <2>1. selection.loaded \in Seq(FileFound)
    BY <1>1 DEF Selection
  <2> HIDE DEF file, again
  <2> QED
    BY <1>3, <2>1
<1>5. /\ selection' \in Selection /\ selection'.files = selection.files
      /\ selection'.loaded = loaded
      /\ selection'.loops = selection.loops /\ selection'.large = selection.large
  <2> HIDE DEF file, again
  <2>1. CASE again
    BY <1>1, <2>1
  <2>2. CASE ~again
    <3>1. selection' = [selection EXCEPT !.loaded = Append(@, file)]
      BY <1>1, <2>2
    <3> QED
      BY <1>1, <1>3, <2>2, <3>1, SelectLoaded
  <2> QED
    BY <2>1, <2>2
<1>6. SelectionOK(selection', Turns, {})
  BY <1>2, <1>5 DEF SelectionOK
<1>7. SelectionInv'
  BY <1>1, <1>2, <1>6, SelectionAfter
<1>8. LoadedOK(selection', DOMAIN selection.files \ (left \ {First(left)}))
  <2>1. Loads(selection, selection', left)
    BY <1>5 DEF Loads
  <2> QED
    BY <1>1, <1>2, <2>1, LoadsNext
<1>9. LoadInv'
  BY <1>1, <1>2, <1>5, <1>8, LoadAfter
<1> QED
  BY <1>1, <1>5, <1>7, <1>9

LEMMA AnswerKeeps ==
  ASSUME TypeOK, SelectionInv, LoadInv, Answer
  PROVE  SelectionInv' /\ LoadInv'
<1>1. step = "load" /\ left = {} /\ step' = "done" /\ Fixed /\ selection' = selection
  BY DEF Answer, Fixed
<1>2. /\ Walks /\ SelectionOK(selection, Turns, {})
      /\ LoadedOK(selection, DOMAIN selection.files \ left)
  BY <1>1 DEF SelectionInv, LoadInv
<1>3. DOMAIN selection.files \ left = DOMAIN selection.files
  BY <1>1
<1> QED
  BY <1>1, <1>2, <1>3, SelectionAfter, LoadAfter

-----------------------------------------------------------------------------
(* The invariant, and what it says of the answer.                          *)

LEMMA InitInv ==
  ASSUME Init
  PROVE  Inv
<1>1. entry = NoEntry
  BY DEF Init
<1>2. NewWalk \in Walk
  BY DEF NewWalk, Walk
<1>3. NoSelection \in Selection
  BY DEF NoSelection, Selection
<1>4. <<Root>> \in Seq(Folders)
  BY SkillWalkAssumption
<1>5. TypeOK
  <2>1. workspace \in Workspaces /\ policy \in Policies
    BY DEF Init
  <2>2. step \in {"ask", "take", "walk", "load", "done"} /\ left \in SUBSET Nat
    BY DEF Init
  <2>3. entry \in Entry \cup {NoEntry}
    BY <1>1
  <2>4. frames \in Seq(Call)
    BY DEF Init
  <2>5. realAncestors \in Seq(Folders)
    BY <1>4 DEF Init
  <2>6. walk \in Walk
    BY <1>2 DEF Init
  <2>7. selection \in Selection
    BY <1>3 DEF Init
  <2>8. entered \in SUBSET Trails
    BY DEF Init
  <2> QED
    BY <2>1, <2>2, <2>3, <2>4, <2>5, <2>6, <2>7, <2>8 DEF TypeOK
<1>6. step = "ask" /\ selection = NoSelection
  BY DEF Init
<1>7. WalkInv
  BY <1>6 DEF WalkInv
<1>8. SelectionInv
  BY <1>6 DEF SelectionInv
<1>9. LoadInv
  BY <1>6 DEF LoadInv
<1> QED
  BY <1>5, <1>7, <1>8, <1>9 DEF Inv

\* A step of the walk leaves the selection and the turns.
LEMMA WalkingSelects ==
  ASSUME SelectionInv, step = "walk", Fixed,
         UNCHANGED <<step, left, entry, selection>>
  PROVE  SelectionInv' /\ LoadInv'
BY SelectionAfter, LoadAfter DEF SelectionInv

LEMMA TypesAfter ==
  ASSUME TypeOK, Fixed, step' \in {"ask", "take", "walk", "load", "done"},
         left' \in SUBSET Nat, entry' \in Entry \cup {NoEntry}, frames' \in Seq(Call),
         realAncestors' \in Seq(Folders), walk' \in Walk, selection' \in Selection,
         entered' \in SUBSET Trails
  PROVE  TypeOK'
BY DEF TypeOK, Fixed

\* Each action keeps the invariant.
LEMMA NextInv ==
  ASSUME Inv, [Next]_vars
  PROVE  Inv'
<1> USE DEF Inv
<1>1. /\ step \in {"ask", "take", "walk", "load", "done"} /\ left \in SUBSET Nat
      /\ entry \in Entry \cup {NoEntry}
      /\ frames \in Seq(Call) /\ realAncestors \in Seq(Folders) /\ walk \in Walk
      /\ selection \in Selection /\ entered \in SUBSET Trails
  BY DEF TypeOK
<1>2. CASE Ask
  <2>1. /\ SelectionInv' /\ left' \in SUBSET Nat /\ selection' \in Selection
        /\ ~ (step' = "done" /\ Walks)
    BY <1>2, AskKeeps
  <2>2. /\ Fixed /\ step' \in {"done", "take"}
        /\ UNCHANGED <<entry, frames, realAncestors, walk, entered>>
    BY <1>2 DEF Ask, Fixed
  <2>3. TypeOK'
    BY <1>1, <2>1, <2>2, TypesAfter
  <2>4. WalkInv' /\ LoadInv'
    BY <2>1, <2>2, WalkAfter, LoadAfter
  <2> QED
    BY <2>1, <2>3, <2>4
<1>3. CASE TakeNothing
  <2>1. SelectionInv' /\ left' \in SUBSET Nat
    BY <1>3, TakeNothingKeeps
  <2>2. /\ Fixed /\ step' = "take"
        /\ UNCHANGED <<entry, frames, realAncestors, walk, selection, entered>>
    BY <1>3 DEF TakeNothing, Taking, Fixed
  <2>3. TypeOK'
    BY <1>1, <2>1, <2>2, TypesAfter
  <2>4. WalkInv' /\ LoadInv'
    BY <2>2, WalkAfter, LoadAfter
  <2> QED
    BY <2>1, <2>3, <2>4
<1>4. ASSUME NEW e, TakeFile(e) \/ TakeRoot(e) PROVE Inv'
  <2>1. SelectionInv' /\ left' \in SUBSET Nat /\ selection' \in Selection
    BY <1>4, TakeFileKeeps, TakeRootKeeps
  <2>2. /\ Fixed /\ step' = "take"
        /\ UNCHANGED <<entry, frames, realAncestors, walk, entered>>
    BY <1>4 DEF TakeFile, TakeRoot, Taking, Fixed
  <2>3. TypeOK'
    BY <1>1, <2>1, <2>2, TypesAfter
  <2>4. WalkInv' /\ LoadInv'
    BY <2>2, WalkAfter, LoadAfter
  <2> QED
    BY <2>1, <2>3, <2>4
<1>5. ASSUME NEW e, TakeFolder(e) PROVE Inv'
  <2>1. SelectionInv' /\ left' \in SUBSET Nat
    BY <1>5, TakeFolderSelects
  <2>2. /\ Fixed /\ Taking /\ step' = "walk" /\ entry' = e /\ selection' = selection
        /\ e \in EntriesAt(First(left)) /\ left \subseteq Turns
    BY <1>5 DEF TakeFolder, Taking, Fixed, SelectionInv
  <2>3. /\ WalkInv' /\ frames' \in Seq(Call) /\ realAncestors' \in Seq(Folders) /\ walk' \in Walk
        /\ entered' \in SUBSET Trails
    BY <1>5, <2>2, TakeFolderKeeps
  <2>4. entry' \in Entry
    BY <2>2, TurnFacts, OneEntry
  <2>5. TypeOK'
    BY <1>1, <2>1, <2>2, <2>3, <2>4, TypesAfter
  <2>6. LoadInv'
    BY <2>2, LoadAfter
  <2> QED
    BY <2>1, <2>3, <2>5, <2>6
<1>6. CASE VisitFolder
  <2>1. /\ WalkInv' /\ frames' \in Seq(Call) /\ realAncestors' \in Seq(Folders) /\ walk' \in Walk
        /\ entered' \in SUBSET Trails
    BY <1>6, VisitFolderKeeps
  <2>2. Fixed /\ step = "walk" /\ UNCHANGED <<step, left, entry, selection>>
    BY <1>6 DEF VisitFolder, Visiting, Fixed
  <2> QED
    BY <1>1, <2>1, <2>2, TypesAfter, WalkingSelects
<1>7. CASE MeetLoop
  <2>1. WalkInv' /\ frames' \in Seq(Call) /\ walk' \in Walk
    BY <1>7, MeetLoopKeeps
  <2>2. /\ Fixed /\ step = "walk"
        /\ UNCHANGED <<step, left, entry, selection>> /\ UNCHANGED <<realAncestors, entered>>
    BY <1>7 DEF MeetLoop, Visiting, Fixed
  <2> QED
    BY <1>1, <2>1, <2>2, TypesAfter, WalkingSelects
<1>8. CASE VisitFile
  <2>1. WalkInv' /\ frames' \in Seq(Call) /\ walk' \in Walk
    BY <1>8, VisitFileKeeps
  <2>2. /\ Fixed /\ step = "walk"
        /\ UNCHANGED <<step, left, entry, selection>> /\ UNCHANGED <<realAncestors, entered>>
    BY <1>8 DEF VisitFile, Visiting, Fixed
  <2> QED
    BY <1>1, <2>1, <2>2, TypesAfter, WalkingSelects
<1>9. CASE Return
  <2>1. WalkInv' /\ frames' \in Seq(Call) /\ realAncestors' \in Seq(Folders)
    BY <1>9, ReturnKeeps
  <2>2. /\ Fixed /\ step = "walk"
        /\ UNCHANGED <<step, left, entry, selection>> /\ UNCHANGED <<walk, entered>>
    BY <1>9 DEF Return, Fixed
  <2> QED
    BY <1>1, <2>1, <2>2, TypesAfter, WalkingSelects
<1>10. CASE Settle
  <2>1. SelectionInv' /\ selection' \in Selection
    BY <1>10, SettleKeeps
  <2>2. /\ Fixed /\ step' = "take"
        /\ UNCHANGED <<left, entry, frames, realAncestors, walk, entered>>
    BY <1>10 DEF Settle, Fixed
  <2>3. TypeOK'
    BY <1>1, <2>1, <2>2, TypesAfter
  <2>4. WalkInv' /\ LoadInv'
    BY <2>2, WalkAfter, LoadAfter
  <2> QED
    BY <2>1, <2>3, <2>4
<1>11. CASE TakenAll
  <2>1. SelectionInv' /\ LoadInv' /\ left' \in SUBSET Nat
    BY <1>11, TakenAllKeeps
  <2>2. /\ Fixed /\ step' = "load"
        /\ UNCHANGED <<entry, frames, realAncestors, walk, selection, entered>>
    BY <1>11 DEF TakenAll, Fixed
  <2> QED
    BY <1>1, <2>1, <2>2, TypesAfter, WalkAfter
<1>12. CASE Load
  <2>1. SelectionInv' /\ LoadInv' /\ left' \in SUBSET Nat /\ selection' \in Selection
    BY <1>12, LoadKeeps
  <2>2. /\ Fixed /\ step' = "load"
        /\ UNCHANGED <<entry, frames, realAncestors, walk, entered>>
    BY <1>12 DEF Load, Fixed
  <2> QED
    BY <1>1, <2>1, <2>2, TypesAfter, WalkAfter
<1>13. CASE Answer
  <2>1. SelectionInv' /\ LoadInv'
    BY <1>13, AnswerKeeps
  <2>2. /\ Fixed /\ step' = "done"
        /\ UNCHANGED <<left, entry, frames, realAncestors, walk, selection, entered>>
    BY <1>13 DEF Answer, Fixed
  <2> QED
    BY <1>1, <2>1, <2>2, TypesAfter, WalkAfter
<1>14. CASE UNCHANGED vars
  <2>1. /\ Fixed
        /\ UNCHANGED <<step, left, entry, frames, realAncestors, walk, selection, entered>>
    BY <1>14 DEF vars, Fixed
  <2>2. TypeOK'
    BY <1>1, <2>1, TypesAfter
  <2>3. WalkInv'
    BY <2>1, WalkAfter DEF WalkInv
  <2>4. SelectionInv'
    BY <2>1, SelectionAfter DEF SelectionInv
  <2>5. LoadInv'
    BY <2>1, LoadAfter DEF LoadInv
  <2> QED
    BY <2>2, <2>3, <2>4, <2>5
<1> QED
  BY <1>2, <1>3, <1>4, <1>5, <1>6, <1>7, <1>8, <1>9, <1>10, <1>11, <1>12, <1>13, <1>14 DEF Next

\* With every turn over, the selection is the one WalkAgreesWithPi asks for.
LEMMA InvAgrees ==
  ASSUME Inv
  PROVE  WalkAgreesWithPi
<1> SUFFICES ASSUME Asked, Listed \/ ~HasSkillFile(Root) PROVE WalkAgreesWithPi
  BY DEF WalkAgreesWithPi, LoadsWhatPiWould, RefusedForCause
<1>1. TypeOK /\ step = "done" /\ Walks
  BY DEF Inv, Asked, Walks
<1>2. SelectionOK(selection, Turns, {}) /\ LoadedOK(selection, DOMAIN selection.files)
  BY <1>1 DEF Inv, SelectionInv, LoadInv
<1>3. workspace \in Workspace /\ FileTree(workspace)
  BY <1>1, TreeFacts
<1>4. ASSUME NEW e \in FolderEntries, ~Refused(e)
      PROVE  TakenRightly(e) /\ FilesOf(e) = PiFiles(e, Listed)
  <2>1. e \in Entries /\ e.directory /\ e \in Entry /\ e.to \in Folders
    BY <1>1, EntryFacts DEF FolderEntries
  <2>2. PICK turn \in Turns : e \in EntriesAt(turn)
    BY <2>1 DEF Entries
  <2>3. /\ TakenRightly(e)
        /\ \A f \in PiFiles(e, Listed) : \E n \in DOMAIN selection.files : selection.files[n] = f
    BY <1>2, <1>4, <2>1, <2>2 DEF SelectionOK, Refused
  <2>4. ASSUME NEW n \in DOMAIN selection.files, selection.files[n].path[1] = e.name
        PROVE  selection.files[n] \in PiFiles(e, Listed)
    <3>1. PICK g \in Entries : /\ selection.files[n].path[1] = g.name
                               /\ g.directory => selection.files[n] \in PiFiles(g, Listed)
      BY <1>2 DEF SelectionOK
    <3>2. g = e
      BY <1>1, <2>1, <2>4, <3>1, EntryFacts
    <3> QED
      BY <2>1, <3>1, <3>2
  <2>5. \A f \in PiFiles(e, Listed) : f.path[1] = e.name
    BY <1>3, <2>1, PiFilesNamed
  <2> QED
    BY <2>3, <2>4, <2>5 DEF FilesOf
<1>5. LoadsWhatPiWould
  BY <1>2, <1>4 DEF LoadsWhatPiWould, LoadedOK, TakenRightly
<1>6. RefusedForCause
  BY <1>2 DEF RefusedForCause, SelectionOK, LoopCause
<1> QED
  BY <1>5, <1>6 DEF WalkAgreesWithPi

\* The walk, the selection it fills and the loading of its files keep their invariant.
THEOREM Invariant == Spec => []Inv
<1>1. Init => Inv
  BY InitInv
<1>2. Inv /\ [Next]_vars => Inv'
  BY NextInv
<1> QED
  BY <1>1, <1>2, PTL DEF Spec

\* Every variable of the walk keeps its type.
THEOREM SkillTypes == Spec => []TypeOK
<1>1. Inv => TypeOK
  BY DEF Inv
<1> QED
  BY <1>1, Invariant, PTL

\* For any workspace, however its folders are linked, and any policy and cap: what
\* inspectWorkspaceSkills takes of an entry is what Pi's own walk would load of it, and what it
\* leaves out Pi could not have walked.
THEOREM SkillWalkIsRight == Spec => []WalkAgreesWithPi
<1>1. Inv => WalkAgreesWithPi
  BY InvAgrees
<1> QED
  BY <1>1, Invariant, PTL
=============================================================================
