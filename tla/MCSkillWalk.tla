----------------------------- MODULE MCSkillWalk -----------------------------
(***************************************************************************)
(* Workspaces for SkillWalk: w holds r, workspace/skills, which holds a,   *)
(* which holds b; o lies elsewhere and is reached by links alone.          *)
(***************************************************************************)
EXTENDS SkillWalk

File(name, to) ==
  [name |-> name, to |-> to, directory |-> FALSE, link |-> FALSE, out |-> FALSE, broken |-> FALSE]
Dir(name, to) == [File(name, to) EXCEPT !.directory = TRUE]
Link(name, to) == [Dir(name, to) EXCEPT !.link = TRUE]
Out(e) == [e EXCEPT !.out = TRUE]
Broken(e) == [Out(e) EXCEPT !.broken = TRUE]
Skill(to) == File("SKILL.md", to)
Note(to) == File("note.md", to)

InRoot ==
  {<<Dir("a", "a")>>, <<Dir("a", "a"), Link("l", "o")>>, <<Link("l", "b"), Dir("a", "a")>>,
   <<Skill("rs"), Dir("a", "a")>>, <<Note("rn"), Out(Dir("a", "a")), Link("l", "w")>>,
   <<Broken(Link("l", "w")), Dir("a", "a")>>, <<Link("l", "r"), Dir("a", "a")>>}

InA ==
  {<<Dir("b", "b")>>, <<Dir("b", "b"), Skill("as")>>, <<Dir("b", "b"), Out(Skill("as"))>>,
   <<Dir("b", "b"), Note("an")>>, <<Link("k", "o"), Dir("b", "b")>>,
   <<Dir("b", "b"), Link("k", "o")>>, <<Out(Link("k", "r")), Dir("b", "b")>>,
   <<Dir("b", "b"), Link("k", "b")>>, <<Dir("b", "b"), Link("k", "w")>>}

InB ==
  {<<>>, <<Skill("bs")>>, <<Note("bn")>>, <<Link("k", "o")>>, <<Link("k", "o"), Link("m", "o")>>,
   <<Link("k", "a")>>, <<Link("k", "r"), Skill("bs")>>}

InO ==
  {<<>>, <<Skill("os")>>, <<Note("on"), Link("k", "b")>>, <<Link("k", "a")>>, <<Link("k", "o")>>}

Graphs ==
  [in : {[f \in {"w", "r", "a", "b", "o"} |->
            CASE f = "r" -> r [] f = "a" -> a [] f = "b" -> b [] f = "o" -> o
              [] OTHER -> <<Dir("r", "r")>>] : r \in InRoot, a \in InA, b \in InB, o \in InO},
   within : {[f \in {"w", "r", "a", "b", "o"} |->
                CASE f = "w" -> {"w"} [] f = "r" -> {"w", "r"} [] f = "a" -> {"w", "r", "a"}
                  [] f = "b" -> {"w", "r", "a", "b"} [] OTHER -> {"o"}]},
   closed : {{}, {"b"}, {"o"}, {"r"}}]

Choices ==
  {[mode |-> "bundled", allowlist |-> <<>>], [mode |-> "all-workspace", allowlist |-> <<>>],
   [mode |-> "allowlist", allowlist |-> <<"l", "a">>]}
==============================================================================
