--------------------------- MODULE DatumProblems ---------------------------
(* Bounded problems for DatumSets: views of paths up to two names deep,    *)
(* four datums to chunk, two members with up to four files each.           *)
EXTENDS Naturals, SequencesExt

Members == {1, 2}

Names == {"a", "b"}
AllPaths == {<<x>> : x \in Names} \cup {<<x, y>> : x \in Names, y \in Names}
NoConflict(view) == \A p, q \in view : p # q => ~IsPrefix(p, q)

GlobProblems ==
  [kind : {"glob"}, view : {v \in SUBSET AllPaths : NoConflict(v)},
   glob : [deep : {FALSE}, parts : {<<>>, <<"*">>, <<"a">>, <<"*", "*">>, <<"a", "*">>}]
          \cup {[deep |-> TRUE, parts |-> <<>>]}]

ChunkProblems ==
  [kind : {"chunk"}, sizes : BoundedSeq(0 .. 2, 4), number : {0}, bytes : 0 .. 3]
  \cup [kind : {"chunk"}, sizes : {[d \in 1 .. n |-> 1] : n \in 0 .. 7}, number : 1 .. 8, bytes : {0}]

AllFiles == [join : {1, 2}, group : {1, 2}]
Views == [Members -> SUBSET AllFiles]
JoinProblems == [kind : {"join"}, view : Views, outer : SUBSET Members]
GroupProblems == [kind : {"group", "groupJoin"}, view : Views]

OneName == {<<x>> : x \in Names}
RepoViews == UNION {[ps -> {"c", "d"}] : ps \in SUBSET OneName}
UnionProblems ==
  [kind : {"union"}, view : [{"r", "s"} -> RepoViews], repo : {"r"}, path : OneName,
   branches : {<<"r", "s">>, <<"s", "r">>, <<"cross">>, <<"union", "r">>, <<"s">>, <<"cross", "s">>}]

ListProblems ==
  [kind : {"list"}, states : BoundedSeq({"failed", "recovered", "success", "skipped"}, 4),
   limit : 0 .. 3]

MCProblems == GlobProblems \cup ChunkProblems \cup JoinProblems \cup GroupProblems
              \cup UnionProblems \cup ListProblems
=============================================================================
