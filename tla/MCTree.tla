-------------------------------- MODULE MCTree --------------------------------
(* Small instances of Tree for TLC. *)
EXTENDS Tree

\* a, a/b, a/b/c, a/b/e, d and x; b, c and e are ignored names, x a build's.
A == <<"a">>
AB == <<"a", "b">>
ABC == <<"a", "b", "c">>
ABE == <<"a", "b", "e">>
D == <<"d">>
X == <<"x">>
SixPaths == {A, AB, ABC, ABE, D, X}
Builds == {X}
IgnoredNames == {AB, ABC, ABE}
LinkedTo == D
OneVeiled == {D}

\* The container beside its workspace, and under the user's home.
Here == [ws |-> <<"here">>, root |-> <<"here", ".worktrees">>]
TwoPlaces == {Here, [ws |-> <<"there">>, root |-> <<"home">>]}

Layout(a, ab, abc, d, x) ==
  [p \in SixPaths |-> CASE p = A -> a [] p = AB -> ab [] p = ABC -> abc
                        [] p = ABE -> "none" [] p = D -> d [] OTHER -> x]

\* Repositories at a/b and d; a repository with an ignored
\* file, and a directory; one with an ignored directory, and a file beside;
\* one with nothing.
FourLayouts == {Layout("dir", "repo", "none", "repo", "none"),
                Layout("repo", "file", "none", "dir", "none"),
                Layout("repo", "dir", "file", "file", "none"),
                Layout("repo", "none", "none", "none", "none")}

\* One repository and nothing else.
OneLayout == {Layout("repo", "none", "none", "none", "none")}
=============================================================================
