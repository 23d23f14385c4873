--------------------------- MODULE MCPolicyChecks ---------------------------
(***************************************************************************)
(* Small repositories for PolicyChecks, one family for each ecosystem:     *)
(* the checks of one read nothing of another.  At most three directories,  *)
(* one inside the other, are enough for a project, its workspace and a     *)
(* workspace between them.                                                 *)
(***************************************************************************)
EXTENDS PolicyChecks

Top == <<>>
A == <<"a">>
AB == <<"a", "b">>

\* No file, or one of some.
Maybe(files) == {{}} \cup {{f} : f \in files}
\* Any of these files, which have nothing to say.
Bare(named) == {{File(p[1], p[2], "ok", NoFacts) : p \in s} : s \in SUBSET named}
Unions(S, T) == {s \cup t : s \in S, t \in T}
With(trees, exclusions) ==
  {[tree |-> t, disabled |-> d, platform |-> "auto"] : t \in trees, d \in exclusions}

Everything == <<Member(<<"**">>)>>
AllButNested == <<Member(<<"**">>), Except(<<"a", "b">>)>>
Readmitted == <<Except(<<"a">>), Member(<<"*">>)>>
OnlyNested == <<Member(<<"*", "b">>)>>
NestedB == <<Member(<<"b">>)>>

TopPackages ==
  {File(Top, "package.json", "ok", PackageJSON(FALSE, "", FALSE, Readmitted, "none")),
   File(Top, "package.json", "ok", PackageJSON(TRUE, "npm", FALSE, AllButNested, "none")),
   File(Top, "package.json", "malformed", PackageJSON(FALSE, "", FALSE, Everything, "none"))}
MiddlePackages ==
  {File(A, "package.json", "ok", PackageJSON(TRUE, "", FALSE, <<>>, "")),
   File(A, "package.json", "ok", PackageJSON(TRUE, "npm", FALSE, NestedB, "none")),
   File(A, "package.json", "unread", PackageJSON(TRUE, "", TRUE, NestedB, "none"))}
NestedPackages ==
  {File(AB, "package.json", "ok", PackageJSON(TRUE, "", FALSE, <<>>, "")),
   File(AB, "package.json", "ok", PackageJSON(TRUE, "pnpm", FALSE, <<>>, "default")),
   File(AB, "package.json", "ok", PackageJSON(TRUE, "", TRUE, <<>>, "default"))}
TopConfigs ==
  {File(Top, "pnpm-workspace.yaml", "ok", PNPMWorkspace(OnlyNested, {"default"}, FALSE)),
   File(Top, "pnpm-workspace.yml", "malformed", PNPMWorkspace(Everything, {"default"}, FALSE)),
   File(Top, ".yarnrc.yml", "ok", YarnRC({""}, FALSE))}
MiddleConfigs ==
  {File(A, "pnpm-workspace.yaml", "ok", PNPMWorkspace(NestedB, {"default"}, TRUE)),
   File(A, ".yarnrc.yml", "ok", YarnRC({"", "default"}, FALSE))}

JavaScriptTrees ==
  Unions(Unions(Maybe(TopPackages), Unions(Maybe(MiddlePackages), Maybe(NestedPackages))),
         Unions(Maybe(TopConfigs), Maybe(MiddleConfigs)))
JavaScriptLockTrees ==
  Bare({<<Top, "npm-shrinkwrap.json">>, <<A, "pnpm-lock.yaml">>, <<A, "yarn.lock">>})

CargoTrees ==
  Unions(Maybe({File(Top, "Cargo.toml", s, CargoTOML(d, p, p, w)) :
                  s \in {"ok", "malformed"}, d \in {TRUE}, p \in BOOLEAN,
                  w \in {Everything, AllButNested}}),
    Unions(Maybe({File(A, "Cargo.toml", s, CargoTOML(TRUE, p, ap, w)) :
                    s \in {"ok", "malformed", "unread"}, p \in {TRUE}, ap \in BOOLEAN,
                    w \in {<<>>, NestedB}}),
           Unions(Maybe({File(AB, "Cargo.toml", "ok", CargoTOML(TRUE, TRUE, TRUE, <<>>))}),
                  Bare({<<Top, "Cargo.lock">>, <<A, "Cargo.lock">>, <<A \o <<"src">>, "main.rs">>}))))

UVTrees ==
  Unions(Maybe({File(Top, "pyproject.toml", s, Pyproject(d, m, w)) :
                  s \in {"ok", "unread"}, d \in BOOLEAN, m \in {TRUE}, w \in {OnlyNested, Everything}}),
    Unions(Maybe({File(A, "pyproject.toml", s, Pyproject(TRUE, m, w)) :
                    s \in {"ok", "malformed"}, m \in BOOLEAN, w \in {<<>>, NestedB}}),
           Unions(Maybe({File(AB, "pyproject.toml", "ok", Pyproject(TRUE, m, <<>>)) : m \in BOOLEAN}),
                  Bare({<<Top, "uv.lock">>, <<A, "uv.lock">>}))))

SingleTrees ==
  Unions(Maybe({File(r, "go.mod", s, GoMod(q)) :
                  r \in {Top, A}, s \in {"ok", "malformed", "unread"}, q \in SUBSET {"external", "local"}}),
         Bare({<<Top, "go.sum">>}))
  \cup
  Unions(Maybe({File(Top, "composer.json", s, Composer(d, l, t)) :
                  s \in {"ok", "malformed", "unread"}, d \in BOOLEAN, l \in BOOLEAN,
                  t \in {"unknown", "library", "project"}}),
         Bare({<<Top, "composer.lock">>}))
  \cup
  Unions(Maybe({File(A, "Gemfile", s, Gemfile(d, g)) :
                  s \in {"ok", "malformed", "unread"}, d \in BOOLEAN, g \in BOOLEAN}),
         Bare({<<A, "Gemfile.lock">>}))

\* Two sources, and files that own them or not.
Owned == {File(Top, "go.mod", "ok", GoMod({})), File(A, "Gemfile", "ok", Gemfile(FALSE, FALSE))}
P == <<"go.mod">>
Q == <<"a", "Gemfile">>
OwnersLines ==
  {Rule({P, Q}, "both"), Rule({P}, "none"), Rule({P}, "gitlab"), Rule({Q}, "invalid"),
   Exclusion({Q}), Section("x", "both"), Section("x", "none"), Section("y", "gitlab")}
Contents == UNION {[1 .. n -> OwnersLines] : n \in 0 .. 3}
OwnersFile(root, status, lines) == File(root, "CODEOWNERS", status, Lines(lines, FALSE))
CodeownersTrees ==
  {Owned \cup {OwnersFile(Top, "ok", lines)} : lines \in Contents} \cup
  Unions({Owned, {}},
    Unions(Unions(Maybe({OwnersFile(<<".github">>, "ok", <<>>)}),
                  Maybe({OwnersFile(<<".gitlab">>, "ok", <<Rule({P}, "gitlab")>>)})),
           Unions(Maybe({OwnersFile(Top, s, <<Rule({P, Q}, "both")>>) : s \in {"ok", "unread"}}),
                  Maybe({File(<<"docs">>, "CODEOWNERS", "ok", Lines(<<Rule({Q}, "both")>>, l)) :
                           l \in BOOLEAN}))))

MCScans ==
  {[tree |-> t, disabled |-> d, platform |-> p] :
     t \in CodeownersTrees, d \in {{}, {"go-mod"}}, p \in {"auto", "github", "gitlab"}}
  \cup With(Unions(JavaScriptTrees, JavaScriptLockTrees), {{}})
  \cup With(JavaScriptTrees, {{"js-pnpm-workspace"}, {"js-yarnrc"}, {"js-pnpm-lock"}, {"js"}})
  \cup With(CargoTrees, {{}, {"rust-cargo-lock"}})
  \cup With(UVTrees, {{}, {"python-uv"}, {"python-pyproject"}})
  \cup With(SingleTrees, {{}, {"go-sum"}, {"php-composer-lock", "ruby-gemfile-lock"}})
=============================================================================
