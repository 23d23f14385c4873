----------------------------- MODULE Codeowners -----------------------------
(***************************************************************************)
(* The CODEOWNERS check (internal/analyze/codeowners.go): which file and   *)
(* which platform's rules decide, the two matchers, and the sources that   *)
(* nobody owns.  A source is known by its path; what a pattern matches is  *)
(* the set of paths that it names (the work of two libraries).  Owners are *)
(* "none", "invalid" or valid for "gitlab" alone or for "both" platforms.  *)
(***************************************************************************)
EXTENDS Repository, SequencesExt

Rule(paths, owners) == [kind |-> "rule", paths |-> paths, owners |-> owners]
Exclusion(paths) == [kind |-> "exclusion", paths |-> paths, owners |-> "none"]
\* key: the name in lower case and without space around it.
Section(key, owners) == [kind |-> "section", key |-> key, owners |-> owners]
\* large: 3 MiB or more, which GitHub does not read.
Lines(lines, large) == [lines |-> lines, large |-> large]

OwnersLine ==
  [kind : {"rule", "exclusion"}, paths : SUBSET Seq(STRING),
   owners : {"none", "invalid", "gitlab", "both"}]
  \cup [kind : {"section"}, key : STRING, owners : {"none", "invalid", "gitlab", "both"}]
OwnersContent == [lines : Seq(OwnersLine), large : BOOLEAN]

\* hasValidGitLabOwner
ValidForGitLab(owners) == owners \in {"gitlab", "both"}

\* A line that cannot be parsed, or has an owner that GitHub does not know, is
\* left out; of the others the last one that matches decides.
GitHubCovers(content, path) ==
  LET hits == {i \in DOMAIN content.lines :
                 /\ content.lines[i].kind = "rule"
                 /\ content.lines[i].owners \in {"none", "both"}
                 /\ path \in content.lines[i].paths}
  IN  /\ ~ content.large /\ hits # {}
      /\ content.lines[CHOOSE i \in hits : \A j \in hits : j <= i].owners = "both"

\* The state of the parser for GitLab: where it stands, and the entries so far.
Entry(section, line, default) ==
  [section |-> section, paths |-> line.paths, exclude |-> line.kind = "exclusion",
   owned |-> line.kind = "rule" /\ (default \/ ValidForGitLab(line.owners))]
\* Mutant: the default owners of a section apply from its first header on.
KeepDefault(state, line) == [state EXCEPT !.section = line.key,
                                          !.default = @ \/ ValidForGitLab(line.owners)]
OpenSection(state, line) == [state EXCEPT !.section = line.key,
                                          !.default = ValidForGitLab(line.owners)]
ParseLine(state, line) ==
  IF line.kind = "section" THEN OpenSection(state, line)
  ELSE [state EXCEPT !.entries = Append(@, Entry(state.section, line, state.default))]
\* newGitLabCodeownersMatcher; the section without a name comes first.
GitLabEntries(content) ==
  FoldLeft(ParseLine, [section |-> "", default |-> FALSE, entries |-> <<>>],
           content.lines).entries

\* gitLabCodeownersSection.ownership: the entries of a section that match are
\* gone through in order, and nothing counts after an exclusion.
SeeEntry(section, path, state, entry) ==
  IF state.excluded \/ entry.section # section \/ path \notin entry.paths THEN state
  ELSE [excluded |-> entry.exclude, owned |-> ~ entry.exclude /\ entry.owned]
SectionCovers(entries, section, path) ==
  FoldLeft(LAMBDA state, entry : SeeEntry(section, path, state, entry),
           [excluded |-> FALSE, owned |-> FALSE], entries).owned
GitLabCovers(content, path) ==
  LET entries == GitLabEntries(content)
  IN  \E i \in DOMAIN entries : SectionCovers(entries, entries[i].section, path)

-----------------------------------------------------------------------------
(* Choice of file and platform.                                            *)

OwnersDirectories == {<<".github">>, <<>>, <<"docs">>, <<".gitlab">>}
\* collectCodeownersPolicyInputs: a link or a directory is "unread" as well.
Inputs(tree) == {f \in tree : f.name = "CODEOWNERS" /\ f.root \in OwnersDirectories}
SearchOrder(platform) ==
  CASE platform = "github" -> <<<<".github">>, <<>>, <<"docs">>>>
    [] platform = "gitlab" -> <<<<>>, <<"docs">>, <<".gitlab">>>>
    [] platform = "common" -> <<<<>>, <<"docs">>>>
\* firstCodeownersInput, as a set of at most one file.
Located(inputs, platform) ==
  LET order == SearchOrder(platform)
      present == {i \in DOMAIN order : \E f \in inputs : f.root = order[i]}
  IN  {f \in inputs : present # {} /\ f.root = order[CHOOSE i \in present :
                                                       \A j \in present : i <= j]}

Covers(platform, content, path) ==
  IF platform = "gitlab" THEN GitLabCovers(content, path) ELSE GitHubCovers(content, path)

\* Mutant: the rules of GitHub decide on what both platforms read.
Trusted(content, paths) == TRUE
\* Both platforms judge each source alike.
Agreed(content, paths) ==
  \A p \in paths : GitHubCovers(content, p) <=> GitLabCovers(content, p)

\* resolveAutomaticCodeowners
Platform(configured, inputs) ==
  LET has(directory) == \E f \in inputs : f.root = directory
  IN  CASE configured # "auto" -> configured
        [] configured = "auto" /\ has(<<".github">>) /\ has(<<".gitlab">>) -> "ambiguous"
        [] configured = "auto" /\ has(<<".github">>) /\ ~ has(<<".gitlab">>) -> "github"
        [] configured = "auto" /\ ~ has(<<".github">>) /\ has(<<".gitlab">>) -> "gitlab"
        [] OTHER -> "common"

OwnersRun(status) == [root |-> <<>>, status |-> status]
\* evaluateDependencySourceCodeowners: its findings are the paths of sources.
CodeownersCheck(inputs, paths, configured) ==
  LET platform == Platform(configured, inputs)
      file == Located(inputs, platform)
      content == (CHOOSE f \in file : TRUE).facts
      Fails == \/ platform = "ambiguous"
               \/ \E f \in file : \/ f.status # "ok"
                                  \/ platform = "common" /\ ~ Agreed(content, paths)
  IN  IF paths = {} THEN [runs |-> {OwnersRun("completed")}, findings |-> {}]
      ELSE IF Fails THEN [runs |-> {OwnersRun("failed")}, findings |-> {}]
      ELSE [runs |-> {OwnersRun("completed")},
            findings |-> {p \in paths : file = {} \/ ~ Covers(platform, content, p)}]
=============================================================================
