---------------------------- MODULE TerraformGlue ----------------------------
(***************************************************************************)
(* Python modules of AWS Glue jobs in Terraform (internal/analyze/         *)
(* terraform_glue_python.go).  A file is the sequence of its blocks, or    *)
(* does not parse.  An argument map is absent, an object of pairs, or an   *)
(* expression; a key or a value that cannot be evaluated is Dynamic.       *)
(***************************************************************************)
EXTENDS AnalyzerResults, PythonRequirements

Dynamic == [kind |-> "dynamic"]
Literal(text) == [kind |-> "literal", text |-> text]
Missing == [kind |-> "missing"]
ObjectOf(items) == [kind |-> "object", items |-> items]
Item(key, value) == [key |-> key, value |-> value]

\* The first pair of the key decides, and a key that cannot be read before it.
TerraformGlueArgument(map, key) ==
  IF map.kind # "object" THEN map
  ELSE LET hits == {i \in DOMAIN map.items : map.items[i].key \in {Literal(<<key>>), Dynamic}}
           first == map.items[CHOOSE i \in hits : \A j \in hits : i <= j]
       IN  IF hits = {} THEN Missing
           ELSE IF first.key = Dynamic THEN Dynamic ELSE first.value

\* Mutant: what can be overridden is looked at first.
OverridableFirst(block, key) ==
  IF TerraformGlueArgument(block.default, key) # Missing
    THEN TerraformGlueArgument(block.default, key)
    ELSE TerraformGlueArgument(block.nonOverridable, key)
EffectiveTerraformGlueArgument(block, key) ==
  IF TerraformGlueArgument(block.nonOverridable, key) # Missing
    THEN TerraformGlueArgument(block.nonOverridable, key)
    ELSE TerraformGlueArgument(block.default, key)

IsGlueJob(block) == block.type = "resource" /\ block.labels = "aws_glue_job"

GlueJob(block, location) ==
  LET Argument(key) == EffectiveTerraformGlueArgument(block, key)
      language == Argument("language")
      modules == Argument("modules")
      installer == Argument("installer")
      requirements == SplitTerraformGlueModules(modules.text)
  IN  CASE ~ IsGlueJob(block) -> Skipped
        [] language = Dynamic -> NotReadable
        [] language \notin {Missing, Literal(<<"python">>)} -> Skipped
        [] modules = Dynamic -> NotReadable
        [] modules = Missing -> Grouped(Group(block.name, location, "missing", <<>>))
        [] installer \notin {Missing, Literal(<<>>)} -> NotReadable
        [] \E i \in DOMAIN requirements : ~ IsRequirement(requirements[i]) -> NotReadable
        [] OTHER -> Grouped(Group(block.name, location,
                                  IF requirements = <<>> THEN "empty" ELSE "ready",
                                  requirements))

GlueJobs(file) == [i \in DOMAIN file.blocks |-> GlueJob(file.blocks[i], i)]
AnalyzeTerraformGlue(file) ==
  IF ~ file.parses THEN AnalyzerError ELSE JobsResult(GlueJobs(file))
=============================================================================
