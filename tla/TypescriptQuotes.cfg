CONSTANTS
  Alphabet <- MCAlphabet
  Depth = 4
  Versions <- MCVersions
  TerraformFiles = {}
  TypeScriptFiles <- MCSingleQuoted
  PythonFiles = {}
  SetupFiles = {}
  BundleFiles = {}
  TomlFiles = {}
  YamlFiles = {}
  YamlLists = {}
  PresenceFiles = {}
  XmlFiles = {}
  PyprojectFiles = {}
  NpmLocks = {}
  YarnLocks = {}
  PnpmLocks = {}
  NodeManifests = {}
  CargoManifests = {}
  PackageManifestFiles = {}
  BuildManifests = {}
  PackageLockfiles = {}
SPECIFICATION Spec
INVARIANTS
  JobsExportedOrBlocked
CHECK_DEADLOCK FALSE
