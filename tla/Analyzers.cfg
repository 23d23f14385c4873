CONSTANTS
  Alphabet <- MCAlphabet
  Depth = 4
  Versions <- MCVersions
  TerraformFiles <- MCAllTerraform
  TypeScriptFiles <- MCAllTypeScript
  PythonFiles <- MCAllPython
  SetupFiles <- MCAllSetup
  BundleFiles <- MCBundleFiles
  TomlFiles <- MCAllToml
  YamlFiles <- MCYamlFiles
  YamlLists <- MCAllYamlLists
  PresenceFiles <- MCPresenceFiles
  XmlFiles <- MCXmlFiles
  PyprojectFiles <- MCPyprojectFiles
  NpmLocks <- MCAllNpm
  YarnLocks <- MCAllYarn
  PnpmLocks <- MCAllPnpm
  NodeManifests <- MCNodeManifests
  CargoManifests <- MCAllCargo
  PackageManifestFiles <- MCAllPackageManifests
  BuildManifests <- MCAllBuilds
  PackageLockfiles <- MCAllPackageLockfiles
SPECIFICATION Spec
INVARIANTS
  TypeOK
  
  FoundJobsDecide
  FormatsBlockedSeparately
  
  PresenceDecided
  
CHECK_DEADLOCK FALSE
