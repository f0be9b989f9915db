------------------------------ MODULE ModuleConfig ------------------------------
(* The modules of an application and their configuration: modules are listed *)
(* in module.json or found by a scan and among the dependencies, those of a  *)
(* framework are optional, references to one path become one; and which files *)
(* a configuration is read from, in a process that may hold several          *)
(* applications (the names of the files are a static of ModuleConfigUtil).   *)
EXTENDS Sequences, SequencesExt, Naturals

CONSTANTS
  Dirs,          \* directories with a package.json
  Trees,         \* what they may be: dir -> [name: of its eggModule, or NoName; base]
  Listings,      \* what readModuleReference may meet in a base directory
  NoName,
  Envs,          \* environments of applications of one process
  FileSets,      \* the configuration files a module may have: sets of <<name, extension>>
  MaxApps        \* bound on the applications started in the process

\* A listing: module.json with its entries, or what the scan meets (a directory more than
\* once when links lead to it) and the dependencies that resolve.
ModuleConfigAssumption ==
  /\ MaxApps \in Nat /\ Envs \cap {"module", "module.default"} = {}
  /\ \A t \in Trees : DOMAIN t = Dirs
  /\ \A l \in Listings : l.json \in BOOLEAN /\ l.dirs \in Seq(Dirs) /\ l.deps \in Seq(Dirs)

VARIABLES
  tree, listings, host,
  refs,          \* the references read, in order
  next,          \* of deduplicateModules: the index of the next reference; 0 while reading
  moduleMap,     \* path -> reference
  nameMap,       \* name -> reference
  error,         \* none, or what was thrown
  files,         \* the configuration files of the one module the applications have
  configNames,   \* ModuleConfigUtil.configNames, <<>> for undefined
  apps           \* history: [host, env, read, closed]: read is what its config merges

refVars == <<tree, listings, host, refs, next, moduleMap, nameMap, error>>
configVars == <<files, configNames, apps>>
vars == <<refVars, configVars>>

NoFunction == [x \in {} |-> x]
Init ==
  /\ tree \in Trees /\ host \in {"egg", "standalone"}
  /\ listings \in Listings \X Listings
  /\ refs = <<>> /\ next = 0 /\ moduleMap = NoFunction /\ nameMap = NoFunction
  /\ error = "none"
  /\ files \in FileSets /\ configNames = <<>> /\ apps = <<>>

-----------------------------------------------------------------------------
(* References *)

IsModule(d) == tree[d].name # NoName
\* The modules among some directories, in order; each once, or as often as it is there.
ModulesOf(s, once) ==
  LET kept[i \in 0..Len(s)] ==
        IF i = 0 THEN <<>>
        ELSE IF IsModule(s[i]) /\ ~(once /\ s[i] \in Range(kept[i - 1]))
               THEN Append(kept[i - 1], s[i]) ELSE kept[i - 1]
  IN  kept[Len(s)]
Ref(d, optional) == [path |-> d, name |-> tree[d].name, optional |-> optional]
Refs(ds, optional) == [i \in DOMAIN ds |-> Ref(ds[i], optional)]
\* readModuleReferenceFromModuleJson: an entry that is no module throws.
JsonThrows(l) == l.json /\ \E d \in Range(l.dirs) : ~IsModule(d)
\* readModuleFromNodeModules
Dependencies(l) == ModulesOf(l.deps, FALSE)
\* A dependency whose directory is named as one the scan met, a module or not, throws.
ScanThrows(l) ==
  ~l.json /\ \E d \in Range(Dependencies(l)), e \in Range(l.dirs) : tree[d].base = tree[e].base
\* readModuleReference
Read(l, optional) ==
  IF l.json THEN Refs(l.dirs, optional)
  ELSE Refs(ModulesOf(l.dirs, TRUE) \o Dependencies(l), optional)
\* ModuleScanner: the application's, then its framework's as optional ones. Runner: the
\* dependencies', then the application's.
ReadAll ==
  LET All == IF host = "egg" THEN Read(listings[1], FALSE) \o Read(listings[2], TRUE)
             ELSE Read(listings[2], FALSE) \o Read(listings[1], FALSE)
  IN  /\ next = 0 /\ error = "none"
      /\ IF \E i \in 1..2 : JsonThrows(listings[i]) \/ ScanThrows(listings[i])
           THEN error' = "read" /\ UNCHANGED <<refs, next>>
           ELSE refs' = All /\ next' = 1 /\ UNCHANGED error
      /\ UNCHANGED <<tree, listings, host, moduleMap, nameMap, configVars>>

\* A reference that is not optional takes the place of an optional one of its path (no list
\* of the program's own has them in this order: the optional ones come last).
Replaces(r) ==
  r.path \in DOMAIN moduleMap /\ moduleMap[r.path].optional /\ ~r.optional
\* Its name is taken by a module with another path.
Collides(r) ==
  /\ r.path \notin DOMAIN moduleMap \/ (Replaces(r) /\ moduleMap[r.path].name # r.name)
  /\ r.name \in DOMAIN nameMap
Set(f, k, v) == [x \in (DOMAIN f) \cup {k} |-> IF x = k THEN v ELSE f[x]]
Without(f, k) == [x \in (DOMAIN f) \ {k} |-> f[x]]
\* deduplicateModules, one reference a step.
Deduplicate ==
  /\ next \in 1..Len(refs) /\ error = "none"
  /\ LET r == refs[next] IN
     \/ Collides(r) /\ error' = "name" /\ UNCHANGED <<moduleMap, nameMap>>
     \/ /\ ~Collides(r) /\ (r.path \notin DOMAIN moduleMap \/ Replaces(r))
        /\ moduleMap' = Set(moduleMap, r.path, r)
        /\ nameMap' = Set(IF r.path \in DOMAIN moduleMap
                            THEN Without(nameMap, moduleMap[r.path].name) ELSE nameMap, r.name, r)
        /\ UNCHANGED error
     \/ /\ r.path \in DOMAIN moduleMap /\ ~Replaces(r)
        /\ UNCHANGED <<moduleMap, nameMap, error>>
  /\ next' = next + 1
  /\ UNCHANGED <<tree, listings, host, refs, configVars>>

-----------------------------------------------------------------------------
(* Configuration *)

\* #loadOne: the YAML file, and the JSON file when there is none.
LoadOne(name) ==
  IF <<name, "yml">> \in files THEN <<<<name, "yml">>>>
  ELSE IF <<name, "json">> \in files THEN <<<<name, "json">>>>
  ELSE <<>>
\* module.yml serves for module.default.yml.
LoadName(name) ==
  IF name = "module.default" /\ LoadOne(name) = <<>> THEN LoadOne("module") ELSE LoadOne(name)
\* loadModuleConfigSync: the files merged, each over those before it.
Load(names) == FlattenSeq([i \in DOMAIN names |-> LoadName(names[i])])
NamesOf(env) == <<"module.default", env>>
NamesNow(names) == IF names = <<>> THEN <<"module">> ELSE names

\* The config plugin of egg sets the names and reads every module; then the classes of
\* the application's load unit merge what is read by the environment with it.
ReadsTwice(env, names) == Load(<<"module", env>>) \o Load(names)
SetConfigNames_Bug(env) == IF configNames = <<>> THEN NamesOf(env) ELSE configNames
SetConfigNames(env) == NamesOf(env)
EggBoot(env) ==
  /\ Len(apps) < MaxApps
  /\ configNames' = SetConfigNames(env)
  /\ apps' = Append(apps, [host |-> "egg", env |-> env, read |-> ReadsTwice(env, configNames'),
                           closed |-> FALSE])
  /\ UNCHANGED <<refVars, files>>
\* A runner sets the names if nobody has.
Run(env) ==
  /\ Len(apps) < MaxApps
  /\ configNames' = IF configNames = <<>> THEN NamesOf(env) ELSE configNames
  /\ apps' = Append(apps, [host |-> "standalone", env |-> env,
                           read |-> Load(NamesNow(configNames')), closed |-> FALSE])
  /\ UNCHANGED <<refVars, files>>

Closes(kind) ==
  /\ \E i \in DOMAIN apps :
       apps[i].host = kind /\ ~apps[i].closed /\ apps' = [apps EXCEPT ![i].closed = TRUE]
  /\ UNCHANGED <<refVars, files>>
\* beforeClose takes the names back, whoever set them.
EggClose == Closes("egg") /\ configNames' = <<>>
\* So does destroy of a runner, at its end: not when a step before that throws.
RunnerDestroy == Closes("standalone") /\ configNames' \in {<<>>, configNames}

References == ReadAll \/ Deduplicate
Configuration == EggClose \/ RunnerDestroy \/ \E env \in Envs : EggBoot(env) \/ Run(env)
Next == References \/ Configuration
Spec == Init /\ [][Next]_vars

TypeOK ==
  /\ next \in Nat /\ error \in {"none", "read", "name"}
  /\ DOMAIN moduleMap \subseteq Dirs
  /\ \A p \in DOMAIN moduleMap : moduleMap[p] \in Range(refs)
  /\ \A a \in Range(apps) : a.env \in Envs

-----------------------------------------------------------------------------
\* deduplicateModules: at every step the two maps are inverse of each other, hold the
\* references read so far, each path and each name once, and a module is optional only if
\* all its references are; it throws only for two paths with one name.
ModulesAreUnique ==
  LET seen == {refs[i] : i \in {j \in DOMAIN refs : j < next}} IN
  IF error = "none"
    THEN /\ {moduleMap[p] : p \in DOMAIN moduleMap} = {nameMap[n] : n \in DOMAIN nameMap}
         /\ \A n \in DOMAIN nameMap : nameMap[n].name = n
         /\ DOMAIN moduleMap = {r.path : r \in seen}
         /\ \A p \in DOMAIN moduleMap :
              moduleMap[p].optional = (\A r \in seen : r.path = p => r.optional)
    ELSE error = "name" => \E r, s \in seen : r.name = s.name /\ r.path # s.path

\* The configuration of an application has the file of its environment, if there is one,
\* last, and no file of another environment.
OfItsEnv(a) ==
  LET own == LoadOne(a.env) IN
  /\ own # <<>> => a.read # <<>> /\ a.read[Len(a.read)] = own[1]
  /\ \A f \in Range(a.read) : f[1] \notin Envs \ {a.env}
\* An egg application's is, whatever else ran in the process.
EggConfigIsOfItsEnv == \A a \in Range(apps) : a.host = "egg" => OfItsEnv(a)
\* "load module.yml and module.env.yml by default" (Runner): so is a runner's.
RunnerConfigIsOfItsEnv == \A a \in Range(apps) : a.host = "standalone" => OfItsEnv(a)
=============================================================================
