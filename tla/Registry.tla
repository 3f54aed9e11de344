------------------------------ MODULE Registry ------------------------------
(***************************************************************************)
(* The commands as loadCommands registers them: the files of the directory *)
(* in the order the file system lists them, each imported with an await,   *)
(* the first of a name kept, the first of an alias too; and the lookup of  *)
(* what a user writes, for which a name goes before an alias.              *)
(***************************************************************************)
EXTENDS FiniteSets, Functions

CONSTANTS
  CommandFiles,   \* the files of src/commands
  Skipped,        \* those that are no commands: _helpers, other extensions
  NameOf,         \* the name of the command in a file
  AliasesOf       \* its aliases

ASSUME RegistryAssumption ==
  /\ Skipped \subseteq CommandFiles /\ "no file" \notin CommandFiles
  /\ DOMAIN NameOf = CommandFiles /\ DOMAIN AliasesOf = CommandFiles

Keys     == {NameOf[f] : f \in CommandFiles} \cup UNION {AliasesOf[f] : f \in CommandFiles}
NoFile   == "no file"

VARIABLES
  unread,     \* files that were not imported yet
  commands,   \* key -> the file whose command it is, or NoFile
  aliases,
  loading     \* yes; or done, or failed when an import or a constructor threw

registryVars == <<unread, commands, aliases, loading>>

RegistryTypeOK ==
  /\ unread \subseteq CommandFiles /\ loading \in {"yes", "done", "failed"}
  /\ commands \in [Keys -> CommandFiles \cup {NoFile}]
  /\ aliases \in [Keys -> CommandFiles \cup {NoFile}]

RegistryInit ==
  /\ unread = CommandFiles /\ loading = "yes"
  /\ commands = [k \in Keys |-> NoFile] /\ aliases = [k \in Keys |-> NoFile]

-----------------------------------------------------------------------------
\* Mutant: a name that is an alias already is taken.
Registered_NotOverAliases(f) ==
  IF commands[NameOf[f]] = NoFile /\ aliases[NameOf[f]] = NoFile
  THEN [commands EXCEPT ![NameOf[f]] = f] ELSE commands

Registered(f) ==
  IF commands[NameOf[f]] = NoFile THEN [commands EXCEPT ![NameOf[f]] = f] ELSE commands

\* The aliases of f that are neither a name nor an alias by now; its own name is a name.
FreeAliases(f) == {k \in AliasesOf[f] : Registered(f)[k] = NoFile /\ aliases[k] = NoFile}

Import(f) ==
  /\ loading = "yes" /\ f \in unread \ Skipped
  /\ unread' = unread \ {f}
  /\ commands' = Registered(f)
  /\ aliases' = IF commands' = commands THEN aliases
                ELSE [k \in Keys |-> IF k \in FreeAliases(f) THEN f ELSE aliases[k]]
  /\ UNCHANGED loading

SkipFile(f) ==
  /\ loading = "yes" /\ f \in unread \cap Skipped
  /\ unread' = unread \ {f}
  /\ UNCHANGED <<commands, aliases, loading>>

\* loadCommands rejects: what was registered stays so.
ImportThrows(f) ==
  /\ loading = "yes" /\ f \in unread \ Skipped /\ loading' = "failed"
  /\ UNCHANGED <<unread, commands, aliases>>

AllLoaded ==
  /\ loading = "yes" /\ unread = {} /\ loading' = "done"
  /\ UNCHANGED <<unread, commands, aliases>>

RegistryNext ==
  (\E f \in CommandFiles : Import(f) \/ SkipFile(f) \/ ImportThrows(f)) \/ AllLoaded

\* handleMessage: what /key runs.
Lookup(key) == IF commands[key] # NoFile THEN commands[key] ELSE aliases[key]

-----------------------------------------------------------------------------
\* Whatever the order of the files, a name of a command that was read runs a command of that
\* name, though it was given as an alias before; and what is only an alias runs one of the
\* registered commands that list it.
RegistryHolds ==
  LET Read == CommandFiles \ (unread \cup Skipped)
      Named(k)  == {f \in Read : NameOf[f] = k}
      Listed(k) == {f \in Read : k \in AliasesOf[f] /\ commands[NameOf[f]] = f}
  IN  \A k \in Keys :
        Lookup(k) \in IF Named(k) # {} THEN Named(k)
                     ELSE IF Listed(k) # {} THEN Listed(k) ELSE {NoFile}
=============================================================================
