------------------------------ MODULE Plugins ------------------------------
(***************************************************************************)
(* BoostPluginManager: plugins are loaded and initialised by jobs of phase *)
(* INIT and shut down by jobs of phase CLEAN_UP; the job system runs the   *)
(* phases one after the other (JobManager).  A plugin is the object that a *)
(* shared library exports: loading the library again yields the same one.  *)
(***************************************************************************)
EXTENDS Naturals, Sequences

CONSTANTS
    Plugins,
    Name,      \* plugin -> the name it is managed under
    Listed,    \* what the descriptor lists: plugins, and Broken libraries
    Broken,    \* a library that cannot be found or has no plugin symbol
    Absent,
    Null       \* an entry whose pointer has been moved from

ConstantsOK ==
    /\ Absent # Null /\ {Absent, Null} \cap Plugins = {}
    /\ Listed \in Seq(Plugins \cup {Broken})

PluginNames == {Name[p] : p \in Plugins}

VARIABLES
    phase,       \* the phase of the cycle that runs
    installs,    \* plugin -> what its install job has done
    uninstalls,  \* names whose uninstall jobs have been kicked
    listing,     \* InstallPlugins: the next library, or 0
    managed,     \* m_plugins: name -> plugin
    plugin,      \* what has become of a plugin
    manager,     \* whether the manager exists
    crashed      \* a null pointer has been dereferenced

vars == <<phase, installs, uninstalls, listing, managed, plugin, manager,
          crashed>>

Init ==
    /\ phase = "INIT"
    /\ installs = [p \in Plugins |-> "none"]
    /\ uninstalls = {}
    /\ listing = 0
    /\ managed = [n \in PluginNames |-> Absent]
    /\ plugin = [p \in Plugins |-> "loaded"]
    /\ manager = TRUE
    /\ crashed = FALSE

Up == manager /\ ~crashed

-----------------------------------------------------------------------------
(* Calls: each of them kicks a job *)

InstallPlugin(p) ==
    /\ Up /\ installs[p] = "none"
    /\ installs' = [installs EXCEPT ![p] = "kicked"]
    /\ UNCHANGED <<phase, uninstalls, listing, managed, plugin, manager, crashed>>

UninstallPlugin(n) ==
    /\ Up
    /\ uninstalls' = uninstalls \cup {n}
    /\ UNCHANGED <<phase, installs, listing, managed, plugin, manager, crashed>>

InstallPlugins ==
    /\ Up /\ listing = 0 /\ Listed # <<>>
    /\ listing' = 1
    /\ UNCHANGED <<phase, installs, uninstalls, managed, plugin, manager, crashed>>

-----------------------------------------------------------------------------
(* Jobs.  Each of them borrows the manager first, or does nothing. *)

\* Loading a broken library throws: the job fails, whatever else is listed.
InstallListed ==
    /\ phase = "INIT" /\ listing # 0 /\ ~crashed
    /\ LET library == Listed[listing] IN
           IF ~manager \/ library = Broken
           THEN listing' = 0 /\ UNCHANGED installs
           ELSE /\ installs[library] = "none"
                /\ installs' = [installs EXCEPT ![library] = "kicked"]
                /\ listing' = IF listing = Len(Listed) THEN 0 ELSE listing + 1
    /\ UNCHANGED <<phase, uninstalls, managed, plugin, manager, crashed>>

\* IPlugin::Init may throw.
InitPlugin(p) ==
    /\ phase = "INIT" /\ installs[p] = "kicked" /\ ~crashed
    /\ \/ /\ manager
          /\ plugin' = [plugin EXCEPT ![p] = "running"]
          /\ installs' = [installs EXCEPT ![p] = "store"]
       \/ /\ installs' = [installs EXCEPT ![p] = "none"]
          /\ UNCHANGED plugin
    /\ UNCHANGED <<phase, uninstalls, listing, managed, manager, crashed>>

StorePlugin(p) ==
    /\ installs[p] = "store"
    /\ managed' = [managed EXCEPT ![Name[p]] = p]
    /\ installs' = [installs EXCEPT ![p] = "none"]
    /\ UNCHANGED <<phase, uninstalls, listing, plugin, manager, crashed>>

\* Mutant: the entry is not erased.
UninstallKeepsEntry(n) ==
    /\ phase = "CLEAN_UP" /\ n \in uninstalls /\ ~crashed
    /\ uninstalls' = uninstalls \ {n}
    /\ LET p == managed[n] IN
           /\ manager /\ p \in Plugins
           /\ plugin' = [plugin EXCEPT ![p] = "stopped"]
    /\ UNCHANGED <<phase, installs, listing, managed, manager, crashed>>

\* The pointer is moved out of the entry, which is erased unless
\* IPlugin::ShutDown throws.
RunUninstall(n) ==
    /\ phase = "CLEAN_UP" /\ n \in uninstalls /\ ~crashed
    /\ uninstalls' = uninstalls \ {n}
    /\ LET p == managed[n] IN
           IF ~manager \/ p = Absent
           THEN UNCHANGED <<managed, plugin, crashed>>
           ELSE IF p = Null
           THEN crashed' = TRUE /\ UNCHANGED <<managed, plugin>>
           ELSE /\ plugin' = [plugin EXCEPT ![p] = "stopped"]
                /\ \E entry \in {Absent, Null} :
                       managed' = [managed EXCEPT ![n] = entry]
                /\ UNCHANGED crashed
    /\ UNCHANGED <<phase, installs, listing, manager>>

\* A phase ends when all its jobs have been executed.
NextPhase ==
    /\ ~crashed
    /\ \/ /\ phase = "INIT" /\ listing = 0
          /\ \A p \in Plugins : installs[p] = "none"
          /\ phase' = "CLEAN_UP"
       \/ /\ phase = "CLEAN_UP" /\ uninstalls = {}
          /\ phase' = "INIT"
    /\ UNCHANGED <<installs, uninstalls, listing, managed, plugin, manager,
                   crashed>>

\* ~Owner waits until no job borrows the manager.  It shuts no plugin down.
DestroyManager ==
    /\ Up
    /\ \A p \in Plugins : installs[p] # "store"
    /\ manager' = FALSE
    /\ managed' = [n \in PluginNames |-> Absent]
    /\ UNCHANGED <<phase, installs, uninstalls, listing, plugin, crashed>>

Next ==
    \/ \E p \in Plugins : InstallPlugin(p) \/ InitPlugin(p) \/ StorePlugin(p)
    \/ \E n \in PluginNames : UninstallPlugin(n) \/ RunUninstall(n)
    \/ InstallPlugins \/ InstallListed \/ NextPhase \/ DestroyManager

Spec == Init /\ [][Next]_vars

-----------------------------------------------------------------------------
(* Properties *)

\* Every variable has its type.
TypeOK ==
    /\ phase \in {"INIT", "CLEAN_UP"}
    /\ installs \in [Plugins -> {"none", "kicked", "store"}]
    /\ uninstalls \in SUBSET PluginNames
    /\ listing \in 0 .. Len(Listed)
    /\ managed \in [PluginNames -> Plugins \cup {Absent, Null}]
    /\ plugin \in [Plugins -> {"loaded", "running", "stopped"}]
    /\ manager \in BOOLEAN /\ crashed \in BOOLEAN

\* A plugin that is managed is running, under its own name: it has been
\* initialised, and is not shut down before it is initialised again, in
\* whatever cycles it is installed, replaced and uninstalled.
ManagedIsRunning ==
    \A n \in PluginNames : managed[n] \in Plugins =>
        Name[managed[n]] = n /\ plugin[managed[n]] = "running"

\* IPluginManager.h, UninstallPlugin: the plugin is shut down and
\* uninstalled; no entry without a plugin is left for the next call.
UninstallRemovesEntry == \A n \in PluginNames : managed[n] # Null

\* IPluginManager.h, InstallPlugin: a plugin that is already installed is
\* re-installed: what is replaced by another object has been shut down.
ReplacedIsShutDown ==
    \A p \in Plugins :
        manager /\ plugin[p] = "running" /\ installs[p] = "none" =>
            managed[Name[p]] = p

-----------------------------------------------------------------------------
(* The inductive invariant *)

\* What has been initialised and is not yet in the map runs: its install job
\* ends in the phase in which it began, and plugins are shut down in another.
InstallsOK ==
    \A p \in Plugins :
        installs[p] = "store" => phase = "INIT" /\ plugin[p] = "running"

PluginsInv == TypeOK /\ InstallsOK /\ ManagedIsRunning
=============================================================================
