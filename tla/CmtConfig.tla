------------------------------ MODULE CmtConfig ------------------------------
(***************************************************************************)
(* How cmt finds out what to do: which projects of which hosts a command   *)
(* is about, and what holds for a project when cmt's configuration, the    *)
(* host's and the project's entry in host.yml each say something of it.    *)
(* Pure operators.  A level of the configuration is a function from        *)
(* settings to values, with Unset where it says nothing (a string that is  *)
(* empty, a list without an element, a key that is absent).                *)
(***************************************************************************)
CONSTANTS
    Values,       \* what a setting may be
    Unset,        \* what it is where nothing is said
    Up, Patterns  \* the values that composeAction and templateVarSources fall back to

ASSUME ConfigAssumption == Unset \notin Values /\ Up \in Values /\ Patterns \in Values

\* The settings every level has, and those of a project's entry alone.
Shared  == {"remotePath", "postSyncCommand", "composeAction", "templateVarSources",
            "preserveRemoteFiles", "templateIgnore"}
Own     == {"removeOrphans", "dirs"}
Settings == Shared \cup Own

Levels == [Shared -> Values \cup {Unset}]
Entries == [Settings -> Values \cup {Unset}]

-----------------------------------------------------------------------------
(* ResolveProjectConfig.  Each argument may be absent: a configuration without
   defaults, a host without a host.yml, a project without an entry. *)

resolveFromDefaults(defaults) ==
    [s \in Settings |-> IF s \in Own \/ defaults = Unset THEN Unset ELSE defaults[s]]

\* A level says what holds from here on, where it says something.
Override(resolved, level, settings) ==
    [s \in Settings |-> IF s \in settings /\ level[s] # Unset THEN level[s] ELSE resolved[s]]

applyHostOverrides(resolved, hostCfg) ==
    IF hostCfg = Unset THEN resolved ELSE Override(resolved, hostCfg, Shared)

applyProjectOverrides(resolved, hostCfg, entry) ==
    IF hostCfg = Unset \/ entry = Unset THEN resolved ELSE Override(resolved, entry, Settings)

normalizeComposeAction(action) == IF action = Unset THEN Up ELSE action
normalizeTemplateVarSources(sources) == IF sources = Unset THEN Patterns ELSE sources

Normalize(resolved) ==
    [resolved EXCEPT !["composeAction"] = normalizeComposeAction(@),
                     !["templateVarSources"] = normalizeTemplateVarSources(@)]

ResolveProjectConfig(defaults, hostCfg, entry) ==
    Normalize(applyProjectOverrides(
                applyHostOverrides(resolveFromDefaults(defaults), hostCfg), hostCfg, entry))

-----------------------------------------------------------------------------
(* The projects of a host *)

\* FilterHosts and FilterProjects: without a filter, all of them.
Filtered(names, filter) == IF filter = {} THEN names ELSE names \cap filter

\* filterHostProjects: a host.yml that names projects is about no others.
filterHostProjects(listed, projects) == IF listed = {} THEN projects ELSE projects \cap listed

-----------------------------------------------------------------------------
(* The reference: README.md, "デフォルト値の解決順序" *)

\* The levels that say something of setting s, from the weakest to the strongest.
Says(defaults, hostCfg, entry, s) ==
    {i \in {1, 2, 3} : \/ i = 1 /\ defaults # Unset /\ s \in Shared /\ defaults[s] # Unset
                       \/ i = 2 /\ hostCfg # Unset /\ s \in Shared /\ hostCfg[s] # Unset
                       \/ i = 3 /\ hostCfg # Unset /\ entry # Unset /\ entry[s] # Unset}

\* 1. the defaults, 2. the top level of host.yml, 3. the project's entry there; what
\* comes later overrides what comes before; and the documented fallbacks.
Documented(defaults, hostCfg, entry, s) ==
    LET says == Says(defaults, hostCfg, entry, s)
    IN  CASE 3 \in says -> entry[s]
          [] 2 \in says /\ 3 \notin says -> hostCfg[s]
          [] says = {1} -> defaults[s]
          [] says = {} /\ s = "composeAction" -> Up
          [] says = {} /\ s = "templateVarSources" -> Patterns
          [] says = {} /\ s \notin {"composeAction", "templateVarSources"} -> Unset

\* A setting of a project is what the strongest level that says something of it says: its
\* entry in host.yml, then host.yml, then the defaults, for levels of L and entries of E.
AgreesOn(L, E) ==
    \A defaults \in L \cup {Unset}, hostCfg \in L \cup {Unset}, entry \in E \cup {Unset}, s \in Settings :
        ResolveProjectConfig(defaults, hostCfg, entry)[s] = Documented(defaults, hostCfg, entry, s)

=============================================================================
