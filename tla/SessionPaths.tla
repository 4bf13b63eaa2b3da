---------------------------- MODULE SessionPaths ----------------------------
(***************************************************************************)
(* The places of a native session, as paths of a file system with one      *)
(* symbolic link: parseSessionIsolation checks the configured roots before *)
(* they exist, openSession creates and resolves them, newNativeToolPolicy  *)
(* decides what the client's tools may read and write, and the client's    *)
(* first login creates the places that the policy had to keep apart.       *)
(***************************************************************************)
EXTENDS Naturals, Sequences, SequencesExt, FiniteSets

CONSTANTS
    Dirs,          \* the directories that may exist at the start (/ always does)
    Links,         \* where the symbolic link may be
    Repositories,  \* directories that may hold a .git
    Roots, Temps, Homes, CodexHomes, ReadPaths,   \* what may be configured
    System,        \* the readable system paths of the policy
    Minimal,       \* what Codex's :minimal adds on Linux
    Shared         \* /tmp

Unset == << >>     \* an option that is not set; / itself is never one

VARIABLES
    dirs, link, git,   \* the file system; link.at = Unset: there is none
    config,        \* ProviderConfig and SessionIsolation
    session,       \* its resolved control directory and its temp
    policy,        \* the paths that tools may read, and may write
    step, why      \* how far the start of a session is

vars == <<dirs, link, git, config, session, policy, step, why>>

Parent(p) == IF p = << >> THEN p ELSE Front(p)
Ancestors(p) == {SubSeq(p, 1, n) : n \in 0 .. Len(p)}
After(p, n) == SubSeq(p, n + 1, Len(p))

\* The place that the operating system means by p.  The link's target has no link
\* in it.
Real(p) == IF link.at # Unset /\ IsPrefix(link.at, p) THEN link.to \o After(p, Len(link.at)) ELSE p

Resolves(p) == Real(p) \in dirs          \* EvalSymlinks without an error

\* MkdirAll, for a path whose link is not dangling.
Created(p) == dirs \cup Ancestors(Real(p))

FileSystems ==
    {d \in SUBSET Dirs : \A p \in d : Len(p) = 1 \/ Parent(p) \in d}

Init ==
    /\ dirs \in {d \cup {<< >>, Shared} : d \in FileSystems}
    /\ \/ link = [at |-> Unset, to |-> << >>]
       \/ \E at \in Links, to \in dirs :
              /\ Parent(at) \in dirs /\ at \notin dirs
              /\ link = [at |-> at, to |-> to]
    /\ git \in SUBSET (Repositories \cap dirs)
    /\ config \in [root : Roots, temp : Temps, home : Homes, codexHome : CodexHomes,
                   read : ReadPaths, provider : {"codex", "claude"}]
    /\ session = [control |-> Unset, temp |-> Unset]
    /\ policy = [read |-> {}, write |-> {}]
    /\ step = "load" /\ why = ""

-----------------------------------------------------------------------------
\* A mutant: a path that does not exist yet is taken as it is written.
canonicalExistingOnly(p) == IF Resolves(p) THEN Real(p) ELSE p

\* The deepest ancestor that resolves, and the rest as it stands:
\* canonicalProspectivePath, and canonicalExisting.
canonicalProspectivePath(p) ==
    LET n == CHOOSE m \in 0 .. Len(p) :
                 /\ Resolves(SubSeq(p, 1, m))
                 /\ \A k \in m + 1 .. Len(p) : ~Resolves(SubSeq(p, 1, k))
    IN Real(SubSeq(p, 1, n)) \o After(p, n)

pathsOverlap(a, b) == IsPrefix(a, b) \/ IsPrefix(b, a)

gitWorktree(p) == \E a \in Ancestors(p) : a \in git

hostAuthStatePath(home) == Append(home, "state")

nativeHostPaths ==
    {hostAuthStatePath(config.home), Append(config.home, "login")}
        \cup ({config.codexHome} \ {Unset})

protected == nativeHostPaths \cup ({config.root, config.temp} \ {Unset})

Refuse(reason) == step' = "refused" /\ why' = reason

-----------------------------------------------------------------------------
\* parseSessionIsolation: CheckOutsideGitWorktree on roots that need not exist.
Load ==
    /\ step = "load"
    /\ IF \E p \in {config.root, config.temp} \ {Unset} : gitWorktree(canonicalProspectivePath(p))
       THEN Refuse("git")
       ELSE step' = "open" /\ UNCHANGED why
    /\ UNCHANGED <<dirs, link, git, config, session, policy>>

\* openSession: privateRoot of the root, and of the temp root when there is one.
\* Each is created, must not be a link itself and is resolved.
Open ==
    LET roots == {config.root, config.temp} \ {Unset}
        refused == {p \in roots : link.at = p \/ gitWorktree(Real(p))}
        first == IF config.root \in refused THEN config.root ELSE config.temp
        control == Append(Real(config.root), "control")
        temp == Append(IF config.temp = Unset THEN Shared ELSE Real(config.temp), "olns")
    IN /\ step = "open"
       /\ IF refused = {}
          THEN /\ session' = [control |-> control, temp |-> temp]
               /\ dirs' = Created(control) \cup Created(temp)
               /\ step' = "policy" /\ UNCHANGED why
          ELSE /\ Refuse(IF first = link.at THEN "link" ELSE "worktree")
               /\ dirs' = Created(config.root) \cup Created(first)
               /\ UNCHANGED session
       /\ UNCHANGED <<link, git, config, policy>>

\* The other refusals of both: modes, owners, names, a busy lock.
Fails ==
    /\ step \in {"open", "policy"} /\ Refuse("unsafe")
    /\ dirs' = dirs \/ (step = "open" /\ dirs' = Created(config.root))
    /\ UNCHANGED <<link, git, config, session, policy>>

\* Workspace and ToolHome, in the control directory's data, and Temp.
Writes == {Append(session.control, "workspace"), Append(session.control, "home"), session.temp}

\* newNativeToolPolicy, in the order of its refusals.
Policy ==
    LET read == {Real(p) : p \in {q \in System \cup config.read : Resolves(q)}}
        checkRoots == read \cup (IF config.provider = "codex" THEN Minimal ELSE {})
        state == canonicalProspectivePath(hostAuthStatePath(config.home))
    IN /\ step = "policy"
       /\ IF \E p \in config.read : ~Resolves(p) THEN Refuse("read") /\ UNCHANGED policy
          ELSE IF \E p \in config.read, b \in protected :
                      pathsOverlap(Real(p), canonicalProspectivePath(b))
          THEN Refuse("exposes") /\ UNCHANGED policy
          ELSE IF \E b \in protected, g \in checkRoots :
                      IsPrefix(canonicalProspectivePath(g), canonicalProspectivePath(b))
          THEN Refuse("inside") /\ UNCHANGED policy
          ELSE IF \E w \in Writes : pathsOverlap(canonicalProspectivePath(w), state)
          THEN Refuse("state") /\ UNCHANGED policy
          ELSE /\ policy' = [read |-> checkRoots \cup Writes, write |-> Writes]
               /\ step' = "running" /\ UNCHANGED why
       /\ UNCHANGED <<dirs, link, git, config, session>>

\* The client, or the host-auth gate, creates a place of its own: at any time,
\* before the checks or after them.
Login(p) ==
    /\ p \in nativeHostPaths /\ ~Resolves(p)
    /\ dirs' = Created(p)
    /\ UNCHANGED <<link, git, config, session, policy, step, why>>

Next == Load \/ Open \/ Policy \/ Fails \/ \E p \in nativeHostPaths : Login(p)

Spec == Init /\ [][Next]_vars

-----------------------------------------------------------------------------
\* The checks made on paths that do not exist yet hold of the places that are
\* there later.  However the link, a first login and the session's own
\* directories change what the paths mean, a policy in use lets no tool read a
\* directory that holds the client's login, the host-auth state or the session
\* root, other than the session's own directories; what an operator added is
\* disjoint from them; no writable path holds or lies in the host-auth state; and
\* opening never meets a Git worktree that loading the configuration had not
\* refused.
PolicyKeepsApart ==
    /\ step = "running" =>
        /\ \A b \in protected, g \in policy.read \ policy.write : ~IsPrefix(Real(g), Real(b))
        /\ \A b \in protected, p \in config.read : ~pathsOverlap(Real(p), Real(b))
        /\ \A w \in policy.write : ~pathsOverlap(Real(w), Real(hostAuthStatePath(config.home)))
    /\ why # "worktree"
=============================================================================
