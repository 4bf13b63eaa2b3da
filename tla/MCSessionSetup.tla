--------------------------- MODULE MCSessionSetup ---------------------------
(***************************************************************************)
(* What a session meets before its client starts, for TLC: the table of    *)
(* session locks, the exclude file of the repository it works in, its      *)
(* Codex home, the checks its Node passed when it started, and the paths   *)
(* of its storage and tools.  They share no variable with one another, so  *)
(* Init picks the one that moves.                                          *)
(***************************************************************************)
EXTENDS SessionLock, Sequences

CONSTANTS
    Loaders, MaxSaves,
    Attempts, MaxIssued, MaxRollouts,
    MaxPart

VARIABLES
    part,       \* the one that moves
    exclude, tracked, exclusion, previous, saved, since, saves,
    login, issued, rollouts, recorded, prepare, home, auth, linked,
    options, client, hosts, check, why, startCtx, scopeLock,
    dirs, link, git, config, session, policy, opening, refusal

excludes == <<exclude, tracked, exclusion, previous, saved, since, saves>>
homes == <<login, issued, rollouts, recorded, prepare, home, auth, linked>>
checks == <<options, client, hosts, check, why, startCtx, scopeLock>>
paths == <<dirs, link, git, config, session, policy, opening, refusal>>

\* An empty file, one without a last newline, one with the rule, and one that
\* takes the rule back.
Rule == ".openlinker-skills/"
NL == "newline"
Saves == {<<>>, <<"*.log">>, <<"*.log", NL, Rule, NL>>,
          <<Rule, NL, "!.openlinker-skills/", NL>>}
Exclude == INSTANCE GitExclude WITH pc <- exclusion

Home == INSTANCE CodexHome WITH step <- prepare

Minimum == <<1, 0, 1>>
Checks == INSTANCE Preflight WITH config <- options, step <- check

\* /s/h is readable system code, /s what Codex adds; /h, the home /h/h and the
\* directory /h/c may be links; the session's root is the host-auth state itself
\* or lies in /h/c, which may also be the temp root, the Codex login and what
\* the operator makes readable.
Paths == INSTANCE SessionPaths WITH
    Dirs <- {<<"s">>, <<"h">>, <<"s", "h">>, <<"h", "h">>},
    Links <- {<<"h">>, <<"h", "h">>, <<"h", "c">>},
    Repositories <- {<<"s">>},
    Roots <- {<<"h", "c", "r">>, <<"h", "h", "state">>},
    Temps <- {<< >>, <<"h", "c">>},
    Homes <- {<<"h", "h">>},
    CodexHomes <- {<< >>, <<"h", "c">>},
    ReadPaths <- {{}, {<<"h", "c">>}, {<<"s", "h">>}},
    System <- {<<"s", "h">>}, Minimal <- {<<"s">>}, Shared <- <<"t">>,
    step <- opening, why <- refusal

\* The one initial state of what stands still.
ChecksIdle ==
    /\ options = [provider |-> "codex", native |-> TRUE, targets |-> FALSE,
                  key |-> FALSE, keyFile |-> "none"]
    /\ client = [version |-> Minimum, suffix |-> "none", capable |-> TRUE]
    /\ hosts = TRUE /\ scopeLock = "free"
PathsIdle ==
    /\ dirs = {<< >>, <<"t">>} /\ link = [at |-> << >>, to |-> << >>] /\ git = {}
    /\ config = [root |-> <<"h", "c", "r">>, temp |-> << >>, home |-> <<"h", "h">>,
                 codexHome |-> << >>, read |-> {}, provider |-> "codex"]

InitOne ==
    /\ part \in {"locks", "exclude", "homes", "checks", "paths"}
    /\ Init /\ Exclude!Init /\ Home!Init
    /\ part # "locks" => key = [r \in Runs |-> CHOOSE k \in Keys : TRUE]
    /\ part # "exclude" => exclude = <<>>
    /\ part # "homes" => login = 0
    /\ part = "checks" \/ ChecksIdle
    /\ part = "paths" \/ PathsIdle
    /\ Checks!Init /\ Paths!Init

LocksNext == part = "locks" /\ Next /\ UNCHANGED <<part, excludes, homes, checks, paths>>
ExcludeNext == part = "exclude" /\ Exclude!Next /\ UNCHANGED <<part, vars, homes, checks, paths>>
HomesNext == part = "homes" /\ Home!Next /\ UNCHANGED <<part, vars, excludes, checks, paths>>
ChecksNext == part = "checks" /\ Checks!Next /\ UNCHANGED <<part, vars, excludes, homes, paths>>
PathsNext == part = "paths" /\ Paths!Next /\ UNCHANGED <<part, vars, excludes, homes, checks>>

NextOne == LocksNext \/ ExcludeNext \/ HomesNext \/ ChecksNext \/ PathsNext

\* The actions of SessionLock's Fairness are disabled where the locks stand still.
FairSpecOne ==
    InitOne /\ [][NextOne]_<<part, vars, excludes, homes, checks, paths>> /\ Fairness

-----------------------------------------------------------------------------
\* Exclude file: no line of the operator is lost, and the cache stays ignored.
ExcludeKept == Exclude!ExcludeKept

\* Homes: what attempts share stays good, and only crashed ones leave a directory.
HomesKeepState == Home!HomesKeepState

\* Start: a Node that comes up has what its runs need, one that is refused for a
\* version deserves it, and the probe's session is given back.
StartTruthful == Checks!StartTruthful

\* Paths: what was checked before it existed holds of what exists later.
PolicyKeepsApart == Paths!PolicyKeepsApart
=============================================================================
