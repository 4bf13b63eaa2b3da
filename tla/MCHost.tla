------------------------------- MODULE MCHost -------------------------------
(***************************************************************************)
(* What Nodes share with the rest of the host, for TLC: the process table, *)
(* and the cache of skill packages in each of its three forms.  They share *)
(* no variable with one another, so Init picks the one that moves.         *)
(***************************************************************************)
EXTENDS DescendantTracker, TLC

CONSTANTS
    root, a, b,
    Loaders, LastFile, Copies, ScanLimit, MaxDamage

VARIABLES
    part,       \* the one that moves: "processes", or a form of the cache
    marker, content, copies, pc, dir, file, entries, tried, damage, dirty, faults

skills == <<marker, content, copies, pc, dir, file, entries, tried, damage, dirty, faults>>

Cache(Mode) == INSTANCE SkillCache
Skills == INSTANCE SkillCache WITH Mode <- "workspace"   \* what the forms have in common

CacheModes == {"workspace", "directory", "shared"}

InitOne ==
    /\ part \in {"processes"} \cup CacheModes
    /\ Init /\ Skills!Init
    /\ part = "processes" => marker = "none"

ProcessesNext == part = "processes" /\ Next /\ UNCHANGED <<part, skills>>
CacheNext ==
    \E mode \in CacheModes : part = mode /\ Cache(mode)!Next /\ UNCHANGED <<part, vars>>

NextOne == ProcessesNext \/ CacheNext

SpecOne == InitOne /\ [][NextOne]_<<part, vars, skills>>

Symmetry == Permutations({a, b}) \cup Permutations(Loaders) \cup Permutations(Copies)

-----------------------------------------------------------------------------
\* Cache: a load that succeeds names a directory with the whole pinned package.
CacheLoadedIsPinned == Skills!LoadedIsPinned

\* Cache: what exists is never overwritten, and a copy is made only when needed.
CacheDamageIsLeftAlone == Skills!DamageIsLeftAlone
=============================================================================
