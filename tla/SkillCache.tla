----------------------------- MODULE SkillCache -----------------------------
(***************************************************************************)
(* skillpackages.Load: concurrent runs, of one or of several Node          *)
(* processes, write a pinned package into the same cache directory and     *)
(* verify it there, with exclusive links and no lock.  A package that a    *)
(* tool of the same user has damaged is left alone and copied afresh.      *)
(* The packages of one snapshot lie in directories of their own and are    *)
(* loaded one after the other: the model has one.                          *)
(***************************************************************************)
EXTENDS Naturals, FiniteSets

CONSTANTS
    Loaders,     \* calls of Load
    LastFile,    \* the package's files are 1 .. LastFile, in the order of their names
    Copies,      \* the names recovered copies get
    Mode,        \* "workspace" (Directory = ""), "directory", or "shared" (GroupID # 0)
    ScanLimit,   \* how many copies ReadDir lists (1024 entries)
    MaxDamage    \* bound: how many files a tool damages

Files == 1 .. LastFile
Main == "main"                     \* <AgentID>/<Digest>
Dirs == {Main} \cup Copies

VARIABLES
    marker,    \* the cache's .gitignore
    content,   \* the package's files, by directory
    copies,    \* the recovered copies that exist
    pc, dir, file,     \* where each Load is: the directory and file it works on
    entries, tried,    \* the copies recoverPrivatePackage has listed and tried
    damage,    \* history: the files that a tool has damaged
    dirty,     \* history: the directory was damaged since the loader turned to it
    faults     \* history: an operation failed or a run was cancelled

cache == <<marker, content, copies>>
locals == <<pc, dir, file, entries, tried>>
vars == <<cache, locals, damage, dirty, faults>>

Init ==
    /\ marker \in {"none", "stale", "good"}
    /\ content = [d \in Dirs |-> [f \in Files |-> "none"]]
    /\ copies = {}
    /\ pc = [l \in Loaders |-> "idle"]
    /\ dir = [l \in Loaders |-> Main] /\ file = [l \in Loaders |-> 1]
    /\ entries = [l \in Loaders |-> {}] /\ tried = [l \in Loaders |-> {}]
    /\ damage = {} /\ dirty = [l \in Loaders |-> FALSE] /\ faults = FALSE

Goto(l, step) == pc' = [pc EXCEPT ![l] = step]

\* Everything up to the cache's root: only a workspace cache gets a marker.
Begin(l) ==
    /\ pc[l] = "idle"
    /\ Goto(l, IF Mode = "workspace" THEN "ignore" ELSE "look")
    /\ dirty' = [dirty EXCEPT ![l] = FALSE]
    /\ UNCHANGED <<cache, dir, file, entries, tried, damage, faults>>

-----------------------------------------------------------------------------
(* writeCacheIgnore.                                                       *)

ReadMarker(l) ==
    /\ pc[l] = "ignore"
    /\ Goto(l, IF marker = "good" THEN "look" ELSE "stat")
    /\ UNCHANGED <<cache, dir, file, entries, tried, damage, dirty, faults>>

StatMarker(l) ==
    /\ pc[l] = "stat"
    /\ Goto(l, IF marker = "none" THEN "link" ELSE "remove")
    /\ UNCHANGED <<cache, dir, file, entries, tried, damage, dirty, faults>>

RemoveMarker(l) ==
    /\ pc[l] = "remove"
    /\ marker' = "none"
    /\ Goto(l, "link")
    /\ UNCHANGED <<content, copies, dir, file, entries, tried, damage, dirty, faults>>

LinkMarker(l) ==
    /\ pc[l] = "link"
    /\ IF marker = "none" THEN marker' = "good" /\ Goto(l, "look")
                          ELSE Goto(l, "reread") /\ UNCHANGED marker
    /\ UNCHANGED <<content, copies, dir, file, entries, tried, damage, dirty, faults>>

\* Another loader may already have installed the identical marker.
RereadMarker(l) ==
    /\ pc[l] = "reread"
    /\ Goto(l, IF marker = "good" THEN "look" ELSE "failed")
    /\ UNCHANGED <<cache, dir, file, entries, tried, damage, dirty, faults>>

-----------------------------------------------------------------------------
(* materialize, file by file.                                              *)

Here(l) == content[dir[l]][file[l]]

Advance(l) ==
    IF file[l] = LastFile THEN Goto(l, "emit") /\ UNCHANGED file
    ELSE Goto(l, "look") /\ file' = [file EXCEPT ![l] = @ + 1]

\* An error in the package's own directory leads to recovery unless the cache
\* is shared, one in a listed copy to the next, one in a new copy to failure.
materializeFails(l) ==
    /\ Goto(l, IF dir[l] = Main /\ Mode # "shared" THEN "list"
               ELSE IF dir[l] \in entries[l] THEN "scan" ELSE "failed")
    /\ UNCHANGED file

Look(l) ==
    /\ pc[l] = "look"
    /\ Goto(l, IF Here(l) = "none" THEN "write" ELSE "verify")
    /\ UNCHANGED <<cache, dir, file, entries, tried, damage, dirty, faults>>

\* A mutant: an existing regular file is good enough.
VerifySkipped(l) ==
    /\ pc[l] = "verify"
    /\ Advance(l)
    /\ UNCHANGED <<cache, dir, entries, tried, damage, dirty, faults>>

\* existingMatches.
Verify(l) ==
    /\ pc[l] = "verify"
    /\ IF Here(l) = "good" THEN Advance(l) ELSE materializeFails(l)
    /\ UNCHANGED <<cache, dir, entries, tried, damage, dirty, faults>>

\* A mutant: the file is renamed into place.
RenameFile(l) ==
    /\ pc[l] = "write"
    /\ content' = [content EXCEPT ![dir[l]][file[l]] = "good"]
    /\ Advance(l)
    /\ UNCHANGED <<marker, copies, dir, entries, tried, damage, dirty, faults>>

\* The content goes to a private temporary file; Link is exclusive.
LinkFile(l) ==
    /\ pc[l] = "write"
    /\ IF Here(l) = "none"
       THEN content' = [content EXCEPT ![dir[l]][file[l]] = "good"] /\ Advance(l)
       ELSE Goto(l, "verify") /\ UNCHANGED <<content, file>>
    /\ UNCHANGED <<marker, copies, dir, entries, tried, damage, dirty, faults>>

\* A file operation fails.
FileFails(l) ==
    /\ pc[l] \in {"look", "verify", "write"}
    /\ faults' = TRUE
    /\ materializeFails(l)
    /\ UNCHANGED <<cache, dir, entries, tried, damage, dirty>>

\* Any other failure of Load: around the marker and the list of copies, a run
\* that is cancelled before the package, an event that is not accepted.
LoadFails(l) ==
    /\ \/ pc[l] \in {"ignore", "stat", "remove", "link", "reread", "list", "scan", "emit"}
       \/ pc[l] = "look" /\ dir[l] = Main /\ file[l] = 1
    /\ faults' = TRUE
    /\ Goto(l, "failed")
    /\ UNCHANGED <<cache, dir, file, entries, tried, damage, dirty>>

\* run.skill_packages.loaded is accepted and Load returns.
Emit(l) ==
    /\ pc[l] = "emit"
    /\ Goto(l, "loaded")
    /\ UNCHANGED <<cache, dir, file, entries, tried, damage, dirty, faults>>

-----------------------------------------------------------------------------
(* recoverPrivatePackage.                                                  *)

TurnTo(l, d) ==
    /\ dir' = [dir EXCEPT ![l] = d]
    /\ file' = [file EXCEPT ![l] = 1]
    /\ dirty' = [dirty EXCEPT ![l] = FALSE]
    /\ Goto(l, "look")

ListCopies(l) ==
    /\ pc[l] = "list"
    /\ \E listed \in SUBSET copies :
          /\ Cardinality(listed) <= ScanLimit
          /\ listed = copies \/ Cardinality(listed) = ScanLimit
          /\ entries' = [entries EXCEPT ![l] = listed]
    /\ Goto(l, "scan")
    /\ UNCHANGED <<cache, dir, file, tried, damage, dirty, faults>>

TryCopy(l) ==
    /\ pc[l] = "scan"
    /\ \E c \in entries[l] \ tried[l] :
          /\ tried' = [tried EXCEPT ![l] = @ \cup {c}]
          /\ TurnTo(l, c)
    /\ UNCHANGED <<cache, entries, damage, faults>>

MakeCopy(l) ==
    /\ pc[l] = "scan" /\ entries[l] \subseteq tried[l]
    /\ \E c \in Copies \ copies : copies' = copies \cup {c} /\ TurnTo(l, c)
    /\ UNCHANGED <<marker, content, entries, tried, damage, faults>>

-----------------------------------------------------------------------------
\* A tool of the same user alters or removes a file of the cache.
Damage(d, f) ==
    /\ Cardinality(damage) < MaxDamage /\ content[d][f] = "good"
    /\ \E left \in {"bad", "none"} : content' = [content EXCEPT ![d][f] = left]
    /\ damage' = damage \cup {<<d, f>>}
    /\ dirty' = [l \in Loaders |-> dirty[l] \/ dir[l] = d]
    /\ UNCHANGED <<marker, copies, locals, faults>>

Marking(l) ==
    ReadMarker(l) \/ StatMarker(l) \/ RemoveMarker(l) \/ LinkMarker(l) \/ RereadMarker(l)

Next ==
    \/ \E l \in Loaders :
          \/ Begin(l) \/ Marking(l) \/ Look(l) \/ Verify(l) \/ LinkFile(l) \/ FileFails(l)
          \/ Emit(l) \/ LoadFails(l) \/ ListCopies(l) \/ TryCopy(l) \/ MakeCopy(l)
    \/ \E d \in Dirs, f \in Files : Damage(d, f)

Spec == Init /\ [][Next]_vars

-----------------------------------------------------------------------------
\* A load that succeeds names a directory that holds the whole pinned
\* package, whichever loaders wrote its files, unless a tool damaged it after
\* the loader turned to it.
LoadedIsPinned ==
    \A l \in Loaders : pc[l] = "loaded" /\ ~dirty[l] =>
        \A f \in Files : content[dir[l]][f] = "good"

\* materialize: "We never overwrite another package, an operator file, or a
\* damaged cache to make a run proceed": a file that exists changes only by a
\* tool's hand.  And recoverPrivatePackage adds a copy only where one is needed:
\* unless an operation failed, a tool has damaged the package's directory and
\* every copy that the loader has listed.
DamageIsLeftAlone ==
    [][/\ \A d \in Dirs, f \in Files :
             \/ content[d][f] \in {"none", content'[d][f]}
             \/ content[d][f] = "good" /\ <<d, f>> \in damage'
       /\ \A c \in copies' \ copies : faults \/ \E l \in Loaders :
             /\ dir'[l] = c
             /\ \A d \in {Main} \cup entries[l] : \E f \in Files : <<d, f>> \in damage]_vars
=============================================================================
