----------------------------- MODULE GitExclude -----------------------------
(***************************************************************************)
(* How a load of skill packages keeps its cache out of the repository it   *)
(* works in: protectSkillPackageCache.  Loads of several runs, and of      *)
(* several Nodes, edit one exclude file without a lock, and the operator   *)
(* edits it too.  The file is a sequence of lines' texts and newlines; its *)
(* last line may lack the newline.                                         *)
(***************************************************************************)
EXTENDS Naturals, Sequences, FiniteSets

CONSTANTS
    Loaders,    \* goroutines that load packages
    Saves,      \* contents the operator may save
    MaxSaves    \* bound: how often anything is saved

VARIABLES
    exclude,    \* info/exclude of the repository
    tracked,    \* the index holds files of the cache
    pc,         \* per load: its next step, or how it ended
    previous,   \* per load: the content it has read
    saved,      \* the operator's last content
    since,      \* loads that ended well since anything but a load changed
    saves

vars == <<exclude, tracked, pc, previous, saved, since, saves>>

Rule == ".openlinker-skills/"
Unrule == "!.openlinker-skills/"
NL == "newline"

\* The texts that are whole lines, and where.
IsLine(text, i) == /\ text[i] # NL
                   /\ i = 1 \/ text[i - 1] = NL
                   /\ i = Len(text) \/ text[i + 1] = NL
Lines(text) == {text[i] : i \in {j \in DOMAIN text : IsLine(text, j)}}

Init == /\ exclude \in Saves /\ saved = exclude
        /\ tracked = FALSE
        /\ pc = [l \in Loaders |-> "idle"]
        /\ previous = [l \in Loaders |-> <<>>]
        /\ since = {} /\ saves = 0

-----------------------------------------------------------------------------
Addition == <<NL, "# OpenLinker", NL, Rule, NL>>

Goes(l, next) == pc' = [pc EXCEPT ![l] = next]

\* The workspace is no repository, or one whose exclude file is outside of it.
NothingToProtect(l) == /\ pc[l] = "idle"
                       /\ Goes(l, "unprotected")
                       /\ UNCHANGED <<exclude, tracked, previous, saved, since, saves>>

\* git ls-files: a cache that is under version control is refused.
ListFiles(l) == /\ pc[l] = "idle"
                /\ Goes(l, IF tracked THEN "refused" ELSE "read")
                /\ UNCHANGED <<exclude, tracked, previous, saved, since, saves>>

ReadExclude(l) == /\ pc[l] = "read"
                  /\ previous' = [previous EXCEPT ![l] = exclude]
                  /\ Goes(l, IF Rule \in Lines(exclude) THEN "check" ELSE "append")
                  /\ UNCHANGED <<exclude, tracked, saved, since, saves>>

\* A mutant: the file is written as it was read, with the rule added.
Rewrite(l) == /\ pc[l] = "append"
              /\ exclude' = previous[l] \o Addition
              /\ Goes(l, "check")
              /\ UNCHANGED <<tracked, previous, saved, since, saves>>

\* O_APPEND: the rule goes behind whatever the file holds by now, on a line of
\* its own although the last line may not be finished.
AppendRule(l) == /\ pc[l] = "append"
              /\ exclude' = exclude \o Addition
              /\ Goes(l, "check")
              /\ UNCHANGED <<tracked, previous, saved, since, saves>>

\* git check-ignore: the last line that matches decides.
Ignored == \E i \in DOMAIN exclude :
              /\ IsLine(exclude, i) /\ exclude[i] = Rule
              /\ \A j \in (i + 1)..Len(exclude) :
                    ~(IsLine(exclude, j) /\ exclude[j] = Unrule)

CheckIgnore(l) == /\ pc[l] = "check"
                  /\ Goes(l, IF Ignored THEN "protected" ELSE "failed")
                  /\ since' = IF Ignored THEN since \cup {l} ELSE since
                  /\ UNCHANGED <<exclude, tracked, previous, saved, saves>>

\* Reading, creating or writing fails, or the load is cancelled; when only the
\* close fails, the rule has been written.
Fails(l) == /\ pc[l] \in {"idle", "read", "append", "check"}
            /\ Goes(l, "failed")
            /\ \/ UNCHANGED exclude
               \/ pc[l] = "append" /\ exclude' = exclude \o Addition
            /\ UNCHANGED <<tracked, previous, saved, since, saves>>

\* The run is over; its goroutine loads for another one.
Again(l) == /\ pc[l] \in {"unprotected", "refused", "protected", "failed"}
            /\ Goes(l, "idle")
            /\ previous' = [previous EXCEPT ![l] = <<>>]
            /\ UNCHANGED <<exclude, tracked, saved, since, saves>>

\* The operator saves the file, or puts the cache under version control.
Operator == /\ saves < MaxSaves /\ saves' = saves + 1
            /\ \/ /\ exclude' \in Saves /\ saved' = exclude'
                  /\ UNCHANGED tracked
               \/ tracked' = ~tracked /\ UNCHANGED <<exclude, saved>>
            /\ since' = {}
            /\ UNCHANGED <<pc, previous>>

Load(l) == \/ NothingToProtect(l) \/ ListFiles(l) \/ ReadExclude(l) \/ AppendRule(l)
           \/ CheckIgnore(l) \/ Fails(l) \/ Again(l)

Next == (\E l \in Loaders : Load(l)) \/ Operator

Spec == Init /\ [][Next]_vars

-----------------------------------------------------------------------------
\* Whatever loads do at the same time, every line the operator saved last is
\* still a line of the file, no load adds the rule to a file that has it except
\* next to another load, and once a load has found the cache ignored it stays
\* ignored until the operator changes something.
ExcludeKept ==
    /\ Lines(saved) \subseteq Lines(exclude)
    /\ Cardinality({i \in DOMAIN exclude : exclude[i] = Rule})
          <= Cardinality({i \in DOMAIN saved : saved[i] = Rule}) + Cardinality(Loaders)
    /\ since # {} => Ignored
=============================================================================
