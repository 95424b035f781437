---------------------------- MODULE SkillCatalog ----------------------------
(***************************************************************************)
(* The skills of a run (skills/catalog.go, skills/tool.go): before the run,  *)
(* the user's and then the project's directory of skills are read, and name  *)
(* and description of every skill are announced to the model; during the run *)
(* read_skill hands out the whole text of one of them.  The files are the    *)
(* user's: they are edited, removed and linked to one another at any moment, *)
(* between the readings of two skills as well.                               *)
(*                                                                           *)
(* A path is a SKILL.md of one of the two roots, or a file elsewhere.  A     *)
(* text is the name and the description it declares, its length, and whether *)
(* its head can be read; two texts with one digest are equal.  The           *)
(* directories of the skills themselves stay; errors of the file system are  *)
(* left out, but missing files and circular links, and the look at the links *)
(* of a path and the reading of the file it leads to are one step.           *)
(***************************************************************************)
EXTENDS Integers, FiniteSets, Sequences, Functions, Sums

CONSTANTS
  SkillName,       \* names of skills
  Elsewhere,       \* files outside both roots
  SkillText,       \* texts: [name, about, size, readable]
  Listing,         \* the names as the directories list them
  MaxFileSize,     \* maxSkillFileBytes
  MaxTotalSize,    \* maxSkillTotalBytes
  MaxSkills,       \* maxSkills
  FirstDisk,       \* what the disk may hold at the beginning: functions of Path
  MaxEdits,        \* bound: changes of the disk
  MaxReads         \* bound: calls of read_skill

Roots == {"user", "project"}
Skills == Roots \X SkillName
Path   == Skills \cup Elsewhere

ASSUME CatalogBounds ==
  /\ {MaxFileSize, MaxTotalSize, MaxSkills, MaxEdits, MaxReads} \subseteq Nat
  /\ Skills \cap Elsewhere = {}
  /\ Listing \in Seq(SkillName) /\ \A i, j \in DOMAIN Listing : Listing[i] = Listing[j] => i = j
  /\ \A t \in SkillText : t.size \in Nat

VARIABLES
  disk,       \* what is at a path: a text, a link to a path, or NoFile
  edits,      \* changes of the disk so far
  setup,      \* where Discover is: [at, ...]
  catalog,    \* the skills by name: [about, path, text, root]
  conflicts,  \* names the project has taken from the user
  call,       \* the call of read_skill that is prepared
  reads,      \* calls so far
  loaded      \* the texts the model was given: [name, text]

skillVars == <<disk, edits, setup, catalog, conflicts, call, reads, loaded>>

-----------------------------------------------------------------------------
(***************************************************************************)
(* Files and links.                                                          *)
(***************************************************************************)

File(text) == [is |-> "file", text |-> text]
Link(path) == [is |-> "link", to |-> path]
NoFile     == [is |-> "none"]
Contents   == {File(t) : t \in SkillText} \cup {Link(p) : p \in Path} \cup {NoFile}

ASSUME DiskShape == FirstDisk \subseteq [Path -> Contents]

\* EvalSymlinks: where a path leads in the end; a link is left only in a circle.
Leads[n \in Nat, path \in Path] ==
  IF n = 0 \/ disk[path].is # "link" THEN path ELSE Leads[n - 1, disk[path].to]
Resolved(path) == Leads[Cardinality(Path), path]

\* within: the file lies under the root it was found in.
Within(root, path) == path \in Skills /\ path[1] = root

\* readSkillFile: a regular file that is not too long.
ReadableFile(path) == disk[path].is = "file" /\ disk[path].text.size <= MaxFileSize

-----------------------------------------------------------------------------
(***************************************************************************)
(* Discover.                                                                 *)
(***************************************************************************)

SkillInit ==
  /\ disk \in FirstDisk /\ edits = 0
  /\ setup = [at |-> "user", next |-> 1, size |-> 0]
  /\ catalog = [n \in {} |-> NoFile] /\ conflicts = {}
  /\ call = NoFile /\ reads = 0 /\ loaded = {}

Discovering == setup.at \in Roots
Refuse      == setup' = [at |-> "refused"] /\ UNCHANGED <<catalog, conflicts>>

Announced(path, root) ==
  [about |-> disk[path].text.about, path |-> path, text |-> disk[path].text, root |-> root]

\* selected[skill.Name] = skill: the later root replaces.
Selected(name, skill) ==
  [n \in DOMAIN catalog \cup {name} |-> IF n = name THEN skill ELSE catalog[n]]

\* parseFrontmatter, and the name of the directory.
Declares(path, name) == disk[path].text.readable /\ disk[path].text.name = name

\* The loop of discoverRoot: one skill is read and announced, or there is
\* none, or one that is not as it should be ends the setup of the run.
DiscoverSkill ==
  /\ Discovering /\ setup.next <= Len(Listing)
  /\ LET name == Listing[setup.next]
         path == Resolved(<<setup.at, name>>)
         skip == setup' = [setup EXCEPT !.next = @ + 1]
     IN  IF disk[path] = NoFile THEN skip /\ UNCHANGED <<catalog, conflicts>>
         ELSE IF Within(setup.at, path) /\ ReadableFile(path) /\ Declares(path, name)
         THEN /\ setup' = [setup EXCEPT !.next = @ + 1, !.size = @ + disk[path].text.size]
              /\ catalog' = Selected(name, Announced(path, setup.at))
              /\ conflicts' = IF name \in DOMAIN catalog THEN conflicts \cup {name} ELSE conflicts
         ELSE Refuse
  /\ UNCHANGED <<disk, edits, call, reads, loaded>>

\* The end of a root: the length of all texts read, then of the catalogue.
NextRoot ==
  /\ Discovering /\ setup.next = Len(Listing) + 1
  /\ IF \/ setup.size > MaxTotalSize
        \/ setup.at = "project" /\ Cardinality(DOMAIN catalog) > MaxSkills
     THEN Refuse
     ELSE /\ setup' = IF setup.at = "user" THEN [setup EXCEPT !.at = "project", !.next = 1]
                      ELSE [at |-> "running"]
          /\ UNCHANGED <<catalog, conflicts>>
  /\ UNCHANGED <<disk, edits, call, reads, loaded>>

-----------------------------------------------------------------------------
(***************************************************************************)
(* read_skill.                                                               *)
(***************************************************************************)

SameFile(skill, path) == ReadableFile(path)     \* mutant: any readable file there

\* readSkillSnapshot and the digest: the file is where it was, as it was.
Unchanged(skill, path) ==
  /\ Resolved(path) = path /\ ReadableFile(path)
  /\ disk[path].text = skill.text

\* Prepare: a name of the catalogue, whose file is looked at.
PrepareSkill ==
  /\ setup.at = "running" /\ call = NoFile /\ reads < MaxReads
  /\ reads' = reads + 1
  /\ \E name \in DOMAIN catalog :
       call' = IF Unchanged(catalog[name], catalog[name].path) THEN [is |-> "prepared", name |-> name] ELSE NoFile
  /\ UNCHANGED <<disk, edits, setup, catalog, conflicts, loaded>>

\* Execute: the file is read again, and compared again.
LoadSkill ==
  /\ call # NoFile
  /\ LET skill == catalog[call.name] IN
       loaded' = IF Unchanged(skill, skill.path)
                 THEN loaded \cup {[name |-> call.name, text |-> disk[skill.path].text]} ELSE loaded
  /\ call' = NoFile
  /\ UNCHANGED <<disk, edits, setup, catalog, conflicts, reads>>

\* The user writes, removes or links a file.
EditFile ==
  /\ edits < MaxEdits /\ setup.at # "refused"
  /\ \E path \in Path, content \in Contents :
       /\ content # disk[path]
       /\ disk' = [disk EXCEPT ![path] = content]
  /\ edits' = edits + 1
  /\ UNCHANGED <<setup, catalog, conflicts, call, reads, loaded>>

SkillNext == DiscoverSkill \/ NextRoot \/ PrepareSkill \/ LoadSkill \/ EditFile

SkillSpec == SkillInit /\ [][SkillNext]_skillVars

-----------------------------------------------------------------------------
(***************************************************************************)
(* Properties.                                                               *)
(***************************************************************************)

\* However the files change while they are discovered and while the run goes
\* on: the text the model is given for a skill is the one whose description
\* it was told, declares the name that was asked for, and came from the root
\* that counts: a skill the project has taken from the user is the project's,
\* and the texts announced are no longer than the two limits allow.
SkillsAsAnnounced ==
  /\ \A l \in loaded :
       /\ l.name \in DOMAIN catalog /\ catalog[l.name].about = l.text.about
       /\ l.text.name = l.name /\ l.text.size <= MaxFileSize
  /\ \A n \in conflicts : n \in DOMAIN catalog /\ catalog[n].root = "project"
  /\ setup.at = "running" => Total([n \in DOMAIN catalog |-> catalog[n].text.size]) <= MaxTotalSize
=============================================================================
