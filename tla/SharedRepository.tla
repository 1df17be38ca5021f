-------------------------- MODULE SharedRepository --------------------------
(***************************************************************************)
(* The team's repository as a member sees it: what a commit of the default *)
(* branch says of each memory, and what validation makes of it             *)
(* (GitHubRepository.ts and the checks of GitHubTeamService.ts).           *)
(*                                                                         *)
(* The manifest lists each shared memory with a hash of its content, and a *)
(* file per memory holds the content.  A content is a version number, no   *)
(* version is used twice, and so a hash is the version it was taken of.    *)
(***************************************************************************)
EXTENDS Naturals, FiniteSets

CONSTANTS
  Memories,     \* memory ids
  MaxVersion    \* bound: contents ever written

ASSUME RepositoryAssumption == MaxVersion \in Nat /\ MaxVersion > 0

Versions == 1..MaxVersion
Absent == 0                 \* not in the manifest, or no such file
Twice == MaxVersion + 1     \* in the manifest more than once
Invalid == MaxVersion + 1   \* a file that validateMemoryFile quarantines

\* manifest: whether showRemoteFile finds a manifest, and a valid one; at: its
\* generatedAt, the number of the commit that wrote it.
Commit ==
  [ manifest : {"absent", "valid", "invalid"},
    at : Nat,
    decl : [Memories -> 0..MaxVersion + 1],
    file : [Memories -> 0..MaxVersion + 1] ]

\* Only project.json, as ensureDefaultBranch pushes it.
FirstCommit ==
  [ manifest |-> "absent",
    at |-> 1,
    decl |-> [m \in Memories |-> Absent],
    file |-> [m \in Memories |-> Absent] ]

Declared(c) == {m \in Memories : c.decl[m] # Absent}
DuplicateManifestIds(c) == {m \in Memories : c.decl[m] = Twice}

\* The file passes validateMemoryFile and has the hash of the manifest.
ValidMemory(c, m) == c.decl[m] \in Versions /\ c.file[m] = c.decl[m]

\* changedFiles and parseChangedFiles: the paths that differ.
ManifestChanged(from, to) ==
  from.manifest # to.manifest \/ from.at # to.at \/ from.decl # to.decl
ChangedMemories(from, to) == {m \in Memories : from.file[m] # to.file[m]}

\* What defaultBranchMemories accepts as the base of a proposal: it does not
\* read the file of the proposed memory itself.
UsableBase(c, m) ==
  \/ c.manifest = "absent"
  \/ /\ c.manifest = "valid"
     /\ DuplicateManifestIds(c) = {}
     /\ \A n \in Declared(c) \ {m} : ValidMemory(c, n)

\* writeProposalFiles, merged: an upsert writes m and drops the memories it
\* replaces, a removal drops m and nothing else.
Merged(c, m, change, at) ==
  LET gone == IF change.op = "remove" THEN {m} ELSE change.removals
      put(f) == [n \in Memories |->
                   IF n \in gone THEN Absent
                   ELSE IF n = m THEN change.ver ELSE f[n]]
  IN  [manifest |-> "valid", at |-> at, decl |-> put(c.decl), file |-> put(c.file)]
=============================================================================
