---------------------------- MODULE HookInstaller ----------------------------
(***************************************************************************)
(* installHooks (adapter-hooks/src/installer.ts), with which the adapters  *)
(* for Claude Code and Codex put their hooks into the user's settings and  *)
(* an instruction block into the user's instructions, and take them out    *)
(* again.  A record of what was there before makes that reversible.        *)
(*                                                                         *)
(* A run reads everything first and then changes one file after another;   *)
(* it can be interrupted between two changes.  The user edits the files    *)
(* between runs.  The content of a file is what the user wrote in it, our  *)
(* part, and its form: as the user wrote it, or as the installer did.      *)
(* Codex reads its instructions from an override when there is one.        *)
(***************************************************************************)
EXTENDS Naturals

CONSTANTS
  Names,       \* the instructions files: "main", for Codex "override" too
  Texts,       \* what a user may write
  Malformed,   \* those of them that the installer cannot parse
  Blank,       \* those of white space only: no settings, and no instructions
  Variants,    \* the hooks that can be asked for, the block of instructions
  MaxRuns, MaxEdits, MaxCrashes    \* bounds

ASSUME InstallerAssumption ==
  /\ "main" \in Names /\ Names \subseteq {"main", "override"}
  /\ Malformed \subseteq Texts /\ Blank \subseteq Texts
  /\ "nothing" \notin Texts /\ "none" \notin Variants
  /\ MaxRuns \in Nat /\ MaxEdits \in Nat /\ MaxCrashes \in Nat

VARIABLES
  files,     \* settings and instructions
  capture,   \* openmembrane-capture.mjs is there
  state,     \* openmembrane-adapter-state.json
  pc, run,   \* the run under way: its next change, what it read and will write
  mine,      \* history: what the user last wrote in each file
  clean,     \* history: what each file has to be once we are gone
  smooth,    \* history: no run of this installation was interrupted
  runs, edits, crashes    \* counted for the bounds

history == <<mine, clean, smooth>>
counts == <<runs, edits, crashes>>
installerVars == <<files, capture, state, pc, run, history, counts>>

Files == {"settings"} \cup Names
Parts == {"settings", "instructions"}

Contents == [ user  : Texts \cup {"nothing"},
              ours  : Variants \cup {"none"},
              form  : {"absent", "own", "written", "edited"} ]

Absent == [user |-> "nothing", ours |-> "none", form |-> "absent"]
Own(text) == [user |-> text, ours |-> "none", form |-> "own"]

\* In clean: a file the user edited after the installation.
Edited == [user |-> "nothing", ours |-> "none", form |-> "edited"]

NoState == [ name |-> "none",
             before |-> [p \in Parts |-> Absent],
             installed |-> [p \in Parts |-> Absent] ]

NoRun == [ ours |-> "none", name |-> "none",
           before |-> [p \in Parts |-> Absent],
           after |-> [p \in Parts |-> Absent],
           state |-> NoState ]

File(part, name) == IF part = "settings" THEN "settings" ELSE name

\* A user starts without the adapter.
InstallerInit ==
  /\ files \in [Files -> {Absent} \cup {Own(t) : t \in Texts}]
  /\ capture = FALSE /\ state = NoState
  /\ pc = "idle" /\ run = NoRun
  /\ mine = [f \in Files |-> files[f].user]
  /\ clean = files /\ smooth = TRUE
  /\ runs = 0 /\ edits = 0 /\ crashes = 0

-----------------------------------------------------------------------------
(* Contents *)

\* updateSettings: our handlers are replaced and the JSON is written anew.
UpdateSettings(content, ours) ==
  [user |-> content.user, ours |-> ours, form |-> "written"]

\* updateInstructions: a block that is there stays as it is, and a text without
\* one stays when there is nothing to remove.
UpdateInstructions(content, ours) ==
  IF (content.ours = "none") = (ours = "none") THEN content
  ELSE [user |-> content.user, ours |-> ours, form |-> "written"]

Update(part, content, ours) ==
  IF part = "settings" THEN UpdateSettings(content, ours)
                       ELSE UpdateInstructions(content, ours)

IsBlank(content) == content.ours = "none" /\ content.user \in Blank

\* Codex's installAdapter: where the instructions are to go, in an override if it
\* says anything.
Effective ==
  IF /\ "override" \in Names
     /\ ~IsBlank(files["override"])
     /\ files["override"].user # "nothing" \/ files["override"].ours # "none"
  THEN "override" ELSE "main"

-----------------------------------------------------------------------------
(* A run *)

\* Faulty variant: an uninstallation always puts the recorded content back.
AfterAlways(part, content, ours) ==
  IF ours = "none" THEN state.before[part] ELSE Update(part, content, ours)

\* What a run writes: an uninstallation puts the recorded content back unless
\* the file was edited.
After(part, content, ours) ==
  IF ours = "none" /\ content = state.installed[part]
  THEN state.before[part]
  ELSE Update(part, content, ours)

\* Faulty variant: what is recorded goes through the removal of our part once
\* more.
RecordedStripped(part, content) ==
  IF state = NoState THEN content
  ELSE IF content = Absent THEN Absent
  ELSE Update(part, content, "none")

\* What an installation records: the content before it, or before the
\* installations it repeats unless the file was edited since.
Recorded(part, content) ==
  IF state = NoState THEN content
  ELSE IF content = state.installed[part] THEN state.before[part]
  ELSE IF content = Absent THEN Absent
  ELSE Update(part, content, "none")

\* Faulty variant: the instructions are looked for where they would go now.
NameNow == Effective

Name == IF state = NoState THEN Effective ELSE state.name

\* installHooks up to its first change.  A run that throws changes nothing:
\* there is no adapter to remove, the effective instructions file is another
\* one than recorded, a capture script without a record is in the way, or a
\* file cannot be parsed.
Start(ours) ==
  LET name == Name
      before == [p \in Parts |-> files[File(p, name)]]
      after == [p \in Parts |-> After(p, before[p], ours)]
  IN
  /\ pc = "idle" /\ runs < MaxRuns
  /\ IF ours = "none" THEN state # NoState
     ELSE IF state = NoState THEN ~capture ELSE Effective = name
  /\ \A p \in Parts : before[p].user \notin Malformed
  /\ ~IsBlank(before["settings"])
  /\ run' = [ ours |-> ours, name |-> name, before |-> before, after |-> after,
              state |-> [ name |-> name,
                          before |-> [p \in Parts |-> Recorded(p, before[p])],
                          installed |-> after ] ]
  /\ pc' = IF ours = "none" THEN "settings" ELSE "copy"
  /\ runs' = runs + 1
  /\ UNCHANGED <<files, capture, state, history, edits, crashes>>

CopyCapture ==
  /\ pc = "copy"
  /\ capture' = TRUE /\ pc' = "record"
  /\ UNCHANGED <<files, state, run, history, counts>>

WriteState ==
  /\ pc = "record"
  /\ state' = run.state /\ pc' = "settings"
  /\ UNCHANGED <<files, capture, run, history, counts>>

\* persist: an uninstallation does not bring a deleted file back.
Persist(part) ==
  files' = IF run.ours = "none" /\ run.before[part] = Absent THEN files
           ELSE [files EXCEPT ![File(part, run.name)] = run.after[part]]

PersistSettings ==
  /\ pc = "settings"
  /\ Persist("settings")
  /\ pc' = "instructions"
  /\ UNCHANGED <<capture, state, run, history, counts>>

PersistInstructions ==
  /\ pc = "instructions"
  /\ Persist("instructions")
  /\ pc' = IF run.ours = "none" THEN "unlink" ELSE "idle"
  /\ run' = IF run.ours = "none" THEN run ELSE NoRun
  /\ UNCHANGED <<capture, state, history, counts>>

RemoveCapture ==
  /\ pc = "unlink"
  /\ capture' = FALSE /\ pc' = "forget"
  /\ UNCHANGED <<files, state, run, history, counts>>

\* The uninstallation is complete.
RemoveState ==
  /\ pc = "forget"
  /\ state' = NoState /\ pc' = "idle" /\ run' = NoRun
  /\ clean' = [f \in Files |-> IF clean[f] = Edited \/ ~smooth THEN files[f] ELSE clean[f]]
  /\ smooth' = TRUE
  /\ UNCHANGED <<files, capture, mine, counts>>

Crash ==
  /\ pc # "idle" /\ crashes < MaxCrashes
  /\ pc' = "idle" /\ run' = NoRun
  /\ smooth' = FALSE
  /\ crashes' = crashes + 1
  /\ UNCHANGED <<files, capture, state, mine, clean, runs, edits>>

\* The user deletes a file or writes in it, and keeps our part or not.
Writings(f) ==
  {Absent} \cup
  {[user |-> t, ours |-> o, form |-> "own"] : t \in Texts, o \in {files[f].ours, "none"}}

Edit(f) ==
  /\ pc = "idle" /\ edits < MaxEdits
  /\ \E c \in Writings(f) :
       /\ c # files[f]
       /\ files' = [files EXCEPT ![f] = c]
       /\ mine' = [mine EXCEPT ![f] = c.user]
       /\ clean' = [clean EXCEPT ![f] = IF state = NoState THEN c ELSE Edited]
  /\ edits' = edits + 1
  /\ UNCHANGED <<capture, state, pc, run, smooth, runs, crashes>>

InstallerNext ==
  \/ \E ours \in Variants \cup {"none"} : Start(ours)
  \/ CopyCapture \/ WriteState \/ PersistSettings \/ PersistInstructions
  \/ RemoveCapture \/ RemoveState
  \/ Crash
  \/ \E f \in Files : Edit(f)

InstallerSpec == InstallerInit /\ [][InstallerNext]_installerVars

-----------------------------------------------------------------------------
(* Properties *)

States == [name : Names \cup {"none"}, before : [Parts -> Contents], installed : [Parts -> Contents]]

\* The type invariant, and what is under way at each change.
InstallerTypeOK ==
  /\ files \in [Files -> Contents]
  /\ capture \in BOOLEAN
  /\ state \in States
  /\ pc \in {"idle", "copy", "record", "settings", "instructions", "unlink", "forget"}
  /\ run \in [ours : Variants \cup {"none"}, name : Names \cup {"none"},
              before : [Parts -> Contents], after : [Parts -> Contents], state : States]
  /\ mine \in [Files -> Texts \cup {"nothing"}]
  /\ clean \in [Files -> Contents]
  /\ smooth \in BOOLEAN
  /\ pc = "idle" <=> run = NoRun
  /\ pc \in {"copy", "record"} => run.ours # "none"
  /\ pc \in {"settings", "instructions"} => state # NoState
  /\ pc \in {"unlink", "forget"} => run.ours = "none" /\ state # NoState
  /\ runs \in 0..MaxRuns /\ edits \in 0..MaxEdits /\ crashes \in 0..MaxCrashes

\* At every moment each file holds what its user last wrote in it, after any
\* number of installations, interruptions and edits ("unrelated hooks and text
\* are retained", adapter-claude-code/README.md:62).
UserTextKept == \A f \in Files : files[f].user = mine[f]

\* Nothing of ours is in any file unless a record says how to remove it, also in
\* the middle of a run and after an interrupted one (installer.ts:76 and :98).
HooksOnRecord ==
  \A f \in Files : files[f].ours # "none" =>
    \E p \in Parts : f = File(p, state.name) /\ state.installed[p].ours # "none"

\* An installation that ended, and the uninstallation after it, leave each file
\* that was not edited byte for byte as it was, and remove those that were
\* created (adapter-claude-code/README.md:59).
RestoresBytes ==
  state = NoState /\ pc = "idle" /\ smooth =>
    ~capture /\ \A f \in Files : files[f] = clean[f]

\* Whatever was installed can be taken out: the types of the state, the record
\* and, at the end, the files as they were.
Reversible == InstallerTypeOK /\ HooksOnRecord /\ RestoresBytes

\* To install the same again over files that were not edited changes nothing
\* ("Repeated installs are idempotent", adapter-claude-code/README.md:59).
Unedited == \A p \in Parts : run.before[p] = state.installed[p]
Idempotent ==
  [][pc = "record" /\ state # NoState /\ Unedited
       => /\ state'.before = state.before
          /\ run.ours = state.installed["settings"].ours => state' = state]_installerVars
=============================================================================
