------------------------------ MODULE EditStep -------------------------------
(***************************************************************************)
(* One edit step after another on the files of a project: the snapshot,    *)
(* execute_patch, the syntax check, the tests and the rollback, as called  *)
(* by _edit_react (agent/execution/step_dispatcher.py, the handler of the  *)
(* tool "edit") and by run_edit_test_fix_loop (agent/runtime/              *)
(* execution_loop.py), which has the same skeleton and an optional sandbox.*)
(*                                                                         *)
(* execute_patch works in memory first, change by change, and writes only  *)
(* when every change has been made; the writes are not guarded.  The plan  *)
(* comes from a model and is arbitrary, and so are the verdicts of the     *)
(* syntax check and of the tests.                                          *)
(***************************************************************************)
EXTENDS EditPlans, FiniteSets

CONSTANTS
  Plans,         \* the plans the model can propose
  InitialDisks,  \* the files a project can have at first
  MaxFiles,      \* MAX_FILES_PER_EDIT
  Sandbox,       \* ENABLE_SANDBOX
  Faults,        \* can a write fail, and can a step be interrupted?
  MaxEdits       \* bound: edit steps

Content == [kind : {"text", "binary", "absent", "directory"},
            crlf : BOOLEAN,                 \* does it have CRLF line ends?
            text : Text \cup {NoText}]

\* The plan without changes is one of them.
ASSUME PlansAssumption == Plans \subseteq Seq(Change) /\ <<>> \in Plans
ASSUME DisksAssumption ==
  /\ InitialDisks \subseteq [Files -> Content]
  /\ \A d \in InitialDisks, f \in Files : d[f].kind = "text" <=> d[f].text # NoText
ASSUME SwitchesAssumption ==
  Sandbox \in BOOLEAN /\ Faults \in BOOLEAN /\ MaxFiles \in Nat /\ MaxEdits \in Nat

VARIABLES
  disk,         \* the files of the project
  copy,         \* the temporary copy, while a step works in the sandbox
  inCopy,       \* does it?
  phase,        \* "idle", "patch", "write", "check", "test", "restore"
  plan,         \* patch_plan["changes"]
  next,         \* the change, or the file to write, that is next
  originals,    \* originals of execute_patch: NoText for files not read
  patched,      \* patched_content: NoText for files not patched
  order,        \* the keys of patched_content, in the order of insertion
  snapshot,     \* _snapshot_files: NoText for None
  todo,         \* files _rollback_snapshot has still to restore
  result,       \* what the last step reported
  faulted,      \* observer: has a fault met this step?
  before,       \* observer: the files when the step began
  edits         \* edit steps begun

memory == <<originals, patched, order>>
vars == <<disk, copy, inCopy, phase, plan, next, memory, snapshot, todo,
          result, faulted, before, edits>>

NoResult == [status |-> "none", files |-> {}, sandboxed |-> FALSE, faulted |-> FALSE]
Nowhere == [f \in Files |-> [kind |-> "absent", crlf |-> FALSE, text |-> NoText]]
Nothing == [f \in Files |-> NoText]

\* _resolve_path leads to the project itself without a copy, and with one for an
\* absolute path or one that leaves the copy: nothing is checked.
OnHost(f) == ~inCopy \/ f \in Outside

\* The files the step works on: those of project_root or of the copy.
Work == [f \in Files |-> IF OnHost(f) THEN disk[f] ELSE copy[f]]
SetWork(w) ==
  /\ disk' = [f \in Files |-> IF OnHost(f) THEN w[f] ELSE disk[f]]
  /\ copy' = [f \in Files |-> IF OnHost(f) THEN copy[f] ELSE w[f]]

\* write_text of what read_text returned: "\r\n" was read as "\n".
Written(text) == [kind |-> "text", crlf |-> FALSE, text |-> text]

\* _snapshot_files: None for a file that does not exist, or cannot be decoded.
Snapshot(w, S) ==
  [f \in Files |-> IF f \in S /\ w[f].kind = "text" THEN w[f].text ELSE NoText]

Init ==
  /\ disk \in InitialDisks
  /\ copy = Nowhere /\ inCopy = FALSE
  /\ phase = "idle"
  /\ plan = <<>> /\ next = 1
  /\ originals = Nothing /\ patched = Nothing /\ order = <<>>
  /\ snapshot = Nothing /\ todo = {}
  /\ result = NoResult
  /\ faulted = FALSE /\ before = disk /\ edits = 0

------------------------------------------------------------------------------
\* The step begins: work root, plan, snapshot.

\* _run_in_sandbox; when the copy fails the step works on the project itself.
ChooseRoot ==
  \/ inCopy' = FALSE /\ UNCHANGED copy
  \/ Sandbox /\ inCopy' = TRUE /\ copy' = disk

Begin(p, ph) ==
  /\ phase = "idle" /\ edits < MaxEdits
  /\ edits' = edits + 1
  /\ phase' = ph /\ plan' = p /\ next' = 1
  /\ originals' = Nothing /\ patched' = Nothing /\ order' = <<>>
  /\ snapshot' = Snapshot(disk, Named(p))
  /\ todo' = {}
  /\ faulted' = FALSE /\ before' = disk
  /\ UNCHANGED <<disk, result>>

\* A plan with changes.  Only the loop has a sandbox: without one the two
\* callers do the same.
BeginEdit == \E p \in Plans : Len(p) > 0 /\ Begin(p, "patch") /\ ChooseRoot

\* Nothing to change: the loop runs the tests, _edit_react does so only if the
\* model says that the code is already correct.
BeginCheck == Begin(<<>>, "test") /\ ChooseRoot

\* The step ends; the copy is removed whatever happened.
End(status, reported, fault) ==
  /\ phase' = "idle"
  /\ result' = [status |-> status, files |-> reported,
                sandboxed |-> inCopy, faulted |-> fault]
  /\ inCopy' = FALSE /\ copy' = Nowhere
  /\ faulted' = fault
  /\ UNCHANGED <<plan, next, memory, snapshot, todo, before, edits>>

\* _edit_react without changes.
NothingPlanned ==
  /\ phase = "idle" /\ edits < MaxEdits
  /\ edits' = edits + 1
  /\ result' = [NoResult EXCEPT !.status = "failed"]
  /\ before' = disk /\ plan' = <<>>
  /\ faulted' = FALSE
  /\ UNCHANGED <<disk, copy, inCopy, phase, next, memory, snapshot, todo>>

------------------------------------------------------------------------------
\* execute_patch, in memory.

TooLarge == \/ Cardinality(Named(plan)) > MaxFiles
            \/ \E i \in DOMAIN plan : plan[i].patch = "oversize"

PatchFails ==
  /\ phase' = "restore" /\ todo' = Named(plan)
  /\ UNCHANGED <<inCopy, plan, next, memory, snapshot, result, faulted, before, edits>>

RejectPlan ==
  /\ phase = "patch" /\ next = 1 /\ TooLarge
  /\ PatchFails
  /\ UNCHANGED <<disk, copy>>

\* The change that is to be made next.
AtChange == phase = "patch" /\ ~TooLarge /\ next <= Len(plan)

\* The containment of paths is left to _resolve_path of the loop, which checks none.
RefusedUnread_Uncontained(c) ==
  \/ c.file \in Refused
  \/ c.patch = "invalid"
  \/ Work[c.file].kind \in {"absent", "directory"}
\* Forbidden path, path outside the project or its copy, preflight, no file, a
\* directory.
RefusedUnread(c) ==
  \/ c.file \in Refused
  \/ inCopy /\ c.file \in Outside
  \/ c.patch = "invalid"
  \/ Work[c.file].kind \in {"absent", "directory"}

SkipChange ==
  /\ AtChange
  /\ ~RefusedUnread(plan[next]) /\ PassedOver(plan[next])
  /\ next' = next + 1
  /\ UNCHANGED <<disk, copy, inCopy, phase, plan, memory, snapshot, todo,
                 result, faulted, before, edits>>

Source_Original(c) ==
  IF originals[c.file] = NoText THEN Work[c.file].text ELSE originals[c.file]

\* The text a change is made to: what the changes before it have made of the
\* file.  text_sub takes patched_content.get(path) or originals[path], and an
\* empty text is false.
Source(c) ==
  IF patched[c.file] = NoText THEN Work[c.file].text
  ELSE IF patched[c.file] = Empty /\ c.patch # "node" THEN originals[c.file]
  ELSE patched[c.file]

\* The file is read: its text is remembered in originals.
Read(c) == [originals EXCEPT ![c.file] = IF @ = NoText THEN Work[c.file].text ELSE @]

\* A snippet that is not there, or a result that equals the source or does not
\* parse.
NotEffective(c) ==
  \/ c.patch = "miss"
  \/ c.patch = "broken" /\ c.file \in Python
  \/ c.patch # "node" /\ Source(c) = Empty

Readable(c) ==
  ~RefusedUnread(c) /\ ~PassedOver(c) /\ Work[c.file].kind = "text"

RefuseChange ==
  /\ AtChange
  /\ LET c == plan[next]
     IN  RefusedUnread(c) \/ (Readable(c) /\ c.patch # "raise" /\ NotEffective(c))
  /\ PatchFails
  /\ UNCHANGED <<disk, copy>>

\* An undecodable file or an edit of the tree that raises, or that fails
\* validate_patch: what was read so far is written back.
ChangeRaises ==
  /\ AtChange
  /\ LET c == plan[next]
         read == IF Readable(c) THEN Read(c) ELSE originals
     IN  /\ ~RefusedUnread(c) /\ ~PassedOver(c)
         /\ Work[c.file].kind = "binary" \/ c.patch = "raise"
         /\ SetWork([f \in Files |-> IF read[f] = NoText THEN Work[f] ELSE Written(read[f])])
  /\ PatchFails

OrderWith_Always(f) == Append(order, f)
OrderWith(f) == IF patched[f] = NoText THEN Append(order, f) ELSE order

MakeChange ==
  /\ AtChange
  /\ LET c == plan[next]
     IN  /\ Readable(c) /\ c.patch # "raise" /\ ~NotEffective(c)
         /\ originals' = Read(c)
         /\ patched' = [patched EXCEPT ![c.file] = Effect(c.patch, Source(c), next + 1)]
         /\ order' = OrderWith(c.file)
  /\ next' = next + 1
  /\ UNCHANGED <<disk, copy, inCopy, phase, plan, snapshot, todo, result,
                 faulted, before, edits>>

BeginWriting ==
  /\ phase = "patch" /\ ~TooLarge /\ next > Len(plan)
  /\ phase' = "write" /\ next' = 1
  /\ UNCHANGED <<disk, copy, inCopy, plan, memory, snapshot, todo, result,
                 faulted, before, edits>>

------------------------------------------------------------------------------
\* execute_patch, writing: no handler around the loop.

WriteFile ==
  /\ phase = "write" /\ next <= Len(order)
  /\ SetWork([Work EXCEPT ![order[next]] = Written(patched[order[next]])])
  /\ next' = next + 1
  /\ UNCHANGED <<inCopy, phase, plan, memory, snapshot, todo, result, faulted,
                 before, edits>>

\* The file cannot be opened, or it can and was truncated: the text cannot be
\* encoded, the disk is full.  The exception leaves the step.
WriteFails ==
  /\ Faults
  /\ phase = "write" /\ next <= Len(order)
  /\ disk' \in IF inCopy THEN {disk}
               ELSE {disk, [disk EXCEPT ![order[next]] = Written(Empty)]}
  /\ End("raised", {}, TRUE)

\* files_modified are the keys of patched_content.
AllWritten ==
  /\ phase = "write" /\ next > Len(order)
  /\ phase' = "check"
  /\ UNCHANGED <<disk, copy, inCopy, plan, next, memory, snapshot, todo, result,
                 faulted, before, edits>>

------------------------------------------------------------------------------
\* The step goes on: syntax, tests, rollback.

\* validate_project: py_compile or a build, invalid also when it times out.
CheckSyntax ==
  /\ phase = "check"
  /\ \/ phase' = "test" /\ UNCHANGED todo
     \/ phase' = "restore" /\ todo' = Named(plan)
  /\ UNCHANGED <<disk, copy, inCopy, plan, next, memory, snapshot, result,
                 faulted, before, edits>>

\* run_tests: what the test command says, the fallback when there are no tests,
\* or a failure that a second run shows to be flaky.
TestsPass(verdict, second) ==
  \/ verdict = "passed"
  \/ verdict \in {"none_ran", "failed"} /\ second

RunTests ==
  /\ phase = "test"
  /\ \E verdict \in {"passed", "failed", "none_ran", "timeout"}, second \in BOOLEAN :
       \/ /\ TestsPass(verdict, second)
          /\ End("ok", {order[i] : i \in DOMAIN order}, FALSE)
       \/ /\ ~TestsPass(verdict, second)
          /\ phase' = "restore" /\ todo' = Named(plan)
          /\ UNCHANGED <<copy, inCopy, plan, next, memory, snapshot, result,
                         faulted, before, edits>>
  /\ UNCHANGED disk

StillToRestore_KeepsDeleted(f) == IF snapshot[f] = NoText THEN todo ELSE todo \ {f}
StillToRestore(f) == todo \ {f}

\* _rollback_snapshot, one file: None deletes it, and a directory cannot be
\* deleted that way.
Restored(c, text) ==
  IF text # NoText THEN Written(text)
  ELSE IF c.kind = "directory" THEN c
  ELSE [kind |-> "absent", crlf |-> FALSE, text |-> NoText]

RestoreFile ==
  /\ phase = "restore"
  /\ \E f \in todo :
       /\ SetWork([Work EXCEPT ![f] = Restored(@, snapshot[f])])
       /\ todo' = StillToRestore(f)
  /\ UNCHANGED <<inCopy, phase, plan, next, memory, snapshot, result, faulted,
                 before, edits>>

\* An OSError is logged, and the next file is restored.
RestoreFails ==
  /\ Faults
  /\ phase = "restore"
  /\ \E f \in todo :
       /\ SetWork(Work) \/ (Work[f].kind = "text" /\ SetWork([Work EXCEPT ![f] = Written(Empty)]))
       /\ todo' = StillToRestore(f)
  /\ faulted' = TRUE
  /\ UNCHANGED <<inCopy, phase, plan, next, memory, snapshot, result, before, edits>>

RestoreDone ==
  /\ phase = "restore" /\ todo = {}
  /\ End("failed", {}, faulted)
  /\ UNCHANGED disk

\* Ctrl-C: KeyboardInterrupt is no Exception, no handler of the step sees it.
Interrupt ==
  /\ Faults
  /\ phase # "idle"
  /\ End("raised", {}, TRUE)
  /\ UNCHANGED disk

StepAction ==
  \/ RejectPlan \/ SkipChange \/ RefuseChange \/ ChangeRaises \/ MakeChange
  \/ BeginWriting \/ WriteFile \/ WriteFails \/ AllWritten
  \/ CheckSyntax \/ RunTests
  \/ RestoreFile \/ RestoreFails \/ RestoreDone

Next == BeginEdit \/ BeginCheck \/ NothingPlanned \/ StepAction \/ Interrupt

\* Weak fairness of the step itself: a Python function keeps running, its
\* subprocesses have timeouts.  Nothing obliges anyone to edit.
Spec == Init /\ [][Next]_vars /\ WF_vars(StepAction)

------------------------------------------------------------------------------
\* Properties.

\* Every variable has its type.  A file is listed once in order, and exactly
\* the listed files have been patched, from a text that was read.
TypeOK ==
  /\ disk \in [Files -> Content] /\ copy \in [Files -> Content]
  /\ inCopy \in BOOLEAN
  /\ phase \in {"idle", "patch", "write", "check", "test", "restore"}
  /\ plan \in Seq(Change) /\ next \in Nat \ {0}
  /\ originals \in [Files -> Text \cup {NoText}]
  /\ patched \in [Files -> Text \cup {NoText}]
  /\ order \in Seq(Files)
  /\ \A i, j \in DOMAIN order : order[i] = order[j] => i = j
  /\ {order[i] : i \in DOMAIN order} = {f \in Files : patched[f] # NoText}
  /\ \A f \in Files : patched[f] # NoText => originals[f] # NoText
  /\ snapshot \in [Files -> Text \cup {NoText}]
  /\ todo \in SUBSET Files
  /\ faulted \in BOOLEAN /\ before \in [Files -> Content] /\ edits \in Nat

\* While a step works in the sandbox the files of the project change in one place
\* only: patches, and rewrites of what was read, go to the copy (execute_patch
\* refuses a path outside it), but the rollback of a plan that names a path outside
\* the copy follows it there.
SandboxIsolation ==
  [][inCopy => \A f \in Files :
       disk'[f] = disk[f] \/ (phase = "restore" /\ f \in Named(plan) \cap Outside)]_vars

\* Every step ends: the rollback goes through its files once, whatever fails.
EditEnds == phase # "idle" ~> phase = "idle"

\* All or nothing.  While a step runs the project counts as it was before.
SeenAs(d) == [f \in Files |-> [kind |-> d[f].kind, text |-> d[f].text]]
Promise == INSTANCE AtomicEdit
             WITH files <- SeenAs(IF phase = "idle" THEN disk ELSE before), last <- result
ImplementsAtomicEdit == Promise!Spec

------------------------------------------------------------------------------
\* What the documentation says of the program and the code does not keep.

\* "Restore files from snapshot. None = delete file (was new)": when a step has
\* failed without any fault, every file is there as it was.
FailedEditRestores ==
  phase = "idle" /\ result.status = "failed" /\ ~result.faulted => disk = before

\* "copy project to temp dir for patch + tests; no host filesystem modification":
\* a step in the sandbox leaves the project as it is.
NoHostModification == [][inCopy => disk' = disk]_vars
==============================================================================
