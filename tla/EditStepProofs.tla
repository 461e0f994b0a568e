---------------------------- MODULE EditStepProofs ----------------------------
(* What an edit step promises for all plans and files, with and without the   *)
(* sandbox, whatever fails.  A first invariant says that a step that goes     *)
(* wrong does no harm; a second one, that what has been made of the files is  *)
(* what the plan says, change by change.  Together they give the refinement   *)
(* of AtomicEdit: all of the changes or none.                                 *)
EXTENDS EditStep, FiniteSetTheorems, TLAPS

\* A step that failed without a fault leaves every file of the project with the
\* content it had, but for the undecodable files it names, which it may delete.
Unharmed(f) ==
  \/ disk[f].kind = before[f].kind /\ disk[f].text = before[f].text
  \/ f \in Named(plan) /\ before[f].kind = "binary" /\ disk[f].kind = "absent"
FailedEditHarmless ==
  phase = "idle" /\ result.status = "failed" /\ ~result.faulted =>
    \A f \in Files : Unharmed(f)

\* Only the files that the plan names can differ from what they were.
OnlyNamedFiles == \A f \in Files \ Named(plan) : disk[f] = before[f]

------------------------------------------------------------------------------
\* The inductive invariant.

\* A file has a text exactly if it is a text file.
Sane(d) == \A f \in Files : d[f].kind = "text" <=> d[f].text # NoText

\* What was read of the project is the text a file had; only text files are read.
ReadTrue ==
  phase = "patch" /\ ~inCopy =>
    /\ disk = before
    /\ \A f \in Files : originals[f] # NoText =>
         f \in Named(plan) /\ before[f].kind = "text" /\ originals[f] = before[f].text

\* Only text files are written.
WritesText ==
  ~inCopy =>
    /\ phase = "write" => \A i \in DOMAIN order : /\ order[i] \in Named(plan)
                                                  /\ before[order[i]].kind = "text"
    /\ phase \in {"write", "check", "test"} =>
         \A f \in Files : before[f].kind # "text" => disk[f] = before[f]

\* What the rollback has put back so far, and what it has deleted.
RestoredFile(f) ==
  /\ before[f].kind = "text" /\ f \in Named(plan) \ todo /\ ~faulted =>
       disk[f] = Written(before[f].text)
  /\ before[f].kind # "text" =>
       \/ disk[f] = before[f]
       \/ /\ f \in Named(plan) \ todo /\ before[f].kind # "directory"
          /\ disk[f].kind = "absent"

SnapshotTrue ==
  /\ phase # "idle" => snapshot = Snapshot(before, Named(plan))
  /\ phase \in {"patch", "write", "check", "test"} => ~faulted
  /\ phase = "restore" => todo \subseteq Named(plan)
  /\ phase = "restore" => \A f \in Files : OnHost(f) => RestoredFile(f)

\* In the sandbox nothing outside the copy is read by the patch, and before the
\* rollback nothing of the project has changed.
SandboxTrue ==
  inCopy => /\ phase # "restore" => disk = before
            /\ \A f \in Files : OnHost(f) \/ disk[f] = before[f]
            /\ \A f \in Outside : originals[f] = NoText

EInv ==
  /\ TypeOK
  /\ Sane(disk) /\ Sane(copy) /\ Sane(before)
  /\ SandboxTrue /\ ReadTrue /\ WritesText /\ SnapshotTrue
  /\ OnlyNamedFiles /\ FailedEditHarmless

\* The type invariant in parts.
FileTypes == /\ disk \in [Files -> Content] /\ copy \in [Files -> Content]
             /\ before \in [Files -> Content]
ControlTypes == /\ inCopy \in BOOLEAN /\ faulted \in BOOLEAN
                /\ phase \in {"idle", "patch", "write", "check", "test", "restore"}
PlanTypes == plan \in Seq(Change) /\ next \in Nat \ {0} /\ edits \in Nat
MemoryOK == /\ originals \in [Files -> Text \cup {NoText}]
            /\ patched \in [Files -> Text \cup {NoText}]
            /\ order \in Seq(Files)
            /\ \A i, j \in DOMAIN order : order[i] = order[j] => i = j
            /\ {order[i] : i \in DOMAIN order} = {f \in Files : patched[f] # NoText}
            /\ \A f \in Files : patched[f] # NoText => originals[f] # NoText
RestoreTypes == snapshot \in [Files -> Text \cup {NoText}] /\ todo \in SUBSET Files

LEMMA TypeParts ==
  TypeOK <=> FileTypes /\ ControlTypes /\ PlanTypes /\ MemoryOK /\ RestoreTypes
  BY Zenon DEF TypeOK, FileTypes, ControlTypes, PlanTypes, MemoryOK, RestoreTypes

LEMMA TypeJoin ==
  ASSUME FileTypes', ControlTypes', PlanTypes', MemoryOK', RestoreTypes'
  PROVE  TypeOK'
  BY Zenon DEF TypeOK, FileTypes, ControlTypes, PlanTypes, MemoryOK, RestoreTypes

\* NoText, which stands for None, is not a text.
LEMMA NoTextIsNoText == NoText \notin Text
  <1>1. NoText = <<0>> /\ NoText[1] = 0 /\ 1 \in DOMAIN NoText
    BY DEF NoText
  <1>2. ASSUME NoText \in Text PROVE NoText[1] \in Mark
    BY <1>1, <1>2 DEF Text
  <1> QED
    BY <1>1, <1>2 DEF Mark

\* Changing the files that the step works on, by contents that make sense, is
\* changing the project or the copy.
LEMMA SetWorkKeeps ==
  ASSUME EInv, NEW w \in [Files -> Content], Sane(w), SetWork(w)
  PROVE  /\ disk' \in [Files -> Content] /\ copy' \in [Files -> Content]
         /\ Sane(disk)' /\ Sane(copy)'
         /\ \A f \in Files : disk'[f] = IF OnHost(f) THEN w[f] ELSE disk[f]
         /\ ~inCopy => disk' = w
  <1>1. /\ disk \in [Files -> Content] /\ copy \in [Files -> Content] /\ Sane(disk) /\ Sane(copy)
        /\ disk' = [f \in Files |-> IF OnHost(f) THEN w[f] ELSE disk[f]]
        /\ copy' = [f \in Files |-> IF OnHost(f) THEN copy[f] ELSE w[f]]
    BY DEF EInv, TypeOK, SetWork
  <1>2. ~inCopy => disk' = w
    BY <1>1 DEF OnHost
  <1> QED
    BY <1>1, <1>2 DEF Sane

LEMMA WorkSane ==
  ASSUME EInv
  PROVE  /\ Work \in [Files -> Content] /\ Sane(Work) /\ (~inCopy => Work = disk)
         /\ \A f \in Files : OnHost(f) => Work[f] = disk[f]
  <1>1. /\ disk \in [Files -> Content] /\ copy \in [Files -> Content] /\ Sane(disk) /\ Sane(copy)
        /\ Work = [f \in Files |-> IF OnHost(f) THEN disk[f] ELSE copy[f]]
    BY DEF EInv, TypeOK, Work
  <1>2. ~inCopy => Work = disk
    BY <1>1 DEF OnHost
  <1> QED
    BY <1>1, <1>2 DEF Sane

LEMMA WrittenContent ==
  ASSUME NEW text \in Text
  PROVE  Written(text) \in Content /\ Written(text).kind = "text" /\ Written(text).text = text
         /\ text # NoText
  BY NoTextIsNoText DEF Written, Content

LEMMA InitEInv == Init => EInv
  <1> SUFFICES ASSUME Init PROVE EInv
    OBVIOUS
  <1>1. disk \in [Files -> Content] /\ Sane(disk) /\ before = disk
    BY DisksAssumption DEF Init, Sane
  <1>2. copy \in [Files -> Content] /\ Sane(copy)
    BY DEF Init, Nowhere, Content, Sane
  <1>3. /\ originals \in [Files -> Text \cup {NoText}] /\ patched = originals /\ snapshot = originals
        /\ \A f \in Files : originals[f] = NoText
    BY DEF Init, Nothing
  <1>4. order \in Seq(Files) /\ plan \in Seq(Change) /\ DOMAIN order = {} /\ DOMAIN plan = {}
    BY DEF Init
  <1>5. TypeOK
    <2>1. /\ \A i, j \in DOMAIN order : order[i] = order[j] => i = j
          /\ {order[i] : i \in DOMAIN order} = {f \in Files : patched[f] # NoText}
      BY <1>3, <1>4
    <2>2. phase = "idle" /\ inCopy = FALSE /\ next = 1 /\ todo = {} /\ faulted = FALSE /\ edits = 0
      BY DEF Init
    <2>3. FileTypes
      BY <1>1, <1>2 DEF FileTypes
    <2>4. ControlTypes /\ PlanTypes
      <3>1. ControlTypes
        BY <2>2 DEF ControlTypes
      <3>2. PlanTypes
        BY <1>4, <2>2 DEF PlanTypes
      <3> QED
        BY <3>1, <3>2
    <2>5. MemoryOK
      BY <1>3, <1>4, <2>1 DEF MemoryOK
    <2>6. RestoreTypes
      BY <1>3, <2>2 DEF RestoreTypes
    <2> QED
      BY <2>3, <2>4, <2>5, <2>6, TypeParts
  <1>6. phase = "idle" /\ inCopy = FALSE /\ result.status # "failed"
    BY DEF Init, NoResult
  <1> QED
    BY <1>1, <1>2, <1>5, <1>6
    DEF EInv, SandboxTrue, ReadTrue, WritesText, SnapshotTrue, OnlyNamedFiles, FailedEditHarmless

------------------------------------------------------------------------------
\* The beginning of a step.

LEMMA SnapshotTyped ==
  ASSUME EInv, NEW S
  PROVE  Snapshot(disk, S) \in [Files -> Text \cup {NoText}]
  BY DEF EInv, TypeOK, Snapshot, Content

LEMMA BeginKeeps ==
  ASSUME EInv, NEW p \in Seq(Change), NEW ph \in {"patch", "test"}, Begin(p, ph), ChooseRoot
  PROVE  EInv'
  <1> USE DEF EInv, Begin
  <1>1. /\ plan' = p /\ disk' = disk /\ before' = disk /\ faulted' = FALSE /\ phase' = ph
        /\ copy' \in {copy, disk} /\ inCopy' \in BOOLEAN
    BY DEF ChooseRoot
  <1>2. Nothing \in [Files -> Text \cup {NoText}] /\ \A f \in Files : Nothing[f] = NoText
    BY DEF Nothing
  <1>3. TypeOK'
    <2> USE TypeParts
    <2>1. RestoreTypes'
      BY SnapshotTyped DEF RestoreTypes
    <2>2. order' \in Seq(Files) /\ DOMAIN order' = {}
      OBVIOUS
    <2>3. /\ \A i, j \in DOMAIN order' : order'[i] = order'[j] => i = j
          /\ {order'[i] : i \in DOMAIN order'} = {f \in Files : patched'[f] # NoText}
      BY <1>2, <2>2
    <2>4. MemoryOK'
      BY <1>2, <2>2, <2>3 DEF MemoryOK
    <2>5. FileTypes'
      BY <1>1 DEF FileTypes
    <2>6. ControlTypes' /\ PlanTypes'
      <3>1. ControlTypes'
        BY <1>1 DEF ControlTypes
      <3>2. PlanTypes'
        BY <1>1 DEF PlanTypes
      <3> QED
        BY <3>1, <3>2
    <2> QED
      BY <2>1, <2>4, <2>5, <2>6, TypeJoin
  <1>4. Sane(disk)' /\ Sane(copy)' /\ Sane(before)'
    BY <1>1 DEF Sane
  <1>5. ReadTrue' /\ WritesText' /\ SnapshotTrue'
    BY <1>1, <1>2 DEF ReadTrue, WritesText, SnapshotTrue
  <1>6. SandboxTrue'
    BY <1>1, <1>2, FilesAssumption DEF SandboxTrue
  <1> QED
    BY <1>1, <1>3, <1>4, <1>5, <1>6 DEF OnlyNamedFiles, FailedEditHarmless

LEMMA StartKeeps ==
  ASSUME EInv, BeginEdit \/ BeginCheck \/ NothingPlanned
  PROVE  EInv'
  <1>1. CASE BeginEdit
    BY <1>1, BeginKeeps, PlansAssumption DEF BeginEdit
  <1>2. CASE BeginCheck
    <2>1. <<>> \in Seq(Change)
      OBVIOUS
    <2> QED
      BY <1>2, <2>1, BeginKeeps DEF BeginCheck
  <1>3. CASE NothingPlanned
    <2> USE DEF EInv
    <2>1. /\ phase = "idle" /\ phase' = "idle" /\ disk' = disk /\ before' = disk /\ copy' = copy
          /\ inCopy' = inCopy /\ plan' = <<>> /\ faulted' = FALSE
          /\ UNCHANGED <<next, originals, patched, order, snapshot, todo>>
          /\ edits' = edits + 1
      BY <1>3 DEF NothingPlanned, memory
    <2>2. TypeOK'
      <3> USE TypeParts
      <3>1. FileTypes' /\ RestoreTypes' /\ ControlTypes'
        BY <2>1 DEF FileTypes, RestoreTypes, ControlTypes
      <3>2. MemoryOK'
        BY <2>1 DEF MemoryOK
      <3>3. PlanTypes'
        BY <2>1 DEF PlanTypes
      <3> QED
        BY <3>1, <3>2, <3>3, TypeJoin
    <2> QED
      BY <2>1, <2>2 DEF Sane, SandboxTrue, OnHost, ReadTrue, WritesText, SnapshotTrue,
                        OnlyNamedFiles, FailedEditHarmless, Unharmed
  <1> QED
    BY <1>1, <1>2, <1>3

------------------------------------------------------------------------------
\* execute_patch.

LEMMA NamedAreFiles ==
  ASSUME EInv
  PROVE  Named(plan) \subseteq Files
  <1>1. \A i \in DOMAIN plan : plan[i] \in Change
    BY DEF EInv, TypeOK
  <1>2. \A i \in DOMAIN plan : plan[i].file \in Files
    BY <1>1 DEF Change
  <1> QED
    BY <1>2 DEF Named

\* The steps that touch no file and remember nothing.
LEMMA QuietKeeps ==
  ASSUME EInv, UNCHANGED <<disk, copy, inCopy, plan, originals, patched, order, snapshot, result,
                           faulted, before, edits>>,
         next' \in {1, next, next + 1},
         \/ phase = "patch" /\ phase' \in {"patch", "write"} /\ todo' = todo
         \/ phase = "write" /\ phase' = "check" /\ todo' = todo
         \/ phase = "check" /\ phase' = "test" /\ todo' = todo
         \/ phase \in {"patch", "check", "test"} /\ phase' = "restore" /\ todo' = Named(plan)
  PROVE  EInv'
  <1> USE DEF EInv
  <1>1. \A i \in DOMAIN order : order[i] \in Files /\ originals[order[i]] # NoText
    <2>1. /\ {order[i] : i \in DOMAIN order} = {f \in Files : patched[f] # NoText}
          /\ \A f \in Files : patched[f] # NoText => originals[f] # NoText
      BY DEF TypeOK
    <2> QED
      BY <2>1
  <1>2. TypeOK'
    <2> USE TypeParts
    <2>1. FileTypes' /\ MemoryOK'
      BY DEF FileTypes, MemoryOK
    <2>2. ControlTypes'
      BY DEF ControlTypes
    <2>3. PlanTypes'
      BY DEF PlanTypes
    <2>4. RestoreTypes'
      <3>1. Named(plan) \subseteq Files
        BY NamedAreFiles
      <3> QED
        BY <3>1 DEF RestoreTypes
    <2> QED
      BY <2>1, <2>2, <2>3, <2>4, TypeJoin
  <1>3. ReadTrue'
    BY DEF ReadTrue
  <1>4. WritesText'
    BY <1>1 DEF ReadTrue, WritesText
  <1>5. SnapshotTrue'
    <2>1. phase # "restore"
      OBVIOUS
    <2>2. phase' = "restore" => \A f \in Files : before[f].kind # "text" => disk[f] = before[f]
      BY <2>1 DEF SandboxTrue, ReadTrue, WritesText
    <2> QED
      BY <2>1, <2>2 DEF SnapshotTrue, RestoredFile
  <1>6. SandboxTrue'
    BY DEF SandboxTrue, OnHost
  <1> QED
    BY <1>2, <1>3, <1>4, <1>5, <1>6 DEF Sane, OnlyNamedFiles, FailedEditHarmless

LEMMA QuietSteps ==
  ASSUME EInv,
         \/ RejectPlan \/ SkipChange \/ RefuseChange \/ BeginWriting \/ AllWritten \/ CheckSyntax
         \/ RunTests /\ phase' = "restore"
  PROVE  EInv'
  <1>1. CASE RunTests /\ phase' = "restore"
    <2>1. /\ UNCHANGED <<disk, copy, inCopy, plan, originals, patched, order, snapshot, result,
                         faulted, before, edits, next>>
          /\ phase = "test" /\ todo' = Named(plan)
      BY <1>1 DEF RunTests, End, memory
    <2> QED
      BY <1>1, <2>1, QuietKeeps
  <1>2. CASE RejectPlan \/ RefuseChange
    BY <1>2, QuietKeeps DEF RejectPlan, RefuseChange, PatchFails, AtChange, memory
  <1>3. CASE SkipChange
    BY <1>3, QuietKeeps DEF SkipChange, AtChange, memory
  <1>4. CASE BeginWriting \/ AllWritten
    BY <1>4, QuietKeeps DEF BeginWriting, AllWritten, memory
  <1>5. CASE CheckSyntax
    BY <1>5, QuietKeeps DEF CheckSyntax, memory
  <1> QED
    BY <1>1, <1>2, <1>3, <1>4, <1>5

\* The change at hand is one of the plan.
LEMMA ChangeAtHand ==
  ASSUME EInv, AtChange
  PROVE  /\ phase = "patch" /\ plan[next] \in Change /\ plan[next].file \in Files
         /\ plan[next].file \in Named(plan) /\ next \in DOMAIN plan
  <1>1. plan \in Seq(Change) /\ next \in Nat \ {0} /\ next <= Len(plan) /\ phase = "patch"
    BY DEF EInv, TypeOK, AtChange
  <1>2. next \in DOMAIN plan /\ plan[next] \in Change
    BY <1>1
  <1> QED
    BY <1>1, <1>2 DEF Named, Change

\* What Read remembers is true.
LEMMA ReadKeeps ==
  ASSUME EInv, AtChange, Readable(plan[next]), NEW o, o = Read(plan[next])
  PROVE  /\ o \in [Files -> Text \cup {NoText}]
         /\ \A f \in Files : originals[f] # NoText => o[f] = originals[f]
         /\ o[plan[next].file] # NoText
         /\ inCopy => \A f \in Outside : o[f] = NoText
         /\ ~inCopy => \A f \in Files : o[f] # NoText =>
              f \in Named(plan) /\ before[f].kind = "text" /\ o[f] = before[f].text
  <1> DEFINE g == plan[next].file
  <1>1. g \in Files /\ g \in Named(plan) /\ phase = "patch"
    BY ChangeAtHand
  <1>2. Work[g].kind = "text" /\ Work[g].text # NoText /\ Work[g].text \in Text
    BY <1>1, WorkSane DEF Readable, Sane, Content
  <1>3. originals \in [Files -> Text \cup {NoText}]
    BY DEF EInv, TypeOK
  <1>4. o = [originals EXCEPT ![g] = IF originals[g] = NoText THEN Work[g].text ELSE originals[g]]
    BY DEF Read
  <1> HIDE DEF g
  <1>5. \A f \in Files : o[f] = IF f = g /\ originals[g] = NoText THEN Work[g].text ELSE originals[f]
    BY <1>1, <1>3, <1>4
  <1>6. o \in [Files -> Text \cup {NoText}]
    BY <1>1, <1>2, <1>3, <1>4
  <1>7. ~inCopy => Work = before /\ \A f \in Files : originals[f] # NoText =>
          f \in Named(plan) /\ before[f].kind = "text" /\ originals[f] = before[f].text
    BY <1>1, WorkSane DEF EInv, ReadTrue
  <1>8. inCopy => g \notin Outside /\ \A f \in Outside : originals[f] = NoText
    BY DEF Readable, RefusedUnread, EInv, SandboxTrue, g
  <1> QED
    BY <1>1, <1>2, <1>5, <1>6, <1>7, <1>8, FilesAssumption DEF g

\* A change is made in memory.
LEMMA MakeKeeps ==
  ASSUME EInv, MakeChange
  PROVE  EInv'
  <1> DEFINE c == plan[next]
             g == plan[next].file
             t == Effect(c.patch, Source(c), next + 1)
  <1>1. /\ AtChange /\ Readable(c) /\ originals' = Read(c) /\ order' = OrderWith(g)
        /\ patched' = [patched EXCEPT ![g] = t] /\ next' = next + 1
        /\ UNCHANGED <<disk, copy, inCopy, phase, plan, snapshot, todo, result, faulted, before,
                       edits>>
    BY DEF MakeChange
  <1>2. g \in Files /\ g \in Named(plan) /\ phase = "patch"
    BY <1>1, ChangeAtHand
  <1>3. /\ originals' \in [Files -> Text \cup {NoText}]
        /\ \A f \in Files : originals[f] # NoText => originals'[f] = originals[f]
        /\ originals'[g] # NoText
        /\ inCopy => \A f \in Outside : originals'[f] = NoText
        /\ ~inCopy => \A f \in Files : originals'[f] # NoText =>
             f \in Named(plan) /\ before[f].kind = "text" /\ originals'[f] = before[f].text
    BY <1>1, ReadKeeps
  <1>4. /\ originals \in [Files -> Text \cup {NoText}] /\ patched \in [Files -> Text \cup {NoText}]
        /\ order \in Seq(Files) /\ \A i, j \in DOMAIN order : order[i] = order[j] => i = j
        /\ {order[i] : i \in DOMAIN order} = {f \in Files : patched[f] # NoText}
        /\ \A f \in Files : patched[f] # NoText => originals[f] # NoText
        /\ next \in Nat \ {0}
    BY DEF EInv, TypeOK
  <1>5. t \in Text /\ t # NoText
    <2>1. Work[g].text \in Text
      BY <1>1, <1>2, WorkSane, NoTextIsNoText DEF Readable, Sane, Content
    <2>2. Source(c) \in Text
      BY <1>2, <1>4, <2>1 DEF Source
    <2>3. t \in Text
      <3>1. Empty \in Text
        BY DEF Empty, Text
      <3>2. Append(Source(c), next + 1) \in Text
        BY <1>4, <2>2 DEF Text, Mark
      <3> QED
        BY <3>1, <3>2 DEF Effect
    <2> QED
      BY <2>3, NoTextIsNoText
  <1> HIDE DEF c, g, t
  <1>6. MemoryOK'
    <2>1. patched' \in [Files -> Text \cup {NoText}] /\ \A f \in Files : patched'[f] = IF f = g THEN t ELSE patched[f]
      BY <1>1, <1>2, <1>4, <1>5
    <2>2. \A f \in Files : patched'[f] # NoText => originals'[f] # NoText
      BY <1>3, <1>4, <2>1
    <2>3. /\ order' \in Seq(Files) /\ \A i, j \in DOMAIN order' : order'[i] = order'[j] => i = j
          /\ {order'[i] : i \in DOMAIN order'} = {order[i] : i \in DOMAIN order} \cup {g}
      <3>1. CASE patched[g] = NoText
        <4>1. order' = Append(order, g) /\ g \notin {order[i] : i \in DOMAIN order}
          BY <1>1, <1>4, <3>1 DEF OrderWith
        <4>2. /\ order' \in Seq(Files) /\ DOMAIN order' = 1 .. Len(order) + 1
              /\ DOMAIN order = 1 .. Len(order) /\ Len(order) \in Nat
              /\ order'[Len(order) + 1] = g /\ \A i \in DOMAIN order : order'[i] = order[i]
          BY <1>2, <1>4, <4>1
        <4>3. \A i, j \in DOMAIN order' : order'[i] = order'[j] => i = j
          BY <1>4, <4>1, <4>2
        <4>4. {order'[i] : i \in DOMAIN order'} = {order[i] : i \in DOMAIN order} \cup {g}
          BY <4>2
        <4> QED
          BY <4>2, <4>3, <4>4
      <3>2. CASE patched[g] # NoText
        BY <1>1, <1>2, <1>4, <3>2 DEF OrderWith
      <3> QED
        BY <3>1, <3>2
    <2>4. {order'[i] : i \in DOMAIN order'} = {f \in Files : patched'[f] # NoText}
      BY <1>2, <1>4, <1>5, <2>1, <2>3
    <2> QED
      BY <1>3, <2>1, <2>2, <2>3, <2>4 DEF MemoryOK
  <1>7. TypeOK'
    <2> USE TypeParts DEF EInv
    <2>1. FileTypes' /\ ControlTypes' /\ RestoreTypes'
      BY <1>1 DEF FileTypes, ControlTypes, RestoreTypes
    <2>2. PlanTypes'
      BY <1>1, <1>4 DEF PlanTypes
    <2> QED
      BY <1>6, <2>1, <2>2, TypeJoin
  <1>8. ReadTrue'
    BY <1>1, <1>2, <1>3 DEF EInv, ReadTrue
  <1>9. SandboxTrue'
    BY <1>1, <1>2, <1>3 DEF EInv, SandboxTrue, OnHost
  <1> QED
    BY <1>1, <1>2, <1>7, <1>8, <1>9
    DEF EInv, Sane, WritesText, SnapshotTrue, OnlyNamedFiles, FailedEditHarmless

\* The types when a step changes files and no memory of the patch.
LEMMA FilesTyped ==
  ASSUME EInv, disk' \in [Files -> Content], copy' \in [Files -> Content], before' = before,
         UNCHANGED <<inCopy, plan, originals, patched, order, snapshot, edits>>,
         phase' \in {"write", "restore"}, next' \in {next, next + 1}, todo' \in SUBSET Files,
         faulted' \in BOOLEAN
  PROVE  TypeOK'
  <1> USE TypeParts DEF EInv
  <1>1. FileTypes' /\ MemoryOK'
    BY DEF FileTypes, MemoryOK
  <1>2. ControlTypes' /\ RestoreTypes'
    BY DEF ControlTypes, RestoreTypes
  <1>3. PlanTypes'
    BY DEF PlanTypes
  <1> QED
    BY <1>1, <1>2, <1>3, TypeJoin

\* An exception in memory: what was read is written back, in the sandbox to the copy.
LEMMA RaiseKeeps ==
  ASSUME EInv, ChangeRaises
  PROVE  EInv' /\ (inCopy => \A f \in Files : disk'[f] = disk[f])
  <1> DEFINE c == plan[next]
             read == IF Readable(c) THEN Read(c) ELSE originals
             w == [f \in Files |-> IF read[f] = NoText THEN Work[f] ELSE Written(read[f])]
  <1>1. /\ AtChange /\ SetWork(w) /\ phase' = "restore" /\ todo' = Named(plan)
        /\ UNCHANGED <<inCopy, plan, next, originals, patched, order, snapshot, result, faulted,
                       before, edits>>
    BY DEF ChangeRaises, PatchFails, memory
  <1>2. /\ read \in [Files -> Text \cup {NoText}]
        /\ inCopy => \A f \in Outside : read[f] = NoText
        /\ ~inCopy => \A f \in Files : read[f] # NoText =>
             f \in Named(plan) /\ before[f].kind = "text" /\ read[f] = before[f].text
    <2>1. CASE Readable(c)
      BY <1>1, <2>1, ReadKeeps
    <2>2. CASE ~Readable(c)
      <3>1. phase = "patch"
        BY <1>1, ChangeAtHand
      <3> QED
        BY <2>2, <3>1 DEF EInv, TypeOK, ReadTrue, SandboxTrue
    <2> QED
      BY <2>1, <2>2
  <1> HIDE DEF c, read
  <1>3. w \in [Files -> Content] /\ Sane(w)
    <2>1. \A f \in Files : w[f] \in Content /\ (w[f].kind = "text" <=> w[f].text # NoText)
      BY <1>2, WorkSane, WrittenContent DEF Sane
    <2> QED
      BY <2>1 DEF Sane
  <1>4. /\ disk' \in [Files -> Content] /\ copy' \in [Files -> Content] /\ Sane(disk)' /\ Sane(copy)'
        /\ \A f \in Files : disk'[f] = IF OnHost(f) THEN w[f] ELSE disk[f]
        /\ ~inCopy => disk' = w
    BY <1>1, <1>3, SetWorkKeeps
  <1>5. Named(plan) \subseteq Files
    BY NamedAreFiles
  <1>6. TypeOK'
    <2>1. faulted' \in BOOLEAN
      BY <1>1 DEF EInv, TypeOK
    <2> QED
      BY <1>1, <1>4, <1>5, <2>1, FilesTyped
  <1>7. \A f \in Files : /\ before[f].kind # "text" => disk'[f] = before[f]
                         /\ f \notin Named(plan) => disk'[f] = before[f]
                         /\ inCopy => disk'[f] = before[f] /\ disk'[f] = disk[f]
    <2>1. phase = "patch"
      BY <1>1, ChangeAtHand
    <2>2. disk = before
      BY <2>1 DEF EInv, ReadTrue, SandboxTrue
    <2>3. \A f \in Files : OnHost(f) => w[f] = IF read[f] = NoText THEN before[f] ELSE Written(read[f])
      BY <2>2, WorkSane
    <2> QED
      BY <1>2, <1>4, <2>2, <2>3 DEF OnHost
  <1>8. OnlyNamedFiles' /\ SandboxTrue'
    BY <1>1, <1>4, <1>7 DEF EInv, OnlyNamedFiles, SandboxTrue
  <1>9. SnapshotTrue'
    <2>1. phase = "patch"
      BY <1>1, ChangeAtHand
    <2> QED
      BY <1>1, <1>7, <2>1 DEF EInv, SnapshotTrue, RestoredFile
  <1> QED
    BY <1>1, <1>4, <1>6, <1>7, <1>8, <1>9
    DEF EInv, Sane, ReadTrue, WritesText, FailedEditHarmless

------------------------------------------------------------------------------
\* Writing.

LEMMA WriteKeeps ==
  ASSUME EInv, WriteFile
  PROVE  EInv'
  <1> DEFINE g == order[next]
             w == [Work EXCEPT ![g] = Written(patched[g])]
  <1>1. /\ phase = "write" /\ phase' = "write" /\ next <= Len(order) /\ SetWork(w) /\ next' = next + 1
        /\ UNCHANGED <<inCopy, plan, originals, patched, order, snapshot, todo, result, faulted,
                       before, edits>>
    BY DEF WriteFile, memory
  <1>2. /\ next \in DOMAIN order /\ g \in Files /\ patched[g] \in Text /\ patched[g] # NoText
        /\ ~inCopy => g \in Named(plan) /\ before[g].kind = "text"
        /\ inCopy => g \notin Outside
    <2>1. /\ order \in Seq(Files) /\ next \in Nat \ {0}
          /\ {order[i] : i \in DOMAIN order} = {f \in Files : patched[f] # NoText}
          /\ \A f \in Files : patched[f] # NoText => originals[f] # NoText
          /\ patched \in [Files -> Text \cup {NoText}]
      BY DEF EInv, TypeOK
    <2>2. next \in DOMAIN order
      BY <1>1, <2>1
    <2>3. g \in Files /\ patched[g] # NoText
      BY <2>1, <2>2
    <2> QED
      BY <1>1, <2>1, <2>2, <2>3 DEF EInv, WritesText, SandboxTrue
  <1> HIDE DEF g
  <1>3. w \in [Files -> Content] /\ Sane(w)
    <2>1. Written(patched[g]) \in Content /\ Written(patched[g]).kind = "text"
          /\ Written(patched[g]).text # NoText
      BY <1>2, WrittenContent
    <2>2. w \in [Files -> Content] /\ \A f \in Files : w[f] = IF f = g THEN Written(patched[g]) ELSE Work[f]
      BY <1>2, <2>1, WorkSane
    <2> QED
      BY <2>1, <2>2, WorkSane DEF Sane
  <1>4. /\ disk' \in [Files -> Content] /\ copy' \in [Files -> Content] /\ Sane(disk)' /\ Sane(copy)'
        /\ \A f \in Files : disk'[f] = IF OnHost(f) THEN w[f] ELSE disk[f]
    BY <1>1, <1>3, SetWorkKeeps
  <1>5. TypeOK'
    <2>1. todo' \in SUBSET Files /\ faulted' \in BOOLEAN
      BY <1>1 DEF EInv, TypeOK
    <2> QED
      BY <1>1, <1>4, <2>1, FilesTyped
  <1>6. /\ \A f \in Files : f # g => disk'[f] = disk[f]
        /\ inCopy => disk' = disk
    <2>1. \A f \in Files : inCopy \/ f # g => disk'[f] = disk[f]
      BY <1>2, <1>4, WorkSane DEF OnHost
    <2> QED
      BY <1>4, <2>1 DEF EInv, TypeOK
  <1>7. OnlyNamedFiles' /\ SandboxTrue'
    BY <1>1, <1>2, <1>4, <1>6 DEF EInv, OnlyNamedFiles, SandboxTrue, OnHost
  <1>8. WritesText'
    BY <1>1, <1>2, <1>6 DEF EInv, WritesText
  <1> QED
    BY <1>1, <1>4, <1>5, <1>7, <1>8
    DEF EInv, Sane, ReadTrue, SnapshotTrue, FailedEditHarmless

------------------------------------------------------------------------------
\* Rollback.

LEMMA RestoreKeeps ==
  ASSUME EInv, RestoreFile \/ RestoreFails
  PROVE  EInv'
  <1>1. PICK f \in todo :
          /\ todo' = todo \ {f}
          /\ \/ RestoreFile /\ SetWork([Work EXCEPT ![f] = Restored(Work[f], snapshot[f])])
                /\ faulted' = faulted
             \/ RestoreFails /\ SetWork(Work) /\ faulted' = TRUE
             \/ RestoreFails /\ Work[f].kind = "text" /\ faulted' = TRUE
                /\ SetWork([Work EXCEPT ![f] = Written(Empty)])
    BY DEF RestoreFile, RestoreFails, StillToRestore
  <1>2. /\ phase = "restore" /\ phase' = "restore" /\ next' = next
        /\ UNCHANGED <<inCopy, plan, originals, patched, order, snapshot, result, before, edits>>
    BY DEF RestoreFile, RestoreFails, memory
  <1>3. /\ f \in Files /\ f \in Named(plan) /\ snapshot = Snapshot(before, Named(plan))
        /\ snapshot[f] \in Text \cup {NoText}
    <2>1. todo \subseteq Files /\ snapshot \in [Files -> Text \cup {NoText}]
      BY DEF EInv, TypeOK
    <2> QED
      BY <1>2, <2>1 DEF EInv, SnapshotTrue
  <1>4. PICK x : /\ SetWork([Work EXCEPT ![f] = x])
                 /\ \/ x = Restored(Work[f], snapshot[f]) /\ faulted' = faulted
                    \/ x = Work[f] /\ faulted' = TRUE
                    \/ x = Written(Empty) /\ Work[f].kind = "text" /\ faulted' = TRUE
    <2>1. Work = [Work EXCEPT ![f] = Work[f]]
      BY <1>3, WorkSane
    <2> QED
      BY <1>1, <2>1
  <1>5. Empty \in Text /\ Written(Empty) \in Content /\ Written(Empty).kind = "text"
        /\ Written(Empty).text # NoText
    <2>1. Empty \in Text
      BY DEF Empty, Text
    <2> QED
      BY <2>1, WrittenContent
  <1>6. x \in Content /\ (x.kind = "text" <=> x.text # NoText)
    <2>1. Work[f] \in Content /\ (Work[f].kind = "text" <=> Work[f].text # NoText)
      BY <1>3, WorkSane DEF Sane
    <2>2. CASE x = Restored(Work[f], snapshot[f])
      <3>1. CASE snapshot[f] # NoText
        BY <1>3, <2>2, <3>1, WrittenContent DEF Restored
      <3>2. CASE snapshot[f] = NoText
        BY <2>1, <2>2, <3>2 DEF Restored, Content
      <3> QED
        BY <3>1, <3>2
    <2> QED
      BY <1>4, <1>5, <2>1, <2>2
  <1> DEFINE w == [Work EXCEPT ![f] = x]
  <1>7. w \in [Files -> Content] /\ \A g \in Files : w[g] = IF g = f THEN x ELSE Work[g]
    BY <1>3, <1>6, WorkSane
  <1>8. Sane(w)
    BY <1>6, <1>7, WorkSane DEF Sane
  <1> HIDE DEF w
  <1>9. /\ disk' \in [Files -> Content] /\ copy' \in [Files -> Content] /\ Sane(disk)' /\ Sane(copy)'
        /\ \A g \in Files : disk'[g] = IF OnHost(g) THEN w[g] ELSE disk[g]
    <2>1. SetWork(w)
      BY <1>4 DEF w
    <2> QED
      BY <1>7, <1>8, <2>1, SetWorkKeeps
  <1>10. TypeOK'
    <2>1. todo' \in SUBSET Files /\ faulted' \in BOOLEAN
      BY <1>1, <1>4 DEF EInv, TypeOK
    <2> QED
      BY <1>2, <1>9, <2>1, FilesTyped
  <1>11. \A g \in Files : disk'[g] = IF OnHost(g) /\ g = f THEN x ELSE disk[g]
    BY <1>7, <1>9, WorkSane
  <1>12. OnlyNamedFiles' /\ SandboxTrue'
    BY <1>2, <1>3, <1>11 DEF EInv, OnlyNamedFiles, SandboxTrue, OnHost
  <1>13. \A g \in Files : OnHost(g) => RestoredFile(g)'
    <2> SUFFICES ASSUME NEW g \in Files, OnHost(g) PROVE RestoredFile(g)'
      OBVIOUS
    <2>1. RestoredFile(g)
      BY <1>2 DEF EInv, SnapshotTrue
    <2>2. CASE g # f
      BY <1>1, <1>2, <1>4, <1>11, <2>1, <2>2 DEF RestoredFile, EInv, TypeOK
    <2>3. CASE g = f
      <3>1. disk'[f] = x /\ Work[f] = disk[f]
        BY <1>3, <1>11, <2>3, WorkSane
      <3>2. ASSUME before[f].kind = "text", ~faulted' PROVE x = Written(before[f].text)
        <4>1. x = Restored(Work[f], snapshot[f])
          BY <1>4, <3>2
        <4>2. snapshot[f] = before[f].text /\ before[f].text # NoText
          BY <1>3, <3>2 DEF Snapshot, EInv, Sane
        <4> QED
          BY <4>1, <4>2 DEF Restored
      <3>3. ASSUME before[f].kind # "text"
            PROVE  \/ x = before[f]
                   \/ before[f].kind # "directory" /\ x.kind = "absent"
        <4>1. disk[f] = before[f]
          BY <1>1, <2>1, <2>3, <3>3 DEF RestoredFile
        <4>2. snapshot[f] = NoText
          BY <1>3, <3>3 DEF Snapshot
        <4> QED
          BY <1>4, <3>1, <3>3, <4>1, <4>2 DEF Restored
      <3> QED
        BY <1>1, <1>2, <1>3, <2>3, <3>1, <3>2, <3>3 DEF RestoredFile
    <2> QED
      BY <2>2, <2>3
  <1>14. SnapshotTrue'
    BY <1>1, <1>2, <1>13 DEF EInv, SnapshotTrue, OnHost
  <1> QED
    BY <1>2, <1>9, <1>10, <1>12, <1>14 DEF EInv, Sane, ReadTrue, WritesText, FailedEditHarmless

------------------------------------------------------------------------------
\* The end of a step.

LEMMA EndKeeps ==
  ASSUME EInv, NEW status, NEW reported, NEW fault \in BOOLEAN, End(status, reported, fault),
         disk' \in [Files -> Content], Sane(disk)',
         \A f \in Files \ Named(plan) : disk'[f] = disk[f],
         status = "failed" /\ ~fault => \A f \in Files : Unharmed(f)'
  PROVE  EInv'
  <1>1. /\ phase' = "idle" /\ inCopy' = FALSE /\ copy' = Nowhere /\ faulted' = fault
        /\ result'.status = status /\ result'.faulted = fault
        /\ UNCHANGED <<plan, next, originals, patched, order, snapshot, todo, before, edits>>
    BY DEF End, memory
  <1>2. Nowhere \in [Files -> Content] /\ Sane(Nowhere)
    BY DEF Nowhere, Content, Sane
  <1>3. TypeOK'
    <2> USE TypeParts DEF EInv
    <2>1. FileTypes'
      BY <1>1, <1>2 DEF FileTypes
    <2>2. MemoryOK'
      BY <1>1 DEF MemoryOK
    <2>3. ControlTypes' /\ RestoreTypes'
      BY <1>1 DEF ControlTypes, RestoreTypes
    <2>4. PlanTypes'
      BY <1>1 DEF PlanTypes
    <2> QED
      BY <2>1, <2>2, <2>3, <2>4, TypeJoin
  <1>4. OnlyNamedFiles'
    BY <1>1 DEF EInv, OnlyNamedFiles
  <1>5. FailedEditHarmless'
    BY <1>1 DEF FailedEditHarmless
  <1> QED
    BY <1>1, <1>2, <1>3, <1>4, <1>5
    DEF EInv, Sane, SandboxTrue, ReadTrue, WritesText, SnapshotTrue

LEMMA RollbackHarmless ==
  ASSUME EInv, RestoreDone, ~faulted, disk' = disk, before' = before, plan' = plan,
         NEW f \in Files
  PROVE  Unharmed(f)'
  <1>1. phase = "restore" /\ todo = {} /\ Sane(disk) /\ Sane(before)
    BY DEF RestoreDone, EInv
  <1>2. before[f].kind \in {"text", "binary", "absent", "directory"}
        /\ (before[f].kind # "text" => before[f].text = NoText)
    BY <1>1 DEF EInv, TypeOK, Content, Sane
  <1>3. CASE disk[f] = before[f]
    BY <1>3 DEF Unharmed
  <1>4. CASE disk[f] # before[f]
    <2>1. f \in Named(plan) \ todo /\ RestoredFile(f)
      BY <1>1, <1>4 DEF EInv, OnlyNamedFiles, SnapshotTrue, SandboxTrue, OnHost
    <2>2. CASE before[f].kind = "text"
      BY <2>1, <2>2 DEF RestoredFile, Written, Unharmed
    <2>3. CASE before[f].kind # "text"
      <3>1. disk[f].kind = "absent" /\ before[f].kind \in {"binary", "absent"}
        BY <1>2, <1>4, <2>1, <2>3 DEF RestoredFile
      <3>2. disk[f].text = NoText
        BY <1>1, <3>1 DEF Sane
      <3> QED
        BY <1>2, <2>1, <3>1, <3>2 DEF Unharmed
    <2> QED
      BY <2>2, <2>3
  <1> QED
    BY <1>3, <1>4

LEMMA EndSteps ==
  ASSUME EInv, WriteFails \/ RestoreDone \/ Interrupt \/ (RunTests /\ phase' # "restore")
  PROVE  EInv'
  <1>0. disk \in [Files -> Content] /\ Sane(disk) /\ faulted \in BOOLEAN
    BY DEF EInv, TypeOK
  <1>1. CASE WriteFails
    <2>1. End("raised", {}, TRUE) /\ order \in Seq(Files) /\ next \in DOMAIN order
      <3>1. order \in Seq(Files) /\ next \in Nat \ {0} /\ next <= Len(order)
        BY <1>1 DEF WriteFails, EInv, TypeOK
      <3>2. End("raised", {}, TRUE)
        BY <1>1 DEF WriteFails
      <3>3. next \in DOMAIN order
        BY <3>1
      <3> QED
        BY <3>1, <3>2, <3>3, Zenon
    <2>2. order[next] \in Files /\ (~inCopy => order[next] \in Named(plan))
      BY <1>1, <2>1 DEF WriteFails, EInv, WritesText
    <2>3. /\ Empty \in Text /\ Written(Empty) \in Content /\ Written(Empty).kind = "text"
          /\ Written(Empty).text # NoText
      <3>1. Empty \in Text
        BY DEF Empty, Text
      <3> QED
        BY <3>1, WrittenContent
    <2>4. disk' = disk \/ (~inCopy /\ disk' = [disk EXCEPT ![order[next]] = Written(Empty)])
      BY <1>1 DEF WriteFails
    <2>5. /\ disk' \in [Files -> Content] /\ Sane(disk)'
          /\ \A f \in Files \ Named(plan) : disk'[f] = disk[f]
      BY <1>0, <2>2, <2>3, <2>4 DEF Sane
    <2> QED
      BY <2>1, <2>5, EndKeeps
  <1>2. CASE Interrupt
    BY <1>0, <1>2, EndKeeps DEF Interrupt, Sane
  <1>3. CASE RunTests /\ phase' # "restore"
    <2>1. End("ok", {order[i] : i \in DOMAIN order}, FALSE) /\ disk' = disk
      BY <1>3 DEF RunTests
    <2> QED
      BY <1>0, <2>1, EndKeeps DEF Sane
  <1>4. CASE RestoreDone
    <2>1. End("failed", {}, faulted) /\ disk' = disk /\ before' = before /\ plan' = plan
      BY <1>4 DEF RestoreDone, End
    <2>2. ~faulted => \A f \in Files : Unharmed(f)'
      BY <1>4, <2>1, RollbackHarmless
    <2> QED
      BY <1>0, <2>1, <2>2, EndKeeps DEF Sane
  <1> QED
    BY <1>1, <1>2, <1>3, <1>4

LEMMA StutterKeeps ==
  ASSUME EInv, UNCHANGED vars
  PROVE  EInv'
  <1>1. UNCHANGED <<disk, copy, inCopy, phase, plan, next, originals, patched, order, snapshot, todo,
                    result, faulted, before, edits>>
    BY DEF vars, memory
  <1>2. TypeOK'
    <2> USE TypeParts DEF EInv
    <2>1. FileTypes' /\ MemoryOK' /\ ControlTypes' /\ RestoreTypes' /\ PlanTypes'
      BY <1>1 DEF FileTypes, MemoryOK, ControlTypes, RestoreTypes, PlanTypes
    <2> QED
      BY <2>1, TypeJoin
  <1> QED
    BY <1>1, <1>2 DEF EInv, Sane, SandboxTrue, OnHost, ReadTrue, WritesText, SnapshotTrue,
                      RestoredFile, OnlyNamedFiles, FailedEditHarmless, Unharmed

------------------------------------------------------------------------------
\* The inductive invariant: what was read is what was there, the snapshot is that
\* of the files before the step, and the rollback has put back what it came to.
THEOREM EditInvariant == Spec => []EInv
  <1>1. EInv /\ [Next]_vars => EInv'
    <2> SUFFICES ASSUME EInv, [Next]_vars PROVE EInv'
      OBVIOUS
    <2> QED
      BY StartKeeps, QuietSteps, MakeKeeps, RaiseKeeps, WriteKeeps, RestoreKeeps, EndSteps,
         StutterKeeps DEF Next, StepAction
  <1> QED
    BY <1>1, InitEInv, PTL DEF Spec

\* Types, and patched_content and its order of keys agree.
THEOREM EditTypeCorrect == Spec => []TypeOK
  <1>1. EInv => TypeOK
    BY DEF EInv
  <1> QED
    BY <1>1, EditInvariant, PTL

\* An edit step touches no file that its plan does not name.
THEOREM OthersUntouched == Spec => []OnlyNamedFiles
  <1>1. EInv => OnlyNamedFiles
    BY DEF EInv
  <1> QED
    BY <1>1, EditInvariant, PTL

\* A step that failed without a fault has left the project as it was, but for the
\* line ends of the files it names and the undecodable ones among them.
THEOREM FailureIsHarmless == Spec => []FailedEditHarmless
  <1>1. EInv => FailedEditHarmless
    BY DEF EInv
  <1> QED
    BY <1>1, EditInvariant, PTL

\* A step in the sandbox changes no file of the project, but in the rollback those of
\* its plan that are outside the copy.
THEOREM SandboxKept == Spec => SandboxIsolation
  <1>1. ASSUME EInv, [Next]_vars, inCopy, NEW f \in Files
        PROVE  disk'[f] = disk[f] \/ (phase = "restore" /\ f \in Named(plan) \cap Outside)
    <2>1. CASE UNCHANGED vars
      BY <2>1 DEF vars
    <2>2. CASE BeginEdit \/ BeginCheck \/ NothingPlanned
      BY <2>2 DEF BeginEdit, BeginCheck, Begin, NothingPlanned
    <2>3. CASE RejectPlan \/ SkipChange \/ RefuseChange \/ BeginWriting \/ AllWritten \/ CheckSyntax
               \/ RunTests \/ RestoreDone \/ Interrupt
      BY <2>3 DEF RejectPlan, SkipChange, RefuseChange, BeginWriting, AllWritten, CheckSyntax,
                  RunTests, RestoreDone, Interrupt
    <2>4. CASE WriteFails
      BY <1>1, <2>4 DEF WriteFails
    <2>5. CASE MakeChange
      BY <2>5 DEF MakeChange
    <2>6. CASE ChangeRaises
      BY <1>1, <2>6, RaiseKeeps
    <2>7. CASE WriteFile
      <3>1. disk = before /\ disk' = before' /\ before' = before
        BY <1>1, <2>7, WriteKeeps DEF WriteFile, EInv, SandboxTrue
      <3> QED
        BY <3>1
    <2>8. CASE RestoreFile \/ RestoreFails
      <3>1. PICK g \in todo : \E x : SetWork(Work) \/ SetWork([Work EXCEPT ![g] = x])
        BY <2>8 DEF RestoreFile, RestoreFails
      <3>2. phase = "restore" /\ g \in Named(plan)
        BY <1>1, <2>8 DEF RestoreFile, RestoreFails, EInv, SnapshotTrue
      <3>3. disk'[f] = disk[f] \/ (OnHost(f) /\ f = g)
        BY <1>1, <3>1, WorkSane DEF SetWork
      <3> QED
        BY <1>1, <3>2, <3>3 DEF OnHost
    <2> QED
      BY <1>1, <2>1, <2>2, <2>3, <2>4, <2>5, <2>6, <2>7, <2>8 DEF Next, StepAction
  <1>2. EInv /\ [Next]_vars => [inCopy => \A f \in Files :
          disk'[f] = disk[f] \/ (phase = "restore" /\ f \in Named(plan) \cap Outside)]_vars
    BY <1>1
  <1> QED
    BY <1>2, EditInvariant, PTL DEF Spec, SandboxIsolation
------------------------------------------------------------------------------
\* What changes make of a text.

Mine(p, n, f) == {i \in 1 .. n : p[i].file = f /\ ~PassedOver(p[i])}
Clears(p, n, f) == {i \in Mine(p, n, f) : p[i].patch = "clear"}
Kept(p, n, f) == {i \in Mine(p, n, f) \ Clears(p, n, f) : \A j \in Clears(p, n, f) : j < i}

\* new is base with the marks of the changes at K after it, in their order.
Marked(base, new, K) ==
  /\ Len(base) <= Len(new) /\ \A k \in 1 .. Len(base) : new[k] = base[k]
  /\ {new[k] : k \in Len(base) + 1 .. Len(new)} = {i + 1 : i \in K}
  /\ \A k, l \in Len(base) + 1 .. Len(new) : k < l => new[k] < new[l]

LEMMA ComposedIs ==
  ASSUME NEW p, NEW n, NEW f, NEW old, NEW new
  PROVE  Composed(p, n, f, old, new) <=>
           Marked(IF Clears(p, n, f) = {} THEN old ELSE Empty, new, Kept(p, n, f))
  BY Zenon DEF Composed, Marked, Mine, Clears, Kept

\* Before the first change of f its text is what it was.
LEMMA ComposedNone ==
  ASSUME NEW p, NEW n \in Nat, NEW f, NEW old \in Text, Mine(p, n, f) = {}
  PROVE  Composed(p, n, f, old, old)
  <1>1. Clears(p, n, f) = {} /\ Kept(p, n, f) = {}
    BY DEF Clears, Kept
  <1>2. Len(old) \in Nat /\ Len(old) + 1 .. Len(old) = {}
    BY DEF Text
  <1>3. Marked(old, old, {})
    BY <1>2 DEF Marked
  <1> QED
    BY <1>1, <1>3, ComposedIs

\* A change of another file, or one that is passed over, adds nothing.
LEMMA ComposedOther ==
  ASSUME NEW p, NEW n \in Nat, NEW f, ~(p[n + 1].file = f /\ ~PassedOver(p[n + 1]))
  PROVE  /\ Mine(p, n + 1, f) = Mine(p, n, f)
         /\ \A old, new : Composed(p, n, f, old, new) => Composed(p, n + 1, f, old, new)
  <1>1. \A i : i \in 1 .. n + 1 <=> i \in 1 .. n \/ i = n + 1
    OBVIOUS
  <1>2. Mine(p, n + 1, f) = Mine(p, n, f)
    BY <1>1 DEF Mine
  <1>3. Clears(p, n + 1, f) = Clears(p, n, f) /\ Kept(p, n + 1, f) = Kept(p, n, f)
    BY <1>2 DEF Clears, Kept
  <1> QED
    BY <1>2, <1>3, ComposedIs

\* A change of f that does not follow one that empties it.
LEMMA ComposedNext ==
  ASSUME NEW p, NEW n \in Nat, NEW f, p[n + 1].file = f, ~PassedOver(p[n + 1]),
         Clears(p, n, f) = {}, NEW old \in Text, NEW new \in Text, Composed(p, n, f, old, new)
  PROVE  Composed(p, n + 1, f, old, Effect(p[n + 1].patch, new, n + 2))
  <1>1. \A i : i \in 1 .. n + 1 <=> i \in 1 .. n \/ i = n + 1
    OBVIOUS
  <1>2. Mine(p, n + 1, f) = Mine(p, n, f) \cup {n + 1}
    BY <1>1 DEF Mine
  <1>3. \A i \in Mine(p, n, f) : i \in 1 .. n
    BY DEF Mine
  <1>4. Kept(p, n, f) = Mine(p, n, f) /\ Marked(old, new, Mine(p, n, f))
    <2>1. Kept(p, n, f) = Mine(p, n, f)
      BY DEF Kept
    <2> QED
      BY <2>1, ComposedIs
  <1>5. CASE p[n + 1].patch = "clear"
    <2>1. Clears(p, n + 1, f) = {n + 1}
      BY <1>2, <1>5 DEF Clears
    <2>2. Kept(p, n + 1, f) = {}
      BY <1>2, <1>3, <2>1 DEF Kept
    <2>3. Marked(Empty, Empty, {})
      BY DEF Marked, Empty
    <2> QED
      BY <1>5, <2>1, <2>2, <2>3, ComposedIs DEF Effect
  <1>6. CASE p[n + 1].patch # "clear"
    <2> DEFINE r == Append(new, n + 2)
    <2>1. Clears(p, n + 1, f) = {}
      BY <1>2, <1>6 DEF Clears
    <2>2. Kept(p, n + 1, f) = Mine(p, n, f) \cup {n + 1}
      BY <1>2, <2>1 DEF Kept
    <2>3. /\ Len(old) \in Nat /\ Len(new) \in Nat /\ Len(r) = Len(new) + 1 /\ r[Len(new) + 1] = n + 2
          /\ \A k \in 1 .. Len(new) : r[k] = new[k] /\ new[k] \in Nat
      BY DEF Text, Mark
    <2> HIDE DEF r
    <2>4. /\ Len(old) <= Len(new) /\ \A k \in 1 .. Len(old) : new[k] = old[k]
          /\ {new[k] : k \in Len(old) + 1 .. Len(new)} = {i + 1 : i \in Mine(p, n, f)}
          /\ \A k, l \in Len(old) + 1 .. Len(new) : k < l => new[k] < new[l]
      BY <1>4 DEF Marked
    <2>5. ASSUME NEW k \in Len(old) + 1 .. Len(new)
          PROVE  new[k] < n + 2 /\ r[k] = new[k] /\ k \in Nat
      <3>1. PICK i \in Mine(p, n, f) : new[k] = i + 1
        BY <2>4
      <3> QED
        BY <1>3, <2>3, <3>1
    <2>6. Len(old) + 1 .. Len(r) = (Len(old) + 1 .. Len(new)) \cup {Len(new) + 1}
      BY <2>3, <2>4
    <2>7. {r[k] : k \in Len(old) + 1 .. Len(r)} = {i + 1 : i \in Mine(p, n, f) \cup {n + 1}}
      <3>1. {r[k] : k \in Len(old) + 1 .. Len(r)} =
              {new[k] : k \in Len(old) + 1 .. Len(new)} \cup {n + 2}
        BY <2>3, <2>5, <2>6
      <3>2. {i + 1 : i \in Mine(p, n, f) \cup {n + 1}} = {i + 1 : i \in Mine(p, n, f)} \cup {n + 2}
        OBVIOUS
      <3> QED
        BY <2>4, <3>1, <3>2
    <2>8. ASSUME NEW k \in Len(old) + 1 .. Len(r), NEW l \in Len(old) + 1 .. Len(r), k < l
          PROVE  r[k] < r[l]
      <3>1. k \in Len(old) + 1 .. Len(new)
        BY <2>3, <2>6, <2>8
      <3>2. CASE l \in Len(old) + 1 .. Len(new)
        BY <2>4, <2>5, <2>8, <3>1, <3>2
      <3>3. CASE l = Len(new) + 1
        BY <2>3, <2>5, <3>1, <3>3
      <3> QED
        BY <2>6, <3>2, <3>3
    <2>9. Len(old) <= Len(r) /\ \A k \in 1 .. Len(old) : r[k] = old[k]
      BY <2>3, <2>4
    <2>10. Marked(old, r, Mine(p, n, f) \cup {n + 1})
      BY <2>7, <2>8, <2>9 DEF Marked
    <2> QED
      BY <1>6, <2>1, <2>2, <2>10, ComposedIs DEF r, Effect
  <1> QED
    BY <1>5, <1>6
------------------------------------------------------------------------------
\* What a step has made of the files when it commits.

\* How many changes of the plan have been made.
Made == IF phase = "patch" THEN next - 1 ELSE Len(plan)

\* t is what the first n changes of p make of the file f, that was w; the files
\* that none of them changes have no text.
Patches(p, n, f, w, t) ==
  /\ t # NoText <=> Mine(p, n, f) # {}
  /\ t # NoText => /\ w.kind = "text"
                   /\ Composed(p, n, f, w.text, t) \/ EmptiedAndEdited(p, f)

\* The changes so far can be made, and the patched texts are what they make.
PatchTrue ==
  phase \in {"patch", "write", "check", "test"} /\ ~inCopy =>
    /\ Made \in 0 .. Len(plan)
    /\ \A i \in 1 .. Made : Lands(plan[i])
    /\ \A f \in Files : Patches(plan, Made, f, before[f], patched[f])

\* The files that have been written hold what was made of them, the others are as
\* they were.
WrittenTrue ==
  ~inCopy =>
    /\ phase = "write" =>
         \A f \in Files :
           disk[f] = IF \E i \in DOMAIN order : i < next /\ order[i] = f
                       THEN Written(patched[f]) ELSE before[f]
    /\ phase \in {"check", "test"} =>
         \A f \in Files : disk[f] = IF patched[f] # NoText THEN Written(patched[f]) ELSE before[f]

CommitInv == plan \in Plans /\ PatchTrue /\ WrittenTrue

LEMMA StartCommits ==
  ASSUME EInv, CommitInv, BeginEdit \/ BeginCheck \/ NothingPlanned
  PROVE  CommitInv'
  <1>1. ASSUME NEW p \in Plans, NEW ph \in {"patch", "test"}, Begin(p, ph),
               ph = "patch" \/ p = <<>>
        PROVE  CommitInv'
    <2>1. /\ phase' = ph /\ plan' = p /\ next' = 1 /\ disk' = disk /\ before' = disk
          /\ \A f \in Files : patched'[f] = NoText
      BY <1>1 DEF Begin, Nothing
    <2>2. p \in Seq(Change) /\ Len(p) \in Nat
      BY PlansAssumption
    <2>3. Made' = 0
      BY <1>1, <2>1 DEF Made
    <2>4. \A f \in Files : Mine(p, 0, f) = {}
      BY DEF Mine
    <2>5. PatchTrue'
      BY <2>1, <2>2, <2>3, <2>4 DEF PatchTrue, Patches
    <2>6. WrittenTrue'
      BY <1>1, <2>1 DEF WrittenTrue
    <2> QED
      BY <2>1, <2>5, <2>6 DEF CommitInv
  <1>2. CASE BeginEdit
    BY <1>1, <1>2 DEF BeginEdit
  <1>3. CASE BeginCheck
    BY <1>1, <1>3, PlansAssumption DEF BeginCheck
  <1>4. CASE NothingPlanned
    BY <1>4, PlansAssumption DEF NothingPlanned, CommitInv, PatchTrue, WrittenTrue
  <1> QED
    BY <1>2, <1>3, <1>4

\* The next change, when it is passed over or made, is one that can be made.
LEMMA ChangeLands ==
  ASSUME EInv, SkipChange \/ MakeChange
  PROVE  AtChange /\ Lands(plan[next]) /\ (MakeChange => ~PassedOver(plan[next]))
         /\ (SkipChange => PassedOver(plan[next]))
  <1>1. AtChange
    BY DEF SkipChange, MakeChange
  <1>2. next \in DOMAIN plan /\ plan[next] \in Change
    BY <1>1, ChangeAtHand
  <1>3. CASE SkipChange
    BY <1>1, <1>3 DEF SkipChange, RefusedUnread, Lands, MakeChange, Readable
  <1>4. CASE MakeChange
    <2>1. /\ ~RefusedUnread(plan[next]) /\ ~PassedOver(plan[next])
          /\ plan[next].patch # "raise" /\ ~NotEffective(plan[next])
      BY <1>4 DEF MakeChange, Readable
    <2>2. plan[next].patch \in Patch /\ plan[next].patch # "oversize"
      BY <1>1, <1>2 DEF Change, AtChange, TooLarge
    <2> QED
      BY <1>1, <2>1, <2>2 DEF RefusedUnread, NotEffective, Lands, Patch, SkipChange
  <1> QED
    BY <1>3, <1>4

\* The text a change is made to, when no change before it has emptied the file, is
\* what the changes before it have made.
LEMMA SourceComposed ==
  ASSUME EInv, CommitInv, MakeChange, ~inCopy, ~EmptiedAndEdited(plan, plan[next].file)
  PROVE  /\ Clears(plan, next - 1, plan[next].file) = {}
         /\ Source(plan[next]) \in Text /\ before[plan[next].file].text \in Text
         /\ Composed(plan, next - 1, plan[next].file, before[plan[next].file].text,
                     Source(plan[next]))
  <1> DEFINE c == plan[next]
             g == plan[next].file
             n == next - 1
  <1>1. phase = "patch" /\ c \in Change /\ g \in Files /\ next \in DOMAIN plan
    BY ChangeAtHand DEF MakeChange
  <1>2. /\ plan \in Seq(Change) /\ next \in Nat \ {0} /\ DOMAIN plan = 1 .. Len(plan)
        /\ patched \in [Files -> Text \cup {NoText}]
    BY DEF EInv, TypeOK
  <1>3. Clears(plan, n, g) = {}
    <2> SUFFICES ASSUME NEW i \in Clears(plan, n, g) PROVE FALSE
      OBVIOUS
    <2>1. i \in 1 .. n /\ plan[i].file = g /\ plan[i].patch = "clear"
      BY DEF Clears, Mine
    <2>2. i \in DOMAIN plan /\ i < next
      BY <1>1, <1>2, <2>1
    <2>3. plan[i] \in Change
      BY <1>2, <2>2
    <2>4. plan[i] = [file |-> g, patch |-> "clear"]
      BY <2>1, <2>3 DEF Change
    <2> QED
      BY <1>1, <2>2, <2>4 DEF EmptiedAndEdited
  <1>4. Work = before /\ Work[g].kind = "text"
    BY <1>1, WorkSane DEF MakeChange, Readable, EInv, ReadTrue
  <1>5. before[g].text \in Text /\ before[g].text # NoText
    BY <1>1, <1>4, WorkSane DEF Sane, Content
  <1>6. Made = n /\ n \in Nat
    BY <1>1, <1>2 DEF Made
  <1>7. CASE patched[g] = NoText
    <2>1. Mine(plan, n, g) = {}
      BY <1>1, <1>6, <1>7 DEF CommitInv, PatchTrue, Patches
    <2>2. Source(c) = before[g].text
      BY <1>4, <1>7 DEF Source
    <2> QED
      BY <1>3, <1>5, <1>6, <2>1, <2>2, ComposedNone
  <1>8. CASE patched[g] # NoText
    <2>1. Mine(plan, n, g) # {} /\ Composed(plan, n, g, before[g].text, patched[g])
      BY <1>1, <1>6, <1>8 DEF CommitInv, PatchTrue, Patches
    <2>2. Marked(before[g].text, patched[g], Mine(plan, n, g))
      <3>1. Kept(plan, n, g) = Mine(plan, n, g)
        BY <1>3 DEF Kept
      <3> QED
        BY <1>3, <2>1, <3>1, ComposedIs
    <2>3. patched[g] # Empty
      <3>1. Len(before[g].text) \in Nat
        BY <1>5 DEF Text
      <3>2. ASSUME patched[g] = Empty PROVE Len(before[g].text) + 1 .. Len(patched[g]) = {}
        BY <3>1, <3>2 DEF Empty
      <3>3. PICK i \in Mine(plan, n, g) : TRUE
        BY <2>1
      <3>4. i + 1 \in {patched[g][k] : k \in Len(before[g].text) + 1 .. Len(patched[g])}
        BY <2>2 DEF Marked
      <3> QED
        BY <3>2, <3>4
    <2>4. Source(c) = patched[g] /\ patched[g] \in Text
      BY <1>1, <1>2, <1>8, <2>3 DEF Source
    <2> QED
      BY <1>3, <1>5, <2>1, <2>4
  <1> QED
    BY <1>7, <1>8

\* What a change makes of its file is what the changes so far make of it.
LEMMA MakePatches ==
  ASSUME EInv, CommitInv, MakeChange, ~inCopy
  PROVE  Patches(plan, next - 1 + 1, plan[next].file, before[plan[next].file],
                 patched'[plan[next].file])
  <1> DEFINE c == plan[next]
             g == plan[next].file
             n == next - 1
             t == Effect(c.patch, Source(c), next + 1)
  <1>1. /\ phase = "patch" /\ c \in Change /\ g \in Files /\ next \in DOMAIN plan
        /\ ~PassedOver(c)
    BY ChangeAtHand, ChangeLands DEF MakeChange
  <1>2. /\ plan \in Seq(Change) /\ next \in Nat \ {0} /\ DOMAIN plan = 1 .. Len(plan)
        /\ patched \in [Files -> Text \cup {NoText}]
        /\ n \in Nat /\ n + 1 = next /\ n + 2 = next + 1
    BY DEF EInv, TypeOK
  <1>3. patched' = [patched EXCEPT ![g] = t] /\ Work[g].kind = "text"
    BY DEF MakeChange, Readable
  <1>4. next \in Mine(plan, n + 1, g)
    BY <1>1, <1>2 DEF Mine
  <1>5. patched'[g] = t /\ patched'[g] # NoText
    <2>1. EInv'
      BY MakeKeeps
    <2>2. order' = OrderWith(g)
      BY DEF MakeChange
    <2>3. patched'[g] = t
      BY <1>1, <1>2, <1>3
    <2>4. g \in {order'[i] : i \in DOMAIN order'}
      <3>1. CASE patched[g] = NoText
        <4>1. order' = Append(order, g) /\ order \in Seq(Files)
          BY <2>2, <3>1 DEF OrderWith, EInv, TypeOK
        <4>2. Len(order) + 1 \in DOMAIN order' /\ order'[Len(order) + 1] = g
          BY <1>1, <4>1
        <4> QED
          BY <4>2
      <3>2. CASE patched[g] # NoText
        <4>1. order' = order
          BY <2>2, <3>2 DEF OrderWith
        <4>2. g \in {order[i] : i \in DOMAIN order}
          BY <1>1, <3>2 DEF EInv, TypeOK
        <4> QED
          BY <4>1, <4>2
      <3> QED
        BY <3>1, <3>2
    <2>5. {order'[i] : i \in DOMAIN order'} = {f \in Files : patched'[f] # NoText}
      BY <2>1 DEF EInv, TypeOK
    <2> QED
      BY <2>3, <2>4, <2>5
  <1>6. before[g].kind = "text"
    BY <1>1, <1>3, WorkSane DEF EInv, ReadTrue
  <1>7. ASSUME ~EmptiedAndEdited(plan, g)
        PROVE  Composed(plan, n + 1, g, before[g].text, patched'[g])
    <2>1. /\ Clears(plan, n, g) = {} /\ Source(c) \in Text /\ before[g].text \in Text
          /\ Composed(plan, n, g, before[g].text, Source(c))
      BY <1>7, SourceComposed
    <2>2. t = Effect(plan[n + 1].patch, Source(c), n + 2) /\ g = plan[n + 1].file
          /\ ~PassedOver(plan[n + 1])
      BY <1>1, <1>2
    <2>3. Source(c) \in Text
      BY <2>1
    <2> HIDE DEF t, c, g, n
    <2>4. Composed(plan, n + 1, g, before[g].text, Effect(plan[n + 1].patch, Source(c), n + 2))
      BY <1>2, <2>1, <2>2, <2>3, ComposedNext
    <2> QED
      BY <1>5, <2>2, <2>4
  <1> HIDE DEF t, c, g, n
  <1>8. Patches(plan, n + 1, g, before[g], patched'[g])
    BY <1>4, <1>5, <1>6, <1>7 DEF Patches
  <1> QED
    BY <1>8 DEF n, g

LEMMA MakeCommits ==
  ASSUME EInv, CommitInv, SkipChange \/ MakeChange
  PROVE  CommitInv'
  <1> DEFINE c == plan[next]
             g == plan[next].file
             n == next - 1
  <1>1. /\ AtChange /\ Lands(c) /\ next' = next + 1
        /\ UNCHANGED <<disk, inCopy, phase, plan, before>>
    BY ChangeLands DEF SkipChange, MakeChange
  <1>2. phase = "patch" /\ g \in Files /\ next \in DOMAIN plan
    BY <1>1, ChangeAtHand
  <1>3. /\ plan \in Seq(Change) /\ next \in Nat \ {0} /\ DOMAIN plan = 1 .. Len(plan)
        /\ patched \in [Files -> Text \cup {NoText}] /\ Len(plan) \in Nat
    BY DEF EInv, TypeOK
  <1>4. Made = n /\ Made' = n + 1 /\ n \in Nat /\ next = n + 1 /\ n + 1 <= Len(plan)
    BY <1>1, <1>2, <1>3 DEF Made
  <1>5. WrittenTrue' /\ plan' \in Plans
    BY <1>1, <1>2 DEF WrittenTrue, CommitInv
  <1>6. ASSUME ~inCopy PROVE PatchTrue'
    <2>1. /\ \A i \in 1 .. n : Lands(plan[i])
          /\ \A f \in Files : Patches(plan, n, f, before[f], patched[f])
      BY <1>2, <1>4, <1>6 DEF CommitInv, PatchTrue
    <2>2. \A i \in 1 .. n + 1 : Lands(plan[i])
      <3>1. Lands(plan[n + 1])
        BY <1>1, <1>4
      <3>2. \A i \in 1 .. n + 1 : i \in 1 .. n \/ i = n + 1
        BY <1>4
      <3> HIDE DEF n
      <3> QED
        BY <2>1, <3>1, <3>2
    <2>3. ASSUME NEW f \in Files, ~(plan[n + 1].file = f /\ ~PassedOver(plan[n + 1])),
                 patched'[f] = patched[f]
          PROVE  Patches(plan, n + 1, f, before[f], patched'[f])
      <3>1. /\ Mine(plan, n + 1, f) = Mine(plan, n, f)
            /\ \A old, new : Composed(plan, n, f, old, new) => Composed(plan, n + 1, f, old, new)
        BY <1>4, <2>3, ComposedOther
      <3>2. Patches(plan, n, f, before[f], patched[f])
        BY <2>1
      <3> HIDE DEF n
      <3> QED
        BY <2>3, <3>1, <3>2 DEF Patches
    <2>4. \A f \in Files : Patches(plan, n + 1, f, before[f], patched'[f])
      <3>1. CASE SkipChange
        <4>1. patched' = patched /\ PassedOver(plan[n + 1])
          BY <1>4, <3>1, ChangeLands DEF SkipChange, memory
        <4> HIDE DEF n
        <4> QED
          BY <2>3, <4>1
      <3>2. CASE MakeChange
        <4>1. /\ g = plan[n + 1].file
              /\ \A f \in Files : f # g => patched'[f] = patched[f]
          BY <1>3, <1>4, <3>2 DEF MakeChange
        <4>2. Patches(plan, n + 1, g, before[g], patched'[g])
          BY <1>6, <3>2, MakePatches
        <4> HIDE DEF n, g
        <4> QED
          BY <2>3, <4>1, <4>2
      <3> QED
        BY <3>1, <3>2
    <2> HIDE DEF n
    <2> QED
      BY <1>1, <1>2, <1>3, <1>4, <2>2, <2>4 DEF PatchTrue
  <1>7. inCopy => PatchTrue'
    BY <1>1 DEF PatchTrue
  <1> QED
    BY <1>5, <1>6, <1>7 DEF CommitInv

LEMMA BeginWritingCommits ==
  ASSUME EInv, CommitInv, BeginWriting
  PROVE  CommitInv'
  <1>1. /\ phase = "patch" /\ phase' = "write" /\ next > Len(plan) /\ next' = 1
        /\ UNCHANGED <<disk, inCopy, plan, patched, order, before>>
    BY DEF BeginWriting, memory
  <1>2. next \in Nat \ {0} /\ Len(plan) \in Nat /\ order \in Seq(Files)
    BY DEF EInv, TypeOK
  <1>3. ASSUME ~inCopy PROVE PatchTrue' /\ WrittenTrue'
    <2>1. Made \in 0 .. Len(plan) /\ Made = next - 1
      BY <1>1, <1>3 DEF CommitInv, PatchTrue, Made
    <2>2. Made' = Made
      BY <1>1, <1>2, <2>1 DEF Made
    <2>3. PatchTrue'
      BY <1>1, <1>3, <2>2 DEF CommitInv, PatchTrue
    <2>4. disk = before
      BY <1>1, <1>3 DEF EInv, ReadTrue
    <2>5. WrittenTrue'
      BY <1>1, <1>2, <2>4 DEF WrittenTrue
    <2> QED
      BY <2>3, <2>5
  <1>4. inCopy => PatchTrue' /\ WrittenTrue'
    BY <1>1 DEF PatchTrue, WrittenTrue
  <1> QED
    BY <1>1, <1>3, <1>4 DEF CommitInv

\* A file is written after the others of order, each once.
LEMMA WriteCommits ==
  ASSUME EInv, CommitInv, WriteFile
  PROVE  CommitInv'
  <1>1. /\ phase = "write" /\ next \in 1 .. Len(order) /\ next' = next + 1
        /\ UNCHANGED <<inCopy, phase, plan, patched, order, before>>
    BY DEF WriteFile, memory, EInv, TypeOK
  <1>2. PatchTrue'
    BY <1>1 DEF CommitInv, PatchTrue, Made
  <1>3. ASSUME ~inCopy PROVE WrittenTrue'
    <2>1. disk' = [disk EXCEPT ![order[next]] = Written(patched[order[next]])]
      <3>1. Work = disk
        BY <1>3, WorkSane
      <3>2. disk' = [f \in Files |-> [Work EXCEPT ![order[next]] = Written(patched[order[next]])][f]]
        BY <1>3 DEF WriteFile, SetWork, OnHost
      <3>3. disk \in [Files -> Content]
        BY DEF EInv, TypeOK
      <3> QED
        BY <3>1, <3>2, <3>3
    <2>2. disk \in [Files -> Content] /\ DOMAIN order = 1 .. Len(order) /\ Len(order) \in Nat
      BY DEF EInv, TypeOK
    <2>3. \A f \in Files : disk[f] = IF \E i \in DOMAIN order : i < next /\ order[i] = f
                                       THEN Written(patched[f]) ELSE before[f]
      BY <1>1, <1>3 DEF CommitInv, WrittenTrue
    <2>4. ASSUME NEW f \in Files
          PROVE  disk'[f] = IF \E i \in DOMAIN order : i < next + 1 /\ order[i] = f
                              THEN Written(patched[f]) ELSE before[f]
      <3>1. CASE f = order[next]
        <4>1. next \in DOMAIN order /\ next < next + 1
          BY <1>1, <2>2
        <4> QED
          BY <2>1, <2>2, <3>1, <4>1
      <3>2. CASE f # order[next]
        <4>1. disk'[f] = disk[f]
          BY <2>1, <2>2, <3>2
        <4>2. \A i \in DOMAIN order : i < next + 1 => i < next \/ i = next
          BY <1>1, <2>2
        <4>3. \A i \in DOMAIN order : i < next => i < next + 1
          BY <1>1, <2>2
        <4> QED
          BY <2>3, <3>2, <4>1, <4>2, <4>3
      <3> QED
        BY <3>1, <3>2
    <2> QED
      BY <1>1, <2>4 DEF WrittenTrue
  <1>4. inCopy => WrittenTrue'
    BY <1>1 DEF WrittenTrue
  <1> QED
    BY <1>1, <1>2, <1>3, <1>4 DEF CommitInv

\* When all files of order are written, all the patched ones are.
LEMMA WrittenCommits ==
  ASSUME EInv, CommitInv, AllWritten
  PROVE  CommitInv'
  <1>1. /\ phase = "write" /\ phase' = "check" /\ next > Len(order)
        /\ UNCHANGED <<disk, inCopy, plan, next, patched, order, before>>
    BY DEF AllWritten, memory
  <1>2. PatchTrue'
    BY <1>1 DEF CommitInv, PatchTrue, Made
  <1>3. ASSUME ~inCopy PROVE WrittenTrue'
    <2>1. \A f \in Files : disk[f] = IF \E i \in DOMAIN order : i < next /\ order[i] = f
                                       THEN Written(patched[f]) ELSE before[f]
      BY <1>1, <1>3 DEF CommitInv, WrittenTrue
    <2>2. \A i \in DOMAIN order : i < next
      BY <1>1 DEF EInv, TypeOK
    <2>3. {order[i] : i \in DOMAIN order} = {f \in Files : patched[f] # NoText}
      BY DEF EInv, TypeOK
    <2>4. \A f \in Files : patched[f] # NoText <=> \E i \in DOMAIN order : order[i] = f
      BY <2>3
    <2>5. \A f \in Files : disk[f] = IF patched[f] # NoText THEN Written(patched[f])
                                                          ELSE before[f]
      BY <2>1, <2>2, <2>4
    <2> QED
      BY <1>1, <2>5 DEF WrittenTrue
  <1>4. inCopy => WrittenTrue'
    BY <1>1 DEF WrittenTrue
  <1> QED
    BY <1>1, <1>2, <1>3, <1>4 DEF CommitInv

LEMMA OthersCommit ==
  ASSUME EInv, CommitInv,
         \/ UNCHANGED vars
         \/ RejectPlan \/ RefuseChange \/ ChangeRaises \/ WriteFails \/ CheckSyntax \/ RunTests
         \/ RestoreFile \/ RestoreFails \/ RestoreDone \/ Interrupt
  PROVE  CommitInv'
  <1>1. plan' = plan
    BY DEF vars, RejectPlan, RefuseChange, ChangeRaises, PatchFails, WriteFails, CheckSyntax,
           RunTests, RestoreFile, RestoreFails, RestoreDone, Interrupt, End
  <1>2. CASE UNCHANGED vars
    BY <1>2 DEF vars, memory, CommitInv, PatchTrue, WrittenTrue, Made
  <1>3. CASE phase' \in {"idle", "restore"}
    BY <1>1, <1>3 DEF CommitInv, PatchTrue, WrittenTrue
  <1>4. CASE CheckSyntax /\ phase' = "test"
    BY <1>1, <1>4 DEF CheckSyntax, memory, CommitInv, PatchTrue, WrittenTrue, Made
  <1>5. UNCHANGED vars \/ phase' \in {"idle", "restore"} \/ (CheckSyntax /\ phase' = "test")
    BY DEF RejectPlan, RefuseChange, ChangeRaises, PatchFails, WriteFails, CheckSyntax,
           RunTests, RestoreFile, RestoreFails, RestoreDone, Interrupt, End
  <1> QED
    BY <1>2, <1>3, <1>4, <1>5

\* What a step has made of the files is always what its plan says, change by
\* change, and what has been written is what has been made.
THEOREM CommitsThePlan == Spec => []CommitInv
  <1>1. Init => CommitInv
    BY PlansAssumption DEF Init, CommitInv, PatchTrue, WrittenTrue
  <1>2. EInv /\ CommitInv /\ [Next]_vars => CommitInv'
    <2> SUFFICES ASSUME EInv, CommitInv, [Next]_vars PROVE CommitInv'
      OBVIOUS
    <2> QED
      BY StartCommits, MakeCommits, BeginWritingCommits, WriteCommits, WrittenCommits, OthersCommit
         DEF Next, StepAction
  <1> QED
    BY <1>1, <1>2, EditInvariant, PTL DEF Spec
------------------------------------------------------------------------------
\* The step keeps the promise of AtomicEdit.

\* The files as the promise sees them.
Shown == SeenAs(IF phase = "idle" THEN disk ELSE before)

LEMMA ShownFile ==
  ASSUME NEW d, NEW f \in Files
  PROVE  /\ SeenAs(d)[f] = [kind |-> d[f].kind, text |-> d[f].text]
         /\ SeenAs(d)[f].kind = d[f].kind /\ SeenAs(d)[f].text = d[f].text
  BY DEF SeenAs

\* Both modules speak of plans in the same words.
LEMMA SameWords ==
  /\ \A p : Promise!Named(p) = Named(p) /\ Promise!Touched(p) = Touched(p)
  /\ \A c : Promise!Lands(c) <=> Lands(c)
  /\ \A p, f : Promise!EmptiedAndEdited(p, f) <=> EmptiedAndEdited(p, f)
  /\ \A p, n, f, old, new :
       Promise!Composed(p, n, f, old, new) <=> Composed(p, n, f, old, new)
  <1>1. Promise!Empty = Empty /\ \A c : Promise!PassedOver(c) <=> PassedOver(c)
    BY DEF Promise!Empty, Empty, Promise!PassedOver, PassedOver
  <1>2. \A p : Promise!Named(p) = Named(p) /\ Promise!Touched(p) = Touched(p)
    BY <1>1 DEF Promise!Named, Named, Promise!Touched, Touched
  <1>3. \A c : Promise!Lands(c) <=> Lands(c)
    BY <1>1 DEF Promise!Lands, Lands
  <1>4. \A p, f : Promise!EmptiedAndEdited(p, f) <=> EmptiedAndEdited(p, f)
    BY DEF Promise!EmptiedAndEdited, EmptiedAndEdited
  <1>5. ASSUME NEW p, NEW n, NEW f, NEW old, NEW new
        PROVE  Promise!Composed(p, n, f, old, new) <=> Composed(p, n, f, old, new)
    BY <1>1, Zenon DEF Promise!Composed, Composed
  <1> QED
    BY <1>2, <1>3, <1>4, <1>5

\* A step that succeeds on the project has made every change of its plan.
LEMMA SuccessCommits ==
  ASSUME EInv, CommitInv, RunTests, phase' = "idle", ~inCopy
  PROVE  Promise!Commit
  <1>1. /\ phase = "test" /\ disk' = disk /\ plan \in Plans
        /\ result' = [status |-> "ok", files |-> {order[i] : i \in DOMAIN order},
                      sandboxed |-> FALSE, faulted |-> FALSE]
    BY DEF RunTests, End, CommitInv
  <1>2. /\ Shown = SeenAs(before) /\ Shown' = SeenAs(disk)
    BY <1>1 DEF Shown, SeenAs
  <1>3. plan \in Seq(Change) /\ DOMAIN plan = 1 .. Len(plan)
    BY DEF EInv, TypeOK
  <1>4. /\ \A i \in DOMAIN plan : Lands(plan[i])
        /\ \A f \in Files : Patches(plan, Len(plan), f, before[f], patched[f])
    BY <1>1, <1>3 DEF CommitInv, PatchTrue, Made
  <1>5. \A f \in Files : disk[f] = IF patched[f] # NoText THEN Written(patched[f]) ELSE before[f]
    BY <1>1 DEF CommitInv, WrittenTrue
  <1>6. \A f \in Files : patched[f] # NoText <=> f \in Touched(plan)
    <2>1. \A f \in Files : Mine(plan, Len(plan), f) # {} <=> f \in Touched(plan)
      BY <1>3 DEF Mine, Touched
    <2> QED
      BY <1>4, <2>1 DEF Patches
  <1>7. {order[i] : i \in DOMAIN order} = Touched(plan)
    <2>1. {order[i] : i \in DOMAIN order} = {f \in Files : patched[f] # NoText}
      BY DEF EInv, TypeOK
    <2>2. ASSUME NEW f \in Touched(plan) PROVE f \in Files
      <3>1. PICK i \in DOMAIN plan : f = plan[i].file
        BY DEF Touched
      <3>2. plan[i] \in Change
        BY <1>3
      <3> QED
        BY <3>1, <3>2 DEF Change
    <2> QED
      BY <1>6, <2>1, <2>2
  <1>8. ASSUME NEW f \in Files
        PROVE  IF f \in Touched(plan)
                 THEN /\ Shown'[f].kind = "text"
                      /\ \/ Composed(plan, Len(plan), f, Shown[f].text, Shown'[f].text)
                         \/ EmptiedAndEdited(plan, f)
                 ELSE Shown'[f] = Shown[f]
    <2>1. CASE f \in Touched(plan)
      <3>1. disk[f].kind = "text" /\ disk[f].text = patched[f]
        <4>1. disk[f] = Written(patched[f])
          BY <1>5, <1>6, <2>1
        <4> QED
          BY <4>1 DEF Written
      <3>2. Composed(plan, Len(plan), f, before[f].text, patched[f]) \/ EmptiedAndEdited(plan, f)
        BY <1>4, <1>6, <2>1 DEF Patches
      <3>3. Shown'[f].kind = "text" /\ Shown'[f].text = patched[f]
            /\ Shown[f].text = before[f].text
        BY <1>2, <3>1, ShownFile
      <3> QED
        BY <2>1, <3>2, <3>3
    <2>2. CASE f \notin Touched(plan)
      <3>1. disk[f] = before[f]
        BY <1>5, <1>6, <2>2
      <3> QED
        BY <1>2, <2>2, <3>1, ShownFile DEF SeenAs
    <2> QED
      BY <2>1, <2>2
  <1> QED
    BY <1>1, <1>4, <1>7, <1>8, SameWords DEF Promise!Commit, Shown

\* A success in the sandbox changes nothing of the project.
LEMMA RehearsalPromised ==
  ASSUME EInv, CommitInv, RunTests, phase' = "idle", inCopy
  PROVE  Promise!Rehearse
  <1>1. /\ phase = "test" /\ plan \in Plans /\ disk' = disk /\ disk = before
        /\ result' = [status |-> "ok", files |-> {order[i] : i \in DOMAIN order},
                      sandboxed |-> TRUE, faulted |-> FALSE]
    BY DEF RunTests, End, EInv, SandboxTrue, CommitInv
  <1>2. {order[i] : i \in DOMAIN order} \subseteq Files
    BY DEF EInv, TypeOK
  <1>3. Shown' = Shown
    BY <1>1 DEF Shown, SeenAs
  <1> QED
    BY <1>1, <1>2, <1>3 DEF Promise!Rehearse, Promise!Result, Shown

\* A step that ends without success keeps the promise.
LEMMA EndPromised ==
  ASSUME EInv, EInv', CommitInv, WriteFails \/ RestoreDone \/ Interrupt
  PROVE  Promise!Refuse \/ Promise!Rehearse \/ Promise!Break
  <1>1. /\ phase # "idle" /\ phase' = "idle" /\ plan' = plan /\ before' = before
        /\ inCopy \in BOOLEAN /\ plan \in Plans /\ faulted \in BOOLEAN
    BY DEF WriteFails, RestoreDone, Interrupt, End, EInv, TypeOK, CommitInv
  <1>2. Shown = SeenAs(before) /\ Shown' = SeenAs(disk')
    BY <1>1 DEF Shown, SeenAs
  <1>3. PICK status \in {"failed", "raised"}, fault \in BOOLEAN :
          /\ result' = [status |-> status, files |-> {}, sandboxed |-> inCopy, faulted |-> fault]
          /\ fault \/ (RestoreDone /\ ~faulted /\ status = "failed")
    BY <1>1 DEF WriteFails, RestoreDone, Interrupt, End
  <1>4. result' \in Promise!Result
    BY <1>1, <1>3 DEF Promise!Result
  <1>5. ~fault => \A f \in Files :
          \/ disk'[f].kind = before[f].kind /\ disk'[f].text = before[f].text
          \/ f \in Named(plan) /\ before[f].kind = "binary" /\ disk'[f].kind = "absent"
    BY <1>1, <1>3 DEF EInv, FailedEditHarmless, Unharmed
  <1>6. CASE inCopy
    <2>1. disk' = disk
      BY <1>6 DEF WriteFails, RestoreDone, Interrupt
    <2>2. \A f \in Files : disk'[f] = before[f] \/ f \in Named(plan) \cap Outside
      BY <1>6, <2>1 DEF EInv, SandboxTrue, OnlyNamedFiles, OnHost
    <2>3. ASSUME NEW f \in Files
          PROVE  \/ Shown'[f] = Shown[f]
                 \/ /\ f \in Named(plan) \cap Outside
                    /\ fault \/ (Shown[f].kind = "binary" /\ Shown'[f].kind = "absent")
      BY <1>2, <1>5, <2>2, ShownFile DEF SeenAs
    <2> QED
      BY <1>1, <1>3, <1>4, <1>6, <2>3, SameWords DEF Promise!Rehearse, Shown
  <1>7. CASE ~inCopy /\ fault
    <2>1. \A f \in Files \ Named(plan) : disk'[f] = before[f]
      BY <1>1 DEF EInv, OnlyNamedFiles
    <2>2. ASSUME NEW f \in Files \ Named(plan) PROVE Shown'[f] = Shown[f]
      BY <1>2, <2>1, ShownFile DEF SeenAs
    <2> QED
      BY <1>1, <1>3, <1>4, <1>7, <2>2, SameWords DEF Promise!Break, Shown
  <1>8. CASE ~inCopy /\ ~fault
    <2>1. ASSUME NEW f \in Files
          PROVE  \/ Shown'[f] = Shown[f]
                 \/ /\ f \in Named(plan) /\ Shown[f].kind = "binary"
                    /\ Shown'[f].kind = "absent"
      BY <1>2, <1>5, <1>8, ShownFile DEF SeenAs
    <2> QED
      BY <1>1, <1>3, <1>8, <2>1, SameWords DEF Promise!Refuse, Shown
  <1> QED
    BY <1>6, <1>7, <1>8

\* A request without a plan is refused, and changes nothing.
LEMMA NothingPromised ==
  ASSUME EInv, NothingPlanned
  PROVE  Promise!Refuse
  <1>1. /\ Shown' = Shown /\ <<>> \in Plans
        /\ result' = [status |-> "failed", files |-> {}, sandboxed |-> FALSE, faulted |-> FALSE]
    BY PlansAssumption DEF NothingPlanned, NoResult, Shown, SeenAs
  <1> QED
    BY <1>1 DEF Promise!Refuse, Shown

\* The other steps are not seen.
LEMMA InnerUnseen ==
  ASSUME EInv,
         \/ UNCHANGED vars \/ BeginEdit \/ BeginCheck
         \/ RejectPlan \/ SkipChange \/ RefuseChange \/ ChangeRaises \/ MakeChange
         \/ BeginWriting \/ WriteFile \/ AllWritten \/ CheckSyntax
         \/ RestoreFile \/ RestoreFails \/ (RunTests /\ phase' # "idle")
  PROVE  UNCHANGED <<Shown, result>>
  <1>1. CASE UNCHANGED vars
    BY <1>1 DEF vars, Shown, SeenAs
  <1>2. CASE BeginEdit \/ BeginCheck
    <2>1. phase = "idle" /\ phase' # "idle" /\ before' = disk /\ result' = result
      BY <1>2 DEF BeginEdit, BeginCheck, Begin
    <2> QED
      BY <2>1 DEF Shown, SeenAs
  <1>3. CASE ~(UNCHANGED vars \/ BeginEdit \/ BeginCheck)
    <2>1. phase # "idle" /\ phase' # "idle" /\ before' = before /\ result' = result
      BY <1>3 DEF RejectPlan, SkipChange, RefuseChange, ChangeRaises, MakeChange, BeginWriting,
                  WriteFile, AllWritten, CheckSyntax, RestoreFile, RestoreFails, RunTests,
                  PatchFails, AtChange, End
    <2> QED
      BY <2>1 DEF Shown, SeenAs
  <1> QED
    BY <1>1, <1>2, <1>3

\* All or nothing: every behaviour of the edit step is one that the promise
\* allows, with the files as they were while a step runs.
THEOREM EditRefinesAtomicEdit == Spec => ImplementsAtomicEdit
  <1>1. Init => Promise!Init
    <2> SUFFICES ASSUME Init PROVE Promise!Init
      OBVIOUS
    <2>1. Shown = SeenAs(disk) /\ disk \in [Files -> Content]
      BY DisksAssumption DEF Init, Shown
    <2>2. \A f \in Files : [kind |-> disk[f].kind, text |-> disk[f].text] \in Promise!Seen
      <3>1. /\ Promise!Text = Text /\ Promise!NoText = NoText
        BY DEF Promise!Text, Text, Promise!Mark, Mark, Promise!NoText, NoText
      <3> QED
        BY <2>1, <3>1 DEF Content, Promise!Seen
    <2>3. Shown \in [Files -> Promise!Seen]
      BY <2>1, <2>2 DEF SeenAs
    <2>4. result = Promise!NoResult
      BY DEF Init, NoResult, Promise!NoResult
    <2> QED
      BY <2>3, <2>4 DEF Promise!Init, Shown
  <1>2. EInv /\ EInv' /\ CommitInv /\ [Next]_vars => [Promise!Next]_(Promise!aeVars)
    <2> SUFFICES ASSUME EInv, EInv', CommitInv, [Next]_vars
                 PROVE  Promise!Next \/ UNCHANGED Promise!aeVars
      OBVIOUS
    <2>1. CASE RunTests /\ phase' = "idle" /\ ~inCopy
      BY <2>1, SuccessCommits DEF Promise!Next
    <2>2. CASE RunTests /\ phase' = "idle" /\ inCopy
      <3>1. Promise!Rehearse
        BY <2>2, RehearsalPromised
      <3> QED
        BY <3>1 DEF Promise!Next
    <2>3. CASE WriteFails \/ RestoreDone \/ Interrupt
      BY <2>3, EndPromised DEF Promise!Next
    <2>4. CASE NothingPlanned
      BY <2>4, NothingPromised DEF Promise!Next
    <2>5. CASE \/ UNCHANGED vars \/ BeginEdit \/ BeginCheck
               \/ RejectPlan \/ SkipChange \/ RefuseChange \/ ChangeRaises \/ MakeChange
               \/ BeginWriting \/ WriteFile \/ AllWritten \/ CheckSyntax
               \/ RestoreFile \/ RestoreFails \/ (RunTests /\ phase' # "idle")
      <3>1. UNCHANGED <<Shown, result>>
        BY <2>5, InnerUnseen
      <3> QED
        BY <3>1 DEF Promise!aeVars, Shown
    <2> QED
      BY <2>1, <2>2, <2>3, <2>4, <2>5 DEF Next, StepAction, EInv, TypeOK
  <1> QED
    BY <1>1, <1>2, EditInvariant, CommitsThePlan, PTL
       DEF Spec, ImplementsAtomicEdit, Promise!Spec
------------------------------------------------------------------------------
\* How long a step can go on.

\* What is still to be done at most: changes are made, then files written, one for
\* each change that made a new text, and in the end every file is restored once.
WorkLeft ==
  CASE phase = "patch"   -> Len(plan) + 5 + Len(order) + 2 * (Len(plan) + 1 - next)
    [] phase = "write"   -> Len(plan) + 4 + (Len(order) + 1 - next)
    [] phase = "check"   -> Len(plan) + 3
    [] phase = "test"    -> Len(plan) + 2
    [] phase = "restore" -> Cardinality(todo) + 1
    [] OTHER             -> 0

\* Each part of a step uses up some of what is left.  Nothing is tried twice: a
\* rollback that fails for a file goes on with the next.
Counts == {WorkLeft, WorkLeft'} \subseteq Nat /\ WorkLeft' < WorkLeft
EditCounts == [][phase # "idle" => Counts]_vars

\* The pointer stays within the changes, and within the files to write.
PointerTrue ==
  /\ phase = "patch" => next <= Len(plan) + 1
  /\ phase = "write" => next <= Len(order) + 1

\* The files of a plan are no more than its changes.
LEMMA NamedFinite ==
  ASSUME NEW p \in Seq(Change)
  PROVE  IsFiniteSet(Named(p)) /\ Cardinality(Named(p)) <= Len(p)
  <1> DEFINE file == [i \in DOMAIN p |-> p[i].file]
  <1>1. DOMAIN p = 1 .. Len(p) /\ Len(p) \in Nat
    OBVIOUS
  <1>2. IsFiniteSet(DOMAIN p) /\ Cardinality(DOMAIN p) = Len(p)
    BY <1>1, FS_Interval
  <1>3. file \in Surjection(DOMAIN p, Named(p))
    BY DEF Surjection, Named
  <1> QED
    BY <1>2, <1>3, FS_Surjection

LEMMA PointerKeeps ==
  ASSUME EInv, PointerTrue, [Next]_vars
  PROVE  PointerTrue'
  <1>1. /\ plan \in Seq(Change) /\ order \in Seq(Files) /\ next \in Nat \ {0}
        /\ Len(plan) \in Nat /\ Len(order) \in Nat
    BY DEF EInv, TypeOK
  <1>2. CASE UNCHANGED vars
    BY <1>2 DEF vars, memory, PointerTrue
  <1>3. CASE BeginEdit
    <2>1. PICK p \in Plans : phase' = "patch" /\ plan' = p /\ next' = 1
      BY <1>3 DEF BeginEdit, Begin
    <2>2. Len(p) \in Nat
      BY PlansAssumption
    <2> QED
      BY <2>1, <2>2 DEF PointerTrue
  <1>4. CASE SkipChange \/ MakeChange
    <2>1. /\ phase' = "patch" /\ plan' = plan /\ next' = next + 1 /\ next <= Len(plan)
      BY <1>4 DEF SkipChange, MakeChange, AtChange
    <2> QED
      BY <1>1, <2>1 DEF PointerTrue
  <1>5. CASE BeginWriting
    <2>1. phase' = "write" /\ next' = 1 /\ order' = order
      BY <1>5 DEF BeginWriting, memory
    <2> QED
      BY <1>1, <2>1 DEF PointerTrue
  <1>6. CASE WriteFile
    <2>1. phase' = "write" /\ next' = next + 1 /\ order' = order /\ next <= Len(order)
      BY <1>6 DEF WriteFile, memory
    <2> QED
      BY <1>1, <2>1 DEF PointerTrue
  <1>7. CASE NothingPlanned
    BY <1>7 DEF NothingPlanned, PointerTrue
  <1>8. CASE \/ BeginCheck \/ RejectPlan \/ RefuseChange \/ ChangeRaises \/ WriteFails
             \/ AllWritten \/ CheckSyntax \/ RunTests \/ RestoreFile \/ RestoreFails
             \/ RestoreDone \/ Interrupt
    <2>1. phase' \in {"idle", "test", "check", "restore"}
      BY <1>8 DEF BeginCheck, Begin, RejectPlan, RefuseChange, ChangeRaises, PatchFails,
                  WriteFails, AllWritten, CheckSyntax, RunTests, RestoreFile, RestoreFails,
                  RestoreDone, Interrupt, End
    <2> QED
      BY <2>1 DEF PointerTrue
  <1> QED
    BY <1>2, <1>3, <1>4, <1>5, <1>6, <1>7, <1>8 DEF Next, StepAction

\* What is left is a number, and in every phase but a rollback more than a
\* rollback takes.
LEMMA WorkLeftBounds ==
  ASSUME EInv, PointerTrue
  PROVE  /\ WorkLeft \in Nat
         /\ phase # "idle" => WorkLeft > 0
         /\ phase \in {"patch", "write", "check", "test"} =>
              WorkLeft > Cardinality(Named(plan)) + 1
  <1>1. /\ plan \in Seq(Change) /\ Len(plan) \in Nat /\ Len(order) \in Nat
        /\ next \in Nat \ {0}
        /\ phase \in {"idle", "patch", "write", "check", "test", "restore"}
    BY DEF EInv, TypeOK
  <1>2. Cardinality(Named(plan)) \in Nat /\ Cardinality(Named(plan)) <= Len(plan)
    BY <1>1, NamedFinite, FS_CardinalityType
  <1>3. phase = "restore" => Cardinality(todo) \in Nat
    <2>1. phase = "restore" => todo \in SUBSET Named(plan)
      BY DEF EInv, SnapshotTrue
    <2> QED
      BY <1>1, <2>1, NamedFinite, FS_Subset, FS_CardinalityType
  <1> DEFINE c == Cardinality(Named(plan))
             n == Len(plan)
             m == Len(order)
  <1> HIDE DEF c, n, m
  <1>4. c \in Nat /\ c <= n /\ n \in Nat /\ m \in Nat
    BY <1>1, <1>2 DEF c, n, m
  <1>5. CASE phase = "patch"
    <2>1. WorkLeft = n + 5 + m + 2 * (n + 1 - next) /\ next <= n + 1
      BY <1>5 DEF WorkLeft, PointerTrue, n, m
    <2>2. WorkLeft \in Nat /\ WorkLeft > c + 1
      BY <1>1, <1>4, <2>1
    <2> QED
      BY <1>4, <2>2 DEF c
  <1>6. CASE phase = "write"
    <2>1. WorkLeft = n + 4 + (m + 1 - next) /\ next <= m + 1
      BY <1>6 DEF WorkLeft, PointerTrue, n, m
    <2>2. WorkLeft \in Nat /\ WorkLeft > c + 1
      BY <1>1, <1>4, <2>1
    <2> QED
      BY <1>4, <2>2 DEF c
  <1>7. CASE phase \in {"check", "test"}
    <2>1. WorkLeft \in {n + 3, n + 2}
      BY <1>7 DEF WorkLeft, n
    <2>2. WorkLeft \in Nat /\ WorkLeft > c + 1
      BY <1>4, <2>1
    <2> QED
      BY <1>4, <2>2 DEF c
  <1>8. CASE phase \in {"restore", "idle"}
    BY <1>3, <1>8 DEF WorkLeft
  <1> QED
    BY <1>1, <1>5, <1>6, <1>7, <1>8

LEMMA WorkShrinks ==
  ASSUME EInv, EInv', PointerTrue, PointerTrue', phase # "idle", Next
  PROVE  WorkLeft' < WorkLeft
  <1>1. /\ plan \in Seq(Change) /\ order \in Seq(Files) /\ next \in Nat \ {0}
        /\ Len(plan) \in Nat /\ Len(order) \in Nat
    BY DEF EInv, TypeOK
  <1>2. /\ WorkLeft \in Nat /\ WorkLeft > 0
        /\ phase \in {"patch", "write", "check", "test"} =>
             WorkLeft > Cardinality(Named(plan)) + 1
    BY WorkLeftBounds
  <1>3. ~(BeginEdit \/ BeginCheck \/ NothingPlanned)
    BY DEF BeginEdit, BeginCheck, Begin, NothingPlanned
  <1>4. CASE phase' = "idle"
    BY <1>2, <1>4 DEF WorkLeft
  <1>5. CASE /\ phase \in {"patch", "write", "check", "test"} /\ phase' = "restore"
             /\ todo' = Named(plan)
    BY <1>2, <1>5 DEF WorkLeft
  <1>6. CASE SkipChange
    <2>1. /\ phase = "patch" /\ phase' = "patch" /\ plan' = plan /\ order' = order
          /\ next' = next + 1
      BY <1>6 DEF SkipChange, AtChange, memory
    <2> QED
      BY <1>1, <2>1 DEF WorkLeft
  <1>7. CASE MakeChange
    <2>1. /\ phase = "patch" /\ phase' = "patch" /\ plan' = plan /\ next' = next + 1
          /\ order' = OrderWith(plan[next].file)
      BY <1>7 DEF MakeChange, AtChange
    <2>2. Len(order') \in Nat /\ Len(order') <= Len(order) + 1
      BY <1>1, <2>1 DEF OrderWith
    <2> QED
      BY <1>1, <2>1, <2>2 DEF WorkLeft
  <1>8. CASE BeginWriting
    <2>1. /\ phase = "patch" /\ phase' = "write" /\ plan' = plan /\ order' = order
          /\ next' = 1 /\ next <= Len(plan) + 1
      BY <1>8 DEF BeginWriting, memory, PointerTrue
    <2> QED
      BY <1>1, <2>1 DEF WorkLeft
  <1>9. CASE WriteFile
    <2>1. /\ phase = "write" /\ phase' = "write" /\ plan' = plan /\ order' = order
          /\ next' = next + 1
      BY <1>9 DEF WriteFile, memory
    <2> QED
      BY <1>1, <2>1 DEF WorkLeft
  <1>10. CASE AllWritten
    <2>1. phase = "write" /\ phase' = "check" /\ plan' = plan /\ next <= Len(order) + 1
      BY <1>10 DEF AllWritten, PointerTrue
    <2> QED
      BY <1>1, <2>1 DEF WorkLeft
  <1>11. CASE CheckSyntax /\ phase' = "test"
    <2>1. phase = "check" /\ plan' = plan
      BY <1>11 DEF CheckSyntax
    <2> QED
      BY <1>1, <1>11, <2>1 DEF WorkLeft
  <1>12. CASE RestoreFile \/ RestoreFails
    <2>1. PICK f \in todo : phase = "restore" /\ phase' = "restore" /\ todo' = todo \ {f}
      BY <1>12 DEF RestoreFile, RestoreFails, StillToRestore
    <2>2. IsFiniteSet(todo) /\ Cardinality(todo) \in Nat
      <3>1. todo \in SUBSET Named(plan)
        BY <2>1 DEF EInv, SnapshotTrue
      <3> QED
        BY <1>1, <3>1, NamedFinite, FS_Subset, FS_CardinalityType
    <2>3. Cardinality(todo \ {f}) = Cardinality(todo) - 1
      BY <2>1, <2>2, FS_RemoveElement
    <2> QED
      BY <2>1, <2>2, <2>3 DEF WorkLeft
  <1>13. CASE \/ RejectPlan \/ RefuseChange \/ ChangeRaises \/ WriteFails \/ RunTests \/ RestoreDone
              \/ Interrupt \/ (CheckSyntax /\ phase' # "test")
    <2>1. CASE RejectPlan \/ RefuseChange \/ ChangeRaises
      BY <1>5, <2>1 DEF RejectPlan, RefuseChange, ChangeRaises, AtChange, PatchFails
    <2>2. CASE WriteFails \/ RestoreDone \/ Interrupt
      BY <1>4, <2>2 DEF WriteFails, RestoreDone, Interrupt, End
    <2>3. CASE RunTests
      <3>1. phase = "test" /\ (phase' = "idle" \/ (phase' = "restore" /\ todo' = Named(plan)))
        BY <2>3 DEF RunTests, End
      <3> QED
        BY <1>4, <1>5, <3>1
    <2>4. CASE CheckSyntax /\ phase' # "test"
      BY <1>5, <2>4 DEF CheckSyntax
    <2> QED
      BY <1>13, <2>1, <2>2, <2>3, <2>4
  <1> QED
    BY <1>3, <1>6, <1>7, <1>8, <1>9, <1>10, <1>11, <1>12, <1>13 DEF Next, StepAction

\* An edit step of a plan with n changes has at most 3 * n + 5 parts, whatever
\* fails on the way.
THEOREM EditIsBounded == Spec => EditCounts
  <1> DEFINE Bounded == WorkLeft \in Nat
  <1>1. Init => PointerTrue
    BY DEF Init, PointerTrue
  <1>2. EInv /\ PointerTrue /\ [Next]_vars => PointerTrue'
    BY PointerKeeps
  <1>3. EInv /\ PointerTrue => Bounded
    BY WorkLeftBounds
  <1>4. EInv /\ EInv' /\ PointerTrue /\ PointerTrue' /\ Bounded /\ Bounded' /\ [Next]_vars
          => [phase # "idle" => Counts]_vars
    BY WorkShrinks DEF Counts
  <1> HIDE DEF Bounded
  <1> QED
    BY <1>1, <1>2, <1>3, <1>4, EditInvariant, PTL DEF Spec, EditCounts
==============================================================================
