------------------------------ MODULE EditPlans ------------------------------
(***************************************************************************)
(* The vocabulary of an edit: files, changes, and what a change does to a  *)
(* text.  A text is the sequence of the marks its changes have left: 1 is  *)
(* the text the file had at first, i + 1 what the i-th change of a plan    *)
(* adds, and the text without a mark is the empty one.                     *)
(***************************************************************************)
EXTENDS Naturals, Sequences

CONSTANTS
  Files,       \* the files a plan can name
  Python,      \* those with the suffix .py
  Refused,     \* forbidden paths, paths outside the project, index artifacts
  Outside      \* files that plans name by a path which does not lead into a copy of
               \* the project: an absolute one, or one that leaves the root

ASSUME FilesAssumption ==
  Python \subseteq Files /\ Refused \subseteq Files /\ Outside \subseteq Files

\* What the model proposes for a file, by what the code tells apart:
\*   sub       text_sub that finds its snippet        miss      one that does not
\*   clear     text_sub that removes the whole text   (or changes nothing)
\*   node      an edit of the syntax tree             raise     one that raises
\*   broken    text_sub with a result that does not   invalid   refused by the
\*             parse                                            preflight
\*   oversize  more than MAX_PATCH_LINES, or the deletion of a whole file
Patch == {"sub", "clear", "node", "miss", "broken", "raise", "invalid", "oversize"}
Change == [file : Files, patch : Patch]

Mark == Nat \ {0}
Text == Seq(Mark)
Original == <<1>>
Empty == <<>>
NoText == <<0>>        \* None: not a text

\* Structured changes of files that are not Python are passed over.
PassedOver(c) == c.file \notin Python /\ c.patch \in {"node", "raise"}

\* A change that nothing forbids, whatever the file holds.  What a text_sub makes
\* of a file that is not Python is not parsed.
Lands(c) ==
  /\ c.file \notin Refused
  /\ \/ PassedOver(c)
     \/ c.patch \in {"sub", "clear", "node"}
     \/ c.patch = "broken" /\ c.file \notin Python

Effect(p, text, mark) == IF p = "clear" THEN Empty ELSE Append(text, mark)

Named(plan) == {plan[i].file : i \in DOMAIN plan}
Touched(plan) ==
  {plan[i].file : i \in {j \in DOMAIN plan : ~PassedOver(plan[j])}}

\* new is what the first n changes of the plan make of the text old of f, each
\* made to the result of the one before: after the last change that empties f, or
\* after the old text when there is none, come the marks of the others in order.
Composed(plan, n, f, old, new) ==
  LET mine == {i \in 1 .. n : plan[i].file = f /\ ~PassedOver(plan[i])}
      clears == {i \in mine : plan[i].patch = "clear"}
      kept == {i \in mine \ clears : \A j \in clears : j < i}
      base == IF clears = {} THEN old ELSE Empty
      added == Len(base) + 1 .. Len(new)
  IN  /\ Len(base) <= Len(new) /\ \A k \in 1 .. Len(base) : new[k] = base[k]
      /\ {new[k] : k \in added} = {i + 1 : i \in kept}
      /\ \A k, l \in added : k < l => new[k] < new[l]

\* Some change empties f and a later one edits it again.
EmptiedAndEdited(plan, f) ==
  \E i, j \in DOMAIN plan : /\ i < j
                            /\ plan[i] = [file |-> f, patch |-> "clear"]
                            /\ plan[j].file = f
==============================================================================
