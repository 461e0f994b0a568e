----------------------------- MODULE AtomicEdit ------------------------------
(***************************************************************************)
(* What an edit step promises about the files of the project: all of its   *)
(* changes or none.  The module is the abstract side of a refinement; it   *)
(* has no snapshot, no order of writes, no checks and no tests.            *)
(*                                                                         *)
(* The promise has four exceptions, and the module names them: a fault of  *)
(* the storage or an interrupt can leave the files of the plan half done   *)
(* (Break); a refused edit deletes the files of the plan that cannot be    *)
(* decoded (Refuse); what an edit makes of a file that it empties on the   *)
(* way is left open (Commit); and an edit in the sandbox that does not     *)
(* succeed does to the files outside the copy what it would do without one *)
(* (Rehearse).                                                             *)
(***************************************************************************)
EXTENDS EditPlans

CONSTANT Plans            \* the plans an edit step can make

VARIABLES
  files,                  \* kind and text of each file
  last                    \* how the last edit ended

aeVars == <<files, last>>

NoResult == [status |-> "none", files |-> {}, sandboxed |-> FALSE, faulted |-> FALSE]
Result == [status : {"none", "ok", "failed", "raised"}, files : SUBSET Files,
           sandboxed : BOOLEAN, faulted : BOOLEAN]
Seen == [kind : {"text", "binary", "absent", "directory"}, text : Text \cup {NoText}]

Init == files \in [Files -> Seen] /\ last = NoResult

\* Every change of the plan is made, and the files reported are those changed.
Commit ==
  \E plan \in Plans :
    /\ \A i \in DOMAIN plan : Lands(plan[i])
    /\ last' = [status |-> "ok", files |-> Touched(plan),
                sandboxed |-> FALSE, faulted |-> FALSE]
    /\ \A f \in Files :
         IF f \in Touched(plan)
           THEN /\ files'[f].kind = "text"
                /\ \/ Composed(plan, Len(plan), f, files[f].text, files'[f].text)
                   \/ EmptiedAndEdited(plan, f)
           ELSE files'[f] = files[f]

\* Nothing is changed, but for files that could not be read.
Refuse ==
  /\ last' = [status |-> "failed", files |-> {}, sandboxed |-> FALSE, faulted |-> FALSE]
  /\ \E plan \in Plans :
       \A f \in Files : \/ files'[f] = files[f]
                        \/ /\ f \in Named(plan)
                           /\ files[f].kind = "binary"
                           /\ files'[f].kind = "absent"

\* In the sandbox a success leaves the project as it is, and what does not succeed
\* reaches only the files of the plan outside the copy.
Rehearse ==
  /\ last' \in Result
  /\ last'.sandboxed
  /\ last'.status = "ok" => UNCHANGED files
  /\ \E plan \in Plans :
       \A f \in Files : \/ files'[f] = files[f]
                        \/ /\ f \in Named(plan) \cap Outside
                           /\ \/ last'.faulted
                              \/ files[f].kind = "binary" /\ files'[f].kind = "absent"

\* A write failed or the step was interrupted: the files of the plan can hold
\* anything, the others are as before, and no success is reported.
Break ==
  /\ last' \in Result
  /\ last'.faulted /\ ~last'.sandboxed
  /\ last'.status \in {"failed", "raised"} /\ last'.files = {}
  /\ \E plan \in Plans :
       \A f \in Files \ Named(plan) : files'[f] = files[f]

Next == Commit \/ Refuse \/ Rehearse \/ Break

Spec == Init /\ [][Next]_aeVars
==============================================================================
