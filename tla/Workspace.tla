----------------------------- MODULE Workspace ------------------------------
(***************************************************************************)
(* The directory two `dore assay` meet in.  runFn writes a function's      *)
(* harness beside the implementation, in a file named after the function   *)
(* alone (internal/assay/assay.go), has Python run it, and removes it;     *)
(* an invocation may be killed at any point, and what it wrote stays.      *)
(*                                                                         *)
(* An invocation stands for one runFn: functions of one file have distinct *)
(* names (E0100) and are assayed one after the other.  What Python makes   *)
(* of a harness is the business of Assay; here it is only asked whose      *)
(* harness it ran.                                                         *)
(***************************************************************************)
EXTENDS Naturals, FiniteSets

CONSTANTS
  Proc,      (* the invocations *)
  Place,     (* Place[p]: the directory and the function name p assays *)
  Correct,   (* the invocations whose implementation meets its touchstone *)
  Keeping    (* the invocations with --keep-harness *)

ASSUME WorkspaceAssumption ==
  /\ DOMAIN Place = Proc /\ "nobody" \notin Proc
  /\ Correct \subseteq Proc /\ Keeping \subseteq Proc

VARIABLES
  pc,        (* "idle", "opened", "written", "ran", "done", "failed", "killed" *)
  file,      (* file[l]: the harness file of place l *)
  unlinked,  (* the invocations whose open file another one has removed *)
  ran,       (* ran[p]: the file p's Python read, if it has *)
  disturbed  (* history: the invocations that met another in their place *)

workspaceVars == <<pc, file, unlinked, ran, disturbed>>

Places == {Place[p] : p \in Proc}
Harness(p, whole) == [of |-> p, whole |-> whole]
Absent == Harness("nobody", FALSE)
Harnesses == {Harness(p, w) : p \in Proc, w \in BOOLEAN}

Busy(p) == pc[p] \in {"opened", "written", "ran"}
Become(p, state) == pc' = [pc EXCEPT ![p] = state]
Leave(l, contents) == file' = [file EXCEPT ![l] = contents]

----------------------------------------------------------------------------
WorkspaceInit ==
  /\ pc = [p \in Proc |-> "idle"]
  /\ file = [l \in Places |-> Absent]
  /\ unlinked = {} /\ ran = [p \in Proc |-> Absent]
  /\ disturbed = {}

Others(p) == {q \in Proc : Place[q] = Place[p] /\ Busy(q)}
Meet(p) ==
  disturbed' = disturbed \cup (IF Others(p) = {} THEN {} ELSE Others(p) \cup {p})

(* os.WriteFile opens with O_TRUNC: what stood in the file is gone, be it  *)
(* the harness of an invocation that was killed or of one that runs.       *)
OpenWithoutTruncating(p) ==
  /\ pc[p] = "idle"
  /\ Meet(p)
  /\ IF file[Place[p]] = Absent THEN Leave(Place[p], Harness(p, FALSE)) ELSE UNCHANGED file
  /\ Become(p, "opened")
  /\ UNCHANGED <<unlinked, ran>>

Open(p) ==
  /\ pc[p] = "idle"
  /\ Meet(p)
  /\ Leave(Place[p], Harness(p, FALSE))
  /\ Become(p, "opened")
  /\ UNCHANGED <<unlinked, ran>>

(* The write.  A file removed since is written where nobody finds it; one  *)
(* another invocation has written to may keep the end of that harness.     *)
Write(p) ==
  /\ pc[p] = "opened"
  /\ \/ p \in unlinked /\ UNCHANGED file
     \/ p \notin unlinked /\ Leave(Place[p], Harness(p, TRUE))
     \/ /\ p \notin unlinked /\ file[Place[p]].of # p
        /\ Leave(Place[p], Harness(p, FALSE))
  /\ Become(p, "written")
  /\ UNCHANGED <<unlinked, ran, disturbed>>

(* A full disk, say: runFn returns before it defers the removal. *)
WriteFails(p) ==
  /\ pc[p] = "opened"
  /\ Become(p, "failed")
  /\ UNCHANGED <<file, unlinked, ran, disturbed>>

(* crucible.Run: Python reads the file and runs what it read, to the end   *)
(* or to the deadline.                                                     *)
Run(p) ==
  /\ pc[p] = "written"
  /\ ran' = [ran EXCEPT ![p] = file[Place[p]]]
  /\ Become(p, "ran")
  /\ UNCHANGED <<file, unlinked, disturbed>>

(* The deferred os.Remove, or none with --keep-harness. *)
CleanUpNever(p) ==
  /\ pc[p] = "ran"
  /\ Become(p, "done")
  /\ UNCHANGED <<file, unlinked, ran, disturbed>>

CleanUp(p) ==
  /\ pc[p] = "ran"
  /\ \/ /\ p \notin Keeping /\ Leave(Place[p], Absent)
        /\ unlinked' = unlinked \cup {q \in Proc : Place[q] = Place[p] /\ pc[q] = "opened"}
     \/ p \in Keeping /\ UNCHANGED <<file, unlinked>>
  /\ Become(p, "done")
  /\ UNCHANGED <<ran, disturbed>>

(* An interrupt ends dore on the spot, without its deferred calls. *)
Killed(p) ==
  /\ Busy(p)
  /\ Become(p, "killed")
  /\ UNCHANGED <<file, unlinked, ran, disturbed>>

AllEnded == \A p \in Proc : pc[p] \in {"done", "failed", "killed"}
Ended == AllEnded /\ UNCHANGED workspaceVars

Invocation(p) ==
  Open(p) \/ Write(p) \/ WriteFails(p) \/ Run(p) \/ CleanUp(p) \/ Killed(p)

WorkspaceNext == Ended \/ \E p \in Proc : Invocation(p)
WorkspaceSpec == WorkspaceInit /\ [][WorkspaceNext]_workspaceVars

----------------------------------------------------------------------------
(* Properties. *)

(* The verdict of an invocation: green when its Python ran a whole harness *)
(* of an implementation that meets its touchstone.  (A harness that was    *)
(* cut short leaves rows unreported, a missing one all of them: Assay.)    *)
Green(p) ==
  /\ pc[p] = "done" /\ ran[p] \in Harnesses
  /\ ran[p].whole /\ ran[p].of \in Correct

(* "The actual values come from running the code" (assay.go:5): a green    *)
(* verdict on an implementation was earned by that implementation.         *)
VerdictIsOwn == \A p \in Proc : Green(p) => p \in Correct

(* An invocation that meets no other in its place runs its own harness,    *)
(* and all of it, whatever an earlier one that was killed or failed left   *)
(* in the file.                                                            *)
RunsOwnHarness ==
  \A p \in Proc \ disturbed : pc[p] = "ran" \/ ran[p] # Absent => ran[p] = Harness(p, TRUE)

(* However invocations overlap, the last one cleans up: a harness is left  *)
(* in a place only by an invocation that was killed there, could not write *)
(* it, or was asked to keep it.                                            *)
NothingLeft ==
  AllEnded =>
    \A l \in Places : file[l] # Absent =>
      \E p \in Proc : Place[p] = l /\ (p \in Keeping \/ pc[p] # "done")
=============================================================================
