------------------------------ MODULE Crucible ------------------------------
(***************************************************************************)
(* One call of crucible.Run (internal/crucible/crucible.go): a child       *)
(* process is started under a deadline, os/exec copies what the child puts *)
(* on its stdout pipe into a capped buffer, and Run returns that buffer    *)
(* with a verdict on how the child ended.                                  *)
(*                                                                         *)
(* Output is a sequence of lines.  A line cut by the cap, or by a flush    *)
(* whose other half never came, is a line that did not arrive: the only    *)
(* reader, assay.runFn, skips a line it cannot decode.  stderr is a second *)
(* pipe of the same shape and is left out.                                 *)
(***************************************************************************)
EXTENDS Integers, Sequences

CONSTANTS
  Line,           (* what the child may write, one element per line        *)
  Limit,          (* Limits.MaxOutput as the caller passed it              *)
  DefaultLimit,   (* DefaultLimits.MaxOutput                               *)
  PipeSize,       (* lines the operating system's pipe holds               *)
  MayDaemonize,   (* may the child leave a descendant holding its stdout?  *)
  MaxWritten      (* bound: lines the child writes in one run              *)

ASSUME CrucibleAssumption ==
  /\ Limit \in Int
  /\ DefaultLimit \in Nat \ {0}
  /\ PipeSize \in Nat \ {0}
  /\ MayDaemonize \in BOOLEAN
  /\ MaxWritten \in Nat

VARIABLES
  proc,         (* the child: "new", "running", "exited" or "killed"       *)
  descendant,   (* a process the child left behind holds the pipe open     *)
  pybuf,        (* written to sys.stdout, still in the interpreter         *)
  pipe,         (* in the pipe, not yet read                               *)
  stdout,       (* the capped buffer                                       *)
  expired,      (* the context's deadline has passed                       *)
  res,          (* what Run returned                                       *)
  written,      (* history: every line the program wrote                   *)
  discarded,    (* history: lines the cap dropped                          *)
  lost          (* history: lines that died inside the interpreter         *)

stream == <<written, pybuf, pipe, stdout, discarded, lost>>
crucibleVars == <<proc, descendant, expired, res, stream>>

Pending == [kind |-> "pending"]
RunError(why) == [kind |-> "error", why |-> why]
RunResult(late, how) == [kind |-> "result", timedOut |-> late, ended |-> how]

Results ==
  {Pending}
    \cup [kind : {"error"}, why : {"not found", "start"}]
    \cup [kind : {"result"}, timedOut : BOOLEAN, ended : {"new", "exited", "killed"}]

(* Limits.withDefaults: zero or less means the default. *)
MaxOutput == IF Limit <= 0 THEN DefaultLimit ELSE Limit

Idle ==
  /\ proc = "new" /\ res = Pending
  /\ descendant = FALSE /\ expired = FALSE
  /\ pybuf = <<>> /\ pipe = <<>> /\ stdout = <<>>
  /\ written = <<>> /\ discarded = <<>> /\ lost = <<>>

----------------------------------------------------------------------------
(* Run, up to the child's start. *)

Start ==
  /\ proc = "new" /\ res = Pending /\ ~expired
  /\ proc' = "running"
  /\ UNCHANGED <<descendant, expired, res, stream>>

(* exec.LookPath fails, or the operating system refuses to start it. *)
StartFails(why) ==
  /\ proc = "new" /\ res = Pending /\ ~expired
  /\ res' = RunError(why)
  /\ UNCHANGED <<proc, descendant, expired, stream>>

(* exec.Cmd.Start gives up when the context is already done; Run returns   *)
(* that as a timeout, not as an error.                                     *)
StartTooLate ==
  /\ proc = "new" /\ res = Pending /\ expired
  /\ res' = RunResult(TRUE, "new")
  /\ UNCHANGED <<proc, descendant, expired, stream>>

----------------------------------------------------------------------------
(* The child.  CPython's stdout is a pipe here, so it is block buffered:   *)
(* a line reaches the pipe when the buffer fills or at interpreter exit.   *)

Write(line) ==
  /\ proc = "running"
  /\ Len(written) < MaxWritten
  /\ written' = Append(written, line)
  /\ pybuf' = Append(pybuf, line)
  /\ UNCHANGED <<proc, descendant, pipe, stdout, expired, res, discarded, lost>>

Flush(n) ==
  /\ proc = "running"
  /\ Len(pipe) + n <= PipeSize
  /\ pipe' = pipe \o SubSeq(pybuf, 1, n)
  /\ pybuf' = SubSeq(pybuf, n + 1, Len(pybuf))
  /\ UNCHANGED <<proc, descendant, stdout, expired, res, written, discarded, lost>>

(* The child ends, and its interpreter dies with what it had not flushed. *)
Die(how) ==
  /\ proc = "running"
  /\ proc' = how
  /\ lost' = pybuf
  /\ pybuf' = <<>>
  /\ UNCHANGED <<descendant, pipe, stdout, expired, res, written, discarded>>

(* An orderly exit flushes first; os._exit and a fatal signal do not. *)
Exit == pybuf = <<>> /\ Die("exited")
Crash == pybuf # <<>> /\ Die("exited")

Daemonize ==
  /\ MayDaemonize /\ proc = "running" /\ ~descendant
  /\ descendant' = TRUE
  /\ UNCHANGED <<proc, expired, res, stream>>

DescendantEnds ==
  /\ descendant
  /\ descendant' = FALSE
  /\ UNCHANGED <<proc, expired, res, stream>>

----------------------------------------------------------------------------
(* The parent: the context's timer, os/exec's goroutines, and Run. *)

Lesser(a, b) == IF a < b THEN a ELSE b

(* How many lines of a chunk of n the capped writer still takes. *)
KeptDropsWholeChunk(n) == IF n > MaxOutput - Len(stdout) THEN 0 ELSE n
KeptIgnoresCap(n) == n
Kept(n) == Lesser(n, MaxOutput - Len(stdout))

(* os/exec's copying goroutine reads n lines and hands them to capped.     *)
(* Write, which always claims the whole chunk, so copying never stops.     *)
CopyStopsAtCap(n) ==
  /\ Len(stdout) < MaxOutput
  /\ stdout' = stdout \o SubSeq(pipe, 1, Kept(n))
  /\ discarded' = discarded \o SubSeq(pipe, Kept(n) + 1, n)
  /\ pipe' = SubSeq(pipe, n + 1, Len(pipe))
  /\ UNCHANGED <<proc, descendant, pybuf, expired, res, written, lost>>

CopyAgain(n) ==
  /\ stdout' = stdout \o SubSeq(pipe, 1, Kept(n))
  /\ discarded' = discarded \o SubSeq(pipe, Kept(n) + 1, n)
  /\ pipe' = SubSeq(pipe, n, Len(pipe))
  /\ UNCHANGED <<proc, descendant, pybuf, expired, res, written, lost>>

Copy(n) ==
  /\ stdout' = stdout \o SubSeq(pipe, 1, Kept(n))
  /\ discarded' = discarded \o SubSeq(pipe, Kept(n) + 1, n)
  /\ pipe' = SubSeq(pipe, n + 1, Len(pipe))
  /\ UNCHANGED <<proc, descendant, pybuf, expired, res, written, lost>>

(* context.WithTimeout's timer; cancel() stops it when Run returns. *)
Expire ==
  /\ res = Pending /\ ~expired
  /\ expired' = TRUE
  /\ UNCHANGED <<proc, descendant, res, stream>>

(* os/exec kills the child, and only the child, once the context is done. *)
Kill == expired /\ Die("killed")

(* cmd.Run returns when the child has been reaped and the copying          *)
(* goroutine has seen end of file: the pipe is empty and nobody holds it.  *)
(* TimedOut is then read from the context, not from how the child ended.   *)
ReturnUndrained ==
  /\ proc \in {"exited", "killed"} /\ res = Pending
  /\ res' = RunResult(expired, proc)
  /\ UNCHANGED <<proc, descendant, expired, stream>>

Return ==
  /\ proc \in {"exited", "killed"} /\ res = Pending
  /\ pipe = <<>> /\ ~descendant
  /\ res' = RunResult(expired, proc)
  /\ UNCHANGED <<proc, descendant, expired, stream>>

----------------------------------------------------------------------------
Launch == Start \/ StartTooLate \/ \E why \in {"not found", "start"} : StartFails(why)
Drain == \E n \in 1 .. Len(pipe) : Copy(n)
Parent == Launch \/ Drain \/ Kill \/ Return

Child ==
  \/ \E line \in Line : Write(line)
  \/ \E n \in 1 .. Len(pybuf) : Flush(n)
  \/ Exit \/ Crash \/ Daemonize

(* Run has returned and what the child left behind is gone: no more steps. *)
Returned == res # Pending /\ ~descendant /\ UNCHANGED crucibleVars

Next == Parent \/ Expire \/ Child \/ DescendantEnds \/ Returned

Spec == Idle /\ [][Next]_crucibleVars

(* The scheduler runs Run's goroutine and os/exec's two, each for itself,  *)
(* and the clock advances.  Nothing obliges the child, or what it leaves   *)
(* behind, to do anything.                                                 *)
FairSpec ==
  /\ Spec
  /\ WF_crucibleVars(Launch) /\ WF_crucibleVars(Return)
  /\ WF_crucibleVars(Drain) /\ WF_crucibleVars(Kill)
  /\ WF_crucibleVars(Expire)

----------------------------------------------------------------------------
(* Properties. *)

(* Types, with the bounds the pipe and the cap impose. *)
TypeOK ==
  /\ proc \in {"new", "running", "exited", "killed"}
  /\ descendant \in BOOLEAN /\ expired \in BOOLEAN
  /\ res \in Results
  /\ pybuf \in Seq(Line) /\ pipe \in Seq(Line) /\ stdout \in Seq(Line)
  /\ written \in Seq(Line) /\ discarded \in Seq(Line) /\ lost \in Seq(Line)
  /\ Len(pipe) <= PipeSize
  /\ Len(stdout) <= MaxOutput

(* No line is duplicated, reordered or dropped between the child's write   *)
(* and the buffer, except at the two places that may drop: the cap, once   *)
(* the buffer is full, and the interpreter's death.                        *)
Conserved ==
  /\ written = stdout \o (discarded \o (pipe \o (pybuf \o lost)))
  /\ discarded # <<>> => Len(stdout) = MaxOutput
  /\ proc \in {"new", "running"} => lost = <<>>
  /\ proc # "running" => pybuf = <<>>
  /\ proc = "new" => pipe = <<>>
  /\ res.kind = "error" => proc = "new"
  /\ res.kind = "result" => pipe = <<>> /\ proc # "running"

(* What Run hands back is the longest prefix of the child's output that    *)
(* the cap allows of what left the interpreter: "the rows captured before  *)
(* the flood still report" (crucible.go:130-131).                          *)
CaptureIsPrefix ==
  res.kind = "result" =>
    stdout = SubSeq(written, 1, Lesser(MaxOutput, Len(written) - Len(lost)))

(* Once Run has returned, nothing writes to the buffer it returned and the *)
(* verdict does not change: stdout.String() at line 112 does not race with *)
(* the copying goroutine.                                                  *)
ResultIsFinal == [][res # Pending => UNCHANGED <<stdout, res>>]_crucibleVars

(* The deadline ends every run, however much the child writes and whether  *)
(* or not it ever exits, if nobody it left behind holds the pipe for ever. *)
RunReturns == <>[](~descendant) => <>(res # Pending)

(* "a hard deadline" (crucible.go:5): a run whose deadline has passed ends.*)
HardDeadline == expired ~> (res # Pending)
=============================================================================
