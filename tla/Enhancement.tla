---------------------------- MODULE Enhancement -----------------------------
(***************************************************************************)
(* The Studio's local video processor: one chosen movie, the ffmpeg runs   *)
(* made for it, and the panel that asks for samples, approves them and     *)
(* saves the full movie.  A run outlives the process it spawned: it checks *)
(* and moves what was produced, and a cancel in that time reaches nobody.     *)
(***************************************************************************)
EXTENDS Integers, FiniteSets

CONSTANTS Runs,     \* requests for a sample, a full movie or a conversion
          Outputs,  \* file names that may be chosen in the save dialog
          MaxStamp, \* bound: times the source file changes
          Nothing

ASSUME NothingIsNone == Nothing \notin Runs \cup Outputs \cup [by : Runs, whole : BOOLEAN]

VARIABLES job,   \* the engine's Job: public state and private flags
          run,   \* the asynchronous body of each request
          clip,  \* the before and after files: the run that produced each
          saved, \* finished or unfinished movies under the chosen names
          stamp, \* size and mtime of the source
          panel  \* what the panel last heard, and the approval box

enhanceVars == <<job, run, clip, saved, stamp, panel>>

Working == {"previewing", "processing"}
Away == [step |-> "none"]

EnhancementInit ==
  /\ job = [phase |-> "ready", output |-> Nothing, child |-> Nothing,
            approved |-> FALSE, cancelled |-> FALSE, stamp |-> 0]
  /\ run = [r \in Runs |-> Away]
  /\ clip = [before |-> Nothing, after |-> Nothing]
  /\ saved = [o \in Outputs |-> Nothing]
  /\ stamp = 0
  /\ panel = [phase |-> "ready", reviewed |-> FALSE]

\* active(), for the one job there is.
Active == job.phase \in Working
\* idle(j)
IdleJob == job.child = Nothing /\ ~Active
\* The panel enables what starts a run by the state it polled last.
Enabled == panel.phase \notin Working

Spawn(r, fields) == run' = [run EXCEPT ![r] = fields]

-----------------------------------------------------------------------------
(* Requests.                                                               *)

\* preview: a new sample takes the approval of the last one away.
preview(r) ==
  /\ run[r].step = "none" /\ Enabled /\ IdleJob
  /\ job' = [job EXCEPT !.phase = "previewing", !.cancelled = FALSE, !.approved = FALSE,
                        !.child = r, !.output = Nothing]
  /\ Spawn(r, [step |-> "encode", what |-> "before"])
  /\ panel' = [phase |-> "previewing", reviewed |-> FALSE]
  /\ UNCHANGED <<clip, saved, stamp>>

\* full: after a review, from the source the sample was cut from, to a new file.
full(r, o) ==
  /\ run[r].step = "none" /\ panel.phase = "review" /\ panel.reviewed
  /\ saved[o] = Nothing
  /\ IdleJob /\ stamp = job.stamp /\ job.phase = "review" /\ job.approved
  /\ job' = [job EXCEPT !.phase = "processing", !.cancelled = FALSE, !.child = r,
                        !.output = Nothing]
  /\ Spawn(r, [step |-> "encode", what |-> "movie", output |-> o])
  /\ panel' = [panel EXCEPT !.phase = "processing"]
  /\ UNCHANGED <<clip, saved, stamp>>

convert(r, o) ==
  /\ run[r].step = "none" /\ Enabled
  /\ saved[o] = Nothing
  /\ IdleJob /\ stamp = job.stamp
  /\ job' = [job EXCEPT !.phase = "processing", !.cancelled = FALSE, !.child = r,
                        !.output = Nothing]
  /\ Spawn(r, [step |-> "encode", what |-> "movie", output |-> o])
  /\ panel' = [phase |-> "processing", reviewed |-> FALSE]
  /\ UNCHANGED <<clip, saved, stamp>>

cancelJob ==
  /\ panel.phase \in Working
  /\ job' = IF Active THEN [job EXCEPT !.cancelled = TRUE, !.phase = "cancelled"] ELSE job
  /\ panel' = [panel EXCEPT !.phase = job'.phase]
  /\ UNCHANGED <<run, clip, saved, stamp>>

Approve ==
  /\ panel.phase = "review" /\ ~panel.reviewed
  /\ panel' = [panel EXCEPT !.reviewed = TRUE]
  /\ UNCHANGED <<job, run, clip, saved, stamp>>

\* The poll, every 800 ms while a run is thought to be going.
Poll ==
  /\ panel.phase \in Working /\ panel.phase # job.phase
  /\ panel' = [panel EXCEPT !.phase = job.phase]
  /\ UNCHANGED <<job, run, clip, saved, stamp>>

SourceChanges ==
  /\ stamp < MaxStamp /\ stamp' = stamp + 1
  /\ UNCHANGED <<job, run, clip, saved, panel>>

-----------------------------------------------------------------------------
(* encode.                                                                 *)

JobAt(r, step) == run[r].step = step

Over(r) == Spawn(r, [step |-> "over"])

\* The process ends, killed or not; whoever it belonged to, the job has no child now.
Close(r, ok) ==
  /\ JobAt(r, "encode")
  /\ job' = [job EXCEPT !.child = Nothing]
  /\ Spawn(r, [run[r] EXCEPT !.step = IF job.cancelled \/ ~ok THEN "unlink" ELSE "move"])
  /\ UNCHANGED <<clip, saved, stamp, panel>>

\* failure(j, e), once the temporary file is gone.
Fail(r) ==
  /\ JobAt(r, "unlink")
  /\ job' = IF job.cancelled THEN job ELSE [job EXCEPT !.phase = "error"]
  /\ Over(r)
  /\ UNCHANGED <<clip, saved, stamp, panel>>

\* The clip is moved to its place and, unless cancelled just now, the next is begun.
MoveBefore(r) ==
  /\ JobAt(r, "move") /\ run[r].what = "before"
  /\ clip' = [clip EXCEPT !.before = r]
  /\ IF job.cancelled THEN Over(r) /\ UNCHANGED job
     ELSE Spawn(r, [step |-> "encode", what |-> "after"]) /\ job' = [job EXCEPT !.child = r]
  /\ UNCHANGED <<saved, stamp, panel>>

MoveAfter(r) ==
  /\ JobAt(r, "move") /\ run[r].what = "after"
  /\ clip' = [clip EXCEPT !.after = r]
  /\ job' = IF job.cancelled THEN job ELSE [job EXCEPT !.approved = TRUE, !.phase = "review"]
  /\ Over(r)
  /\ UNCHANGED <<saved, stamp, panel>>

\* No clip came out, or it cannot be moved.
MoveFails(r) ==
  /\ JobAt(r, "move")
  /\ Spawn(r, [run[r] EXCEPT !.step = "unlink"])
  /\ UNCHANGED <<job, clip, saved, stamp, panel>>

\* Mutant: the copy is not waited for.
BeginCopyAndTell(r) ==
  /\ JobAt(r, "move") /\ run[r].what = "movie"
  /\ IF saved[run[r].output] = Nothing
     THEN /\ saved' = [saved EXCEPT ![run[r].output] = [by |-> r, whole |-> FALSE]]
          /\ job' = IF job.cancelled THEN job
                    ELSE [job EXCEPT !.phase = "complete", !.output = run[r].output]
          /\ Spawn(r, [run[r] EXCEPT !.step = "copy"])
     ELSE Spawn(r, [run[r] EXCEPT !.step = "unlink"]) /\ UNCHANGED <<job, saved>>
  /\ UNCHANGED <<clip, stamp, panel>>

\* COPYFILE_EXCL: a name taken meanwhile fails the copy, which is not instantaneous.
BeginCopy(r) ==
  /\ JobAt(r, "move") /\ run[r].what = "movie"
  /\ IF saved[run[r].output] = Nothing
     THEN /\ saved' = [saved EXCEPT ![run[r].output] = [by |-> r, whole |-> FALSE]]
          /\ Spawn(r, [run[r] EXCEPT !.step = "copy"])
     ELSE Spawn(r, [run[r] EXCEPT !.step = "unlink"]) /\ UNCHANGED saved
  /\ UNCHANGED <<job, clip, stamp, panel>>

Copied(r) ==
  /\ JobAt(r, "copy")
  /\ saved' = [saved EXCEPT ![run[r].output].whole = TRUE]
  /\ job' = IF job.cancelled THEN job
            ELSE [job EXCEPT !.phase = "complete", !.output = run[r].output]
  /\ Over(r)
  /\ UNCHANGED <<clip, stamp, panel>>

\* A full disk: what was copied is left behind.
CopyFails(r) ==
  /\ JobAt(r, "copy")
  /\ Spawn(r, [run[r] EXCEPT !.step = "unlink"])
  /\ UNCHANGED <<job, clip, saved, stamp, panel>>

EnhancementNext ==
  \/ cancelJob \/ Approve \/ Poll \/ SourceChanges
  \/ \E r \in Runs :
       \/ preview(r) \/ Fail(r) \/ MoveBefore(r) \/ MoveAfter(r) \/ MoveFails(r)
       \/ BeginCopy(r) \/ Copied(r) \/ CopyFails(r)
       \/ \E ok \in BOOLEAN : Close(r, ok)
       \/ \E o \in Outputs : full(r, o) \/ convert(r, o)

EnhancementSpec == EnhancementInit /\ [][EnhancementNext]_enhanceVars

-----------------------------------------------------------------------------
\* What the panel offers to watch or to upload is there and whole, even when a cancelled
\* run comes back and speaks for the next one: a movie reported as saved was copied to
\* the end, a sample up for approval has both its clips (full, convert, preview).
OfferedIsWhole ==
  /\ job.phase = "complete" => (job.output # Nothing /\ saved[job.output].whole)
  /\ job.approved => (clip.before # Nothing /\ clip.after # Nothing)

=============================================================================
