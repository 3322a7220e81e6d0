----------------------------- MODULE AtomicFile -----------------------------
(***************************************************************************)
(* What the comment on lockFile (fs.go) promises of one file under .git:   *)
(* it is absent, or it holds one complete value that somebody wrote, and   *)
(* a write replaces the whole value in one step.                           *)
(***************************************************************************)
CONSTANTS Values,   \* the contents writers may write
          Absent    \* the file does not exist

VARIABLE content

AInit == content = Absent

AWrite(v) == content' = v

ANext == \E v \in Values : AWrite(v)

ASpec == AInit /\ [][ANext]_content
=============================================================================
