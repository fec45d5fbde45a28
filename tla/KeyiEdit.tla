------------------------------ MODULE KeyiEdit ------------------------------
(***************************************************************************)
(* keyi -e FILE: copy_one makes a temporary copy, a child runs the editor  *)
(* on it, save_one copies it back.  Any system call may fail, a copy may   *)
(* stop half way, and keyi may be killed at any point.                     *)
(*                                                                         *)
(* A content is a sequence of blocks.  The file is edited by one keyi at a *)
(* time and by nobody else.                                                *)
(***************************************************************************)
EXTENDS Naturals, SequencesExt

CONSTANTS
  Original,     (* the content of FILE                                     *)
  Edits,        (* contents an editor may write                            *)
  MaxWrites,    (* bound: writes of the editor                             *)
  CoarseClock   (* two writes may get the same mtime                       *)

ASSUME EditAssumption ==
  /\ MaxWrites \in Nat /\ CoarseClock \in BOOLEAN
  /\ \A c \in {Original} \cup Edits : c \in Seq(Range(c))

VARIABLES
  pc,
  file,         (* the content of FILE, through src_fd                     *)
  tmp,          (* the temporary file                                      *)
  stamp,        (* f->time and f->ino                                      *)
  wstatus,      (* what WIFEXITED and WEXITSTATUS make of it               *)
  edit,         (* history: the content the editor left, the copy at first *)
  wrote         (* history: the editor's writes                            *)

keyiVars == <<pc, file, tmp, stamp, wstatus, edit, wrote>>

NoTmp == [exists |-> FALSE, content |-> <<>>, ino |-> 0, mtime |-> 0]
Contents == {Original} \cup Edits
CutShort == UNION {{SubSeq(c, 1, n) : n \in 0 .. Len(c)} : c \in Contents}

KeyiTypeOK ==
  /\ pc \in {"open", "copy", "fork", "editor", "waited", "truncate", "write", "sync", "unlink",
             "exit 0", "exit 1", "failed", "killed"}
  /\ file \in CutShort /\ edit \in Contents
  /\ tmp \in [exists : BOOLEAN, content : CutShort, ino : Nat, mtime : Nat]
  /\ stamp \in [ino : Nat, mtime : Nat]
  /\ wstatus \in {"none", "ok", "bad"} /\ wrote \in 0 .. MaxWrites

KeyiInit ==
  /\ pc = "open" /\ file = Original /\ tmp = NoTmp /\ stamp = [ino |-> 0, mtime |-> 0]
  /\ wstatus = "none" /\ edit = Original /\ wrote = 0

-----------------------------------------------------------------------------
(* copy_one *)

\* open, fstat and mkostemps, or one of them fails
OpenFiles ==
  /\ pc = "open"
  /\ \/ pc' = "copy" /\ tmp' = [NoTmp EXCEPT !.exists = TRUE, !.ino = 1]
     \/ pc' = "exit 1" /\ UNCHANGED tmp
  /\ UNCHANGED <<file, stamp, wstatus, edit, wrote>>

\* sendfile, fchown and fstat; a failure removes the copy again
CopyOut ==
  /\ pc = "copy"
  /\ \/ /\ pc' = "fork"
        /\ tmp' = [tmp EXCEPT !.content = file, !.mtime = 1]
        /\ stamp' = [ino |-> tmp.ino, mtime |-> 1]
     \/ pc' = "exit 1" /\ tmp' = NoTmp /\ UNCHANGED stamp
  /\ UNCHANGED <<file, wstatus, edit, wrote>>

(* main: fork, the editor, waitpid *)

\* fork's failure is not tested: waitpid(-1) finds no child, and wstatus is
\* whatever the stack held.
ForkEditor ==
  /\ pc = "fork"
  /\ \/ pc' = "editor" /\ UNCHANGED wstatus
     \/ pc' = "waited" /\ wstatus' \in {"ok", "bad"}
  /\ UNCHANGED <<file, tmp, stamp, edit, wrote>>

\* The editor rewrites the copy in place, or puts a new file in its place.
EditorWrites(c) ==
  /\ pc = "editor" /\ wrote < MaxWrites
  /\ wrote' = wrote + 1 /\ edit' = c
  /\ \E inode \in {tmp.ino, tmp.ino + 1}, tick \in {1} \cup (IF CoarseClock THEN {0} ELSE {}) :
       tmp' = [exists |-> TRUE, content |-> c, ino |-> inode, mtime |-> tmp.mtime + tick]
  /\ UNCHANGED <<pc, file, stamp, wstatus>>

\* waitpid returns: exit 0, or anything else
EditorExits ==
  /\ pc = "editor"
  /\ pc' = "waited" /\ wstatus' \in {"ok", "bad"}
  /\ UNCHANGED <<file, tmp, stamp, edit, wrote>>

(* save_one, and the end of main *)

\* Mutant: the editor's exit status does not matter.
SaveAnyway(ok) == ok \in {"ok", "bad"}

Accepted(ok) == ok = "ok"

Unchanged == tmp.ino = stamp.ino /\ tmp.mtime = stamp.mtime

\* open and fstat of the temporary file, and the test for a change
SaveStarts ==
  /\ pc = "waited"
  /\ \/ Accepted(wstatus) /\ pc' = IF Unchanged THEN "unlink" ELSE "truncate"
     \/ pc' = "failed"
  /\ UNCHANGED <<file, tmp, stamp, wstatus, edit, wrote>>

\* lseek and ftruncate
Truncate ==
  /\ pc = "truncate"
  /\ \/ pc' = "write" /\ file' = <<>>
     \/ pc' = "failed" /\ UNCHANGED file
  /\ UNCHANGED <<tmp, stamp, wstatus, edit, wrote>>

\* sendfile, up to where it gets
CopyBack ==
  /\ pc = "write"
  /\ \E n \in 0 .. Len(tmp.content) :
       /\ file' = SubSeq(tmp.content, 1, n) \o SubSeq(file, n + 1, Len(file))
       /\ pc' = IF n = Len(tmp.content) THEN "sync" ELSE "failed"
  /\ UNCHANGED <<tmp, stamp, wstatus, edit, wrote>>

Fsync ==
  /\ pc = "sync"
  /\ pc' \in {"unlink", "failed"}
  /\ UNCHANGED <<file, tmp, stamp, wstatus, edit, wrote>>

\* is_ok: the copy is not needed any more
Unlink ==
  /\ pc = "unlink"
  /\ pc' = "exit 0" /\ tmp' = NoTmp
  /\ UNCHANGED <<file, stamp, wstatus, edit, wrote>>

\* Mutant: the copy is removed whatever happened.
FailClean == pc = "failed" /\ pc' = "exit 1" /\ tmp' = NoTmp
             /\ UNCHANGED <<file, stamp, wstatus, edit, wrote>>

\* "backup retained"
Fail ==
  /\ pc = "failed"
  /\ pc' = "exit 1"
  /\ UNCHANGED <<file, tmp, stamp, wstatus, edit, wrote>>

\* A signal, such as the terminal's ^C, which keyi does not catch; half of a
\* copy may have been made.
Killed ==
  /\ pc \notin {"exit 0", "exit 1", "killed"}
  /\ pc' = "killed"
  /\ IF pc = "write"
     THEN \E n \in 0 .. Len(tmp.content) : file' = SubSeq(tmp.content, 1, n)
     ELSE UNCHANGED file
  /\ UNCHANGED <<tmp, stamp, wstatus, edit, wrote>>

KeyiNext ==
  \/ OpenFiles \/ CopyOut \/ ForkEditor \/ EditorExits \/ SaveStarts \/ Truncate \/ CopyBack \/ Fsync
  \/ Unlink \/ Fail \/ Killed
  \/ \E c \in Edits : EditorWrites(c)

KeyiSpec == KeyiInit /\ [][KeyiNext]_keyiVars

-----------------------------------------------------------------------------
(* Properties.                                                              *)

\* At every moment, a kill or a failed call included, the whole text the user
\* left in the editor is in the file or in the temporary copy.
EditKept == file = edit \/ (tmp.exists /\ tmp.content = edit)

\* A failed editor changes nothing, and exit 0 means the file is the edit,
\* the whole of it and nothing else.
ExitTells ==
  /\ wstatus = "bad" => file = Original
  /\ pc = "exit 0" => file = edit /\ ~tmp.exists

\* keyi.c: "[root] copy back if modified, delete tmp".  Exit 0 after a
\* modification leaves the modified text in the file.
CopiedBackIfModified == pc = "exit 0" /\ edit # Original => file = edit
=============================================================================
