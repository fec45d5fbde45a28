------------------------------ MODULE MCTools -------------------------------
(***************************************************************************)
(* The small tools of the repository, checked in one run.  They are        *)
(* programs of their own that share nothing: a behaviour starts one of     *)
(* them and runs it, the others stay off (keyi before its first call).     *)
(***************************************************************************)
EXTENDS TtyDisplay, PwXrun, SuspendTest, RecoverTest, JackWatch, JumpOrExec, KeyBind, Mkdot, MCKeyiEdit

File(p) == Entry(p, "file")
Dir(p)  == Entry(p, "dir")

\* Names with none, one and more letters behind dot-, at the top and below
MCTrees ==
  {{File(<<Dot("ab")>>), File(<<Dot("none")>>), File(<<Plain("ab")>>)},
   {Dir(<<Dot("ab")>>), File(<<Dot("ab"), Dot("ab")>>), File(<<Dot("ab"), Plain("ab")>>)},
   {Dir(<<Dot("a")>>), File(<<Dot("a"), Plain("ab")>>), File(<<Dot("a"), Dot("a")>>)},
   {Dir(<<Dot("none")>>), File(<<Dot("none"), Plain("ab")>>), File(<<Plain("ab")>>)}}

\* Nothing, or at the places where these go a file, a link that leads nowhere, a
\* directory
MCBases ==
  LET Hidden(rest) == Rule(<<Dot(rest)>>)
  IN  {{}, {Held(Hidden("ab"), "file", 0)},
       {Held(Hidden("ab"), "dangling", 0), Held(<<Plain("ab")>>, "file", 0)},
       {Held(Hidden("ab"), "dir", 0), Held(Rule(<<Dot("ab"), Plain("ab")>>), "file", 0)}}

ttyOff     == main = "off" /\ UNCHANGED ttyVars
xrunOff    == bench = "off" /\ UNCHANGED xrunVars
suspOff    == test = "off" /\ UNCHANGED suspVars
recoverOff == recover = "off" /\ UNCHANGED recoverVars
jackOff    == jack = "off" /\ UNCHANGED jackVars
jumpOff    == jump = "off" /\ UNCHANGED jumpVars
keyOff     == app = "off" /\ UNCHANGED keyVars
mkOff      == mk = "off" /\ UNCHANGED mkVars
keyiOff    == pc = "open" /\ UNCHANGED keyiVars

Init == TtyInit /\ XrunInit /\ SuspInit /\ RecoverInit /\ JackInit /\ JumpInit /\ KeyInit /\ MkInit /\ KeyiInit

Next ==
  \/ xrunOff /\ suspOff /\ recoverOff /\ jackOff /\ jumpOff /\ keyOff /\ mkOff /\ keyiOff /\ TtyNext
  \/ ttyOff /\ suspOff /\ recoverOff /\ jackOff /\ jumpOff /\ keyOff /\ mkOff /\ keyiOff /\ XrunNext
  \/ ttyOff /\ xrunOff /\ recoverOff /\ jackOff /\ jumpOff /\ keyOff /\ mkOff /\ keyiOff /\ SuspNext
  \/ ttyOff /\ xrunOff /\ suspOff /\ jackOff /\ jumpOff /\ keyOff /\ mkOff /\ keyiOff /\ RecoverNext
  \/ ttyOff /\ xrunOff /\ suspOff /\ recoverOff /\ jumpOff /\ keyOff /\ mkOff /\ keyiOff /\ JackNext
  \/ ttyOff /\ xrunOff /\ suspOff /\ recoverOff /\ jackOff /\ keyOff /\ mkOff /\ keyiOff /\ JumpNext
  \/ ttyOff /\ xrunOff /\ suspOff /\ recoverOff /\ jackOff /\ jumpOff /\ mkOff /\ keyiOff /\ KeyNext
  \/ ttyOff /\ xrunOff /\ suspOff /\ recoverOff /\ jackOff /\ jumpOff /\ keyOff /\ keyiOff /\ MkNext
  \/ ttyOff /\ xrunOff /\ suspOff /\ recoverOff /\ jackOff /\ jumpOff /\ keyOff /\ mkOff /\ KeyiNext

vars == <<ttyVars, xrunVars, suspVars, recoverVars, jackVars, jumpVars, keyVars, mkVars, keyiVars>>

Spec == Init /\ [][Next]_vars /\ TtyFairness

\* Every variable of the tool that runs has its type.
TypeOK ==
  /\ TtyTypeOK /\ XrunTypeOK /\ SuspTypeOK /\ RecoverTypeOK /\ JackTypeOK /\ JumpTypeOK
  /\ KeyTypeOK /\ MkTypeOK /\ KeyiTypeOK

=============================================================================
