----------------------------- MODULE HandsProps -----------------------------
(* What the tools promise to the sessions that share a sandbox. *)
EXTENDS Hands

\* The variables hold values of their kind, and an edit between its read and
\* its write is one of a session at work, on a file that the session wrote.
TypeOK ==
  /\ mode \in Modes /\ backend \in Backends /\ recordDir \in {Base, RestartDir}
  /\ owner \in [Dirs -> Accounts \cup {Primary, None}]
  /\ \A p \in DOMAIN file : file[p] \in {ToString(n) : n \in 1..MaxWrites} \cup {None}
  /\ \A s \in Sessions : Len(setUp[s]) <= 4
  /\ \A c \in Calls : call[c] # None =>
       InUse(call[c].s) /\ last[call[c].s][Plain(call[c].n)] # None
  /\ writes \in 0..MaxWrites

\* Which directory a session's commands start in is not clear once the
\* runtime was restarted with another default and nothing isolates sessions.
OneDir == mode = "exclusive" => recordDir = Base

\* grep and ls do not quote the path: a name with a quote or a blank is not
\* the word that the shell makes of it.
Mistaken == report.bare /\ \E i \in DOMAIN report.n : report.n[i] \in {"'", " "}

\* A session reads what it wrote last, whichever tools wrote and read: all of
\* them find the same file, and no other session of the sandbox writes to it.
\* Of names with quotes and blanks that holds for read, write, edit and bash,
\* which quote them; grep and ls may find another file or none.
ReadsOwnWrites ==
  report # None /\ report.do = "cat" /\ OneDir /\ ~Mistaken =>
    report.v = last[report.s][report.n]

\* Once its directories are set up no command of a session fails: its account
\* exists, its directory is there and what is quoted comes out whole.  The
\* exception is a grep or ls of a name that needs quotes.
CommandsWork == report # None /\ ~Mistaken => report.do # "fail"

\* Commands that the shell takes, and files, of a pool's sessions are under the
\* user's own account, and the directory of a session belongs to that account.
OwnAccount ==
  mode = "multi_user_shared" =>
    /\ report # None /\ report.do # "fail" => report.as = LinuxUser(UserOf[report.s])
    /\ \A s \in Sessions : InUse(s) => owner[WorkDir(s)] = LinuxUser(UserOf[s])
=============================================================================
