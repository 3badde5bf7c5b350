-------------------------------- MODULE Hands --------------------------------
(***************************************************************************)
(* How the tools of OpenCode sessions reach their files in one sandbox:    *)
(* the isolation the broker gives to a lease (buildIsolation), the         *)
(* directories made for it, the commands the plugin wraps and quotes       *)
(* around it (tools.ts, isolation.ts, sandbox-handle.ts) and what the      *)
(* runtime adds (docker-manager.ts exec, readFile, writeFile).             *)
(*                                                                         *)
(* A text is a sequence of tokens.  The quote, the backslash, the blank    *)
(* and "&&" are tokens of their own, every other token stands for a word   *)
(* or a part of a path; a path is the sequence of its parts.  Sh is the    *)
(* shell, written from what a POSIX shell does with those texts.           *)
(***************************************************************************)
EXTENDS Integers, Sequences, SequencesExt, TLC

CONSTANTS
  Sessions, UserOf,   \* sessions that share the sandbox, and their users
  Codes,              \* user -> the character codes of its id
  Width,              \* bits of the hash: 32 in the code
  Slots,              \* how many ocuser_* accounts there are: 32 in the code
  Modes, Backends,    \* of which the lease and the runtime are
  RestartDir,         \* the working directory a restarted runtime assumes
  Names,              \* relative paths the tools are called with
  Calls,              \* tool calls at the same time
  None,
  MaxWrites           \* bound: how many writes

ASSUME HandsAssumption ==
  /\ Modes \subseteq {"exclusive", "user_shared", "multi_user_shared"}
  /\ Backends \subseteq {"e2b", "aio"}
  /\ UserOf \in [Sessions -> DOMAIN Codes] /\ Width \in Nat /\ Slots \in Nat \ {0}
  /\ MaxWrites \in Nat

VARIABLES
  mode, backend,  \* the mode of the leases, the backend of the sandbox
  recordDir,      \* workDir in the runtime's record of the sandbox
  owner,          \* directory -> the account it belongs to, None when missing
  file,           \* path -> content
  setUp,          \* sessions -> how many set-up commands were run
  call,           \* tool calls: an edit between its read and its write
  writes,
  \* history
  last,           \* what a session wrote last, by file name
  report          \* the last command: of which session, as whom, on what, what came back,
                  \* and whether the tool put the name in it without quotes

vars == <<mode, backend, recordDir, owner, file, setUp, call, writes, last, report>>

-----------------------------------------------------------------------------
(* Isolation *)

Base == <<"base">>
Primary == "primary"  \* the account the container runs as
Account(n) == "ocuser_" \o ToString(n)

Hash == [u \in DOMAIN Codes |-> FoldLeft(LAMBDA h, c : (h * 31 + c) % (2 ^ Width), 0, Codes[u])]

LinuxUser(u) == Account((Hash[u] % Slots) + 1)

\* Mutant: one directory per user.
WorkDirOfUser(s) ==
  CASE mode = "user_shared"       -> Base \o <<"sessions">>
    [] mode = "multi_user_shared" -> <<"home", LinuxUser(UserOf[s]), "project">>
    [] OTHER                      -> Base

WorkDir(s) ==
  CASE mode = "user_shared"       -> Base \o <<"sessions", s>>
    [] mode = "multi_user_shared" -> <<"home", LinuxUser(UserOf[s]), "project", "sessions", s>>
    [] OTHER                      -> Base

Isolation(s) ==
  [type |-> CASE mode = "user_shared"       -> "session_dir"
              [] mode = "multi_user_shared" -> "linux_user"
              [] OTHER                      -> "none",
   workDir |-> WorkDir(s),
   user |-> IF mode = "multi_user_shared" THEN LinuxUser(UserOf[s]) ELSE None]

-----------------------------------------------------------------------------
(* Commands *)

Quoted(t) == FlattenSeq([i \in DOMAIN t |-> IF t[i] = "'" THEN <<"'", "\\", "'", "'">> ELSE <<t[i]>>])

\* Mutant: the quotes inside are kept as they are.
ShellQuotePlain(t) == <<"'">> \o t \o <<"'">>

ShellQuote(t) == <<"'">> \o Quoted(t) \o <<"'">>

AsLinuxUser(u, t) == <<"sudo", " ", u, " ">> \o ShellQuote(t)
WrapWithProcessLimits(t) == <<"limits", " ">> \o ShellQuote(t)
Mkdir(dir) == <<"mkdir", " ">> \o dir
Cat(path) == <<"cat", " ">> \o ShellQuote(path)
Put(path, v) == <<"put", " ">> \o ShellQuote(path) \o <<" ", v>>
Cd(word, t) == <<"cd", " ">> \o word \o <<"&&">> \o t
MkCd(dir, t) == <<"mkcd", " ">> \o dir \o <<"&&">> \o t  \* mkdir -p and cd

WrapCommand(t, iso) ==
  CASE iso.type = "linux_user"  -> AsLinuxUser(iso.user, MkCd(iso.workDir, t))
    [] iso.type = "session_dir" -> MkCd(iso.workDir, t)
    [] iso.type = "none"        -> t

IsAbsolute(path) == Head(path) \in {"base", "home"}
Plain(path) == SelectSeq(path, LAMBDA part : part # "./")

ResolveSandboxPath(path, iso) ==
  IF iso.type = "none" \/ IsAbsolute(path) THEN path ELSE iso.workDir \o Plain(path)

\* exec of the runtime: the caller's cwd, or the one of the record.
RuntimeExec(t, cwd) == Cd(ShellQuote(IF cwd = None THEN recordDir ELSE cwd), t)

-----------------------------------------------------------------------------
(* The shell *)

\* One word from the front of a text, none when a quote is not closed.
RECURSIVE Word(_, _, _)
Word(t, open, word) ==
  CASE t = <<>> -> [is |-> IF open THEN <<>> ELSE word, rest |-> t]
    [] t # <<>> /\ Head(t) = "'" -> Word(Tail(t), ~open, word)
    [] t # <<>> /\ Head(t) = "\\" /\ ~open /\ Len(t) > 1 ->
         Word(SubSeq(t, 3, Len(t)), open, Append(word, t[2]))
    [] t # <<>> /\ Head(t) \in {" ", "&&"} /\ ~open -> [is |-> word, rest |-> Tail(t)]
    [] OTHER -> Word(Tail(t), open, Append(word, Head(t)))
WordAt(t, i) == Word(SubSeq(t, i, Len(t)), FALSE, <<>>)

Whole(dir, path) == Plain(IF IsAbsolute(path) THEN path ELSE dir \o path)
Accounts == {Account(n) : n \in 1..Slots}
Fails == [as |-> None, do |-> "fail", path |-> <<>>, v |-> None]

\* The homes are their accounts' own; mkdir of an existing directory is fine.
MayMake(user, dir) == owner[dir] # None \/ Head(dir) # "home" \/ user = dir[2]

RECURSIVE Sh(_, _, _)
Sh(t, user, dir) ==
  LET w == WordAt(t, 3)
      does(path, v) == [as |-> user, do |-> t[1], path |-> path, v |-> v]
  IN CASE t = <<>> -> Fails
       [] t # <<>> /\ t[1] = "limits" -> Sh(w.is, user, dir)
       [] t # <<>> /\ t[1] = "sudo" /\ t[3] \in Accounts -> Sh(WordAt(t, 5).is, t[3], dir)
       [] t # <<>> /\ t[1] = "cd" /\ w.is \in DOMAIN owner /\ owner[w.is] # None ->
            Sh(w.rest, user, w.is)
       [] t # <<>> /\ t[1] = "mkcd" /\ w.is \in DOMAIN owner /\ MayMake(user, w.is) ->
            Sh(w.rest, user, w.is)
       [] t # <<>> /\ t[1] = "mkdir" /\ w.is \in DOMAIN owner /\ MayMake(user, w.is) ->
            does(w.is, None)
       [] t # <<>> /\ t[1] = "cat" /\ w.is # <<>> -> does(Whole(dir, w.is), None)
       [] t # <<>> /\ t[1] = "put" /\ w.is # <<>> /\ w.rest # <<>> -> does(Whole(dir, w.is), Head(w.rest))
       [] OTHER -> Fails
Run(t) == Sh(t, Primary, recordDir)

-----------------------------------------------------------------------------
(* The tools: what they run, as a result of the shell *)

\* Relative to the container's directory, without a shell.
FileApi(op, path, v) == [as |-> Primary, do |-> op, path |-> Whole(Base, path), v |-> v]

Bash(s, n, v) == Run(RuntimeExec(WrapCommand(Put(n, v), Isolation(s)), WorkDir(s)))

\* grep and ls put the path in the command as it is.
Grep(s, n) ==
  Run(RuntimeExec(WrapCommand(<<"cat", " ">> \o ResolveSandboxPath(n, Isolation(s)), Isolation(s)), None))

\* isolatedRead and isolatedWrite, readFile and writeFile of the runtime.
Access(s, op, path, v) ==
  LET iso == Isolation(s)
      t == IF op = "cat" THEN Cat(path) ELSE Put(path, v)
  IN CASE iso.type = "linux_user" -> Run(RuntimeExec(AsLinuxUser(iso.user, t), None))
       [] iso.type # "linux_user" /\ backend = "aio" -> FileApi(op, path, v)
       [] iso.type # "linux_user" /\ backend = "e2b" -> Run(RuntimeExec(t, None))

\* Mutant: the file API for everybody.
ReadFileApi(s, n) == FileApi("cat", ResolveSandboxPath(n, Isolation(s)), None)

ReadFile(s, n) == Access(s, "cat", ResolveSandboxPath(n, Isolation(s)), None)
WriteFile(s, n, v) == Access(s, "put", ResolveSandboxPath(n, Isolation(s)), v)

\* createLease: ensureWorkDir and setupMultiUserDirs, which takes the account
\* from the path; then getHandle, with ensureProcessSession.
SetUp(s) ==
  LET iso == Isolation(s)
      make == Mkdir(iso.workDir)
      shared == iso.type = "linux_user"
      byBroker == <<WrapWithProcessLimits(make)>> \o
        IF shared THEN <<WrapWithProcessLimits(AsLinuxUser(iso.workDir[2], make))>> ELSE <<>>
      byPlugin == IF iso.type = "none" THEN <<>>
        ELSE <<make, IF shared THEN AsLinuxUser(iso.user, make) ELSE make>>
  IN byBroker \o byPlugin

-----------------------------------------------------------------------------
(* The state *)

Dirs == {Base, RestartDir} \cup {WorkDir(s) : s \in Sessions}
Paths == {dir \o Plain(n) : dir \in Dirs, n \in Names}

\* Who shares one sandbox: nobody, the sessions of a user, of a pool.
Tenants ==
  LET one == CHOOSE s \in Sessions : TRUE IN
  CASE mode = "exclusive"         -> {one}
    [] mode = "user_shared"       -> {s \in Sessions : UserOf[s] = UserOf[one]}
    [] mode = "multi_user_shared" -> Sessions

Init ==
  /\ mode \in Modes /\ backend \in Backends
  /\ recordDir = Base
  /\ owner = [d \in Dirs |-> IF d \in {Base, RestartDir} THEN Primary ELSE None]
  /\ file = [p \in Paths |-> None]
  /\ setUp = [s \in Sessions |-> SetUp(s)]
  /\ call = [c \in Calls |-> None]
  /\ writes = 0
  /\ last = [s \in Sessions |-> [n \in {Plain(m) : m \in Names} |-> None]]
  /\ report = None

setting == <<mode, backend>>

\* Exit codes of the set-up commands are not looked at.
Prepare(s) ==
  /\ setUp[s] # <<>> /\ setUp' = [setUp EXCEPT ![s] = Tail(@)]
  /\ LET r == Run(RuntimeExec(Head(setUp[s]), None)) IN
       owner' = IF r.do = "mkdir" /\ owner[r.path] = None
                THEN [owner EXCEPT ![r.path] = r.as] ELSE owner
  /\ report' = None
  /\ UNCHANGED <<setting, recordDir, file, call, writes, last>>

Report(s, n, r, v, bare) ==
  report' = [s |-> s, n |-> Plain(n), as |-> r.as, do |-> r.do, v |-> v, bare |-> bare]
At(path) == IF path \in DOMAIN file THEN file[path] ELSE None
Version == ToString(writes + 1)

Reads(s, n, r, bare) ==
  /\ Report(s, n, r, At(r.path), bare)
  /\ UNCHANGED <<setting, recordDir, owner, file, setUp, writes, last>>

Writes(s, n, r) ==
  /\ writes < MaxWrites /\ writes' = writes + 1
  /\ file' = IF r.path \in DOMAIN file THEN [file EXCEPT ![r.path] = r.v] ELSE file
  /\ last' = [last EXCEPT ![s][Plain(n)] = Version]
  /\ Report(s, n, r, Version, FALSE)
  /\ UNCHANGED <<setting, recordDir, owner, setUp>>

InUse(s) == s \in Tenants /\ setUp[s] = <<>>

BashTool(s, n) == InUse(s) /\ Writes(s, n, Bash(s, n, Version)) /\ UNCHANGED call
WriteTool(s, n) == InUse(s) /\ Writes(s, n, WriteFile(s, n, Version)) /\ UNCHANGED call
ReadTool(s, n) == InUse(s) /\ Reads(s, n, ReadFile(s, n), FALSE) /\ UNCHANGED call
GrepTool(s, n) == InUse(s) /\ Reads(s, n, Grep(s, n), TRUE) /\ UNCHANGED call

\* Mutant: edit goes on without the text.
EditReadBlind(c, s, n) ==
  /\ InUse(s) /\ call[c] = None
  /\ Reads(s, n, ReadFile(s, n), FALSE) /\ call' = [call EXCEPT ![c] = [s |-> s, n |-> n]]

\* edit reads, throws when the text is not there, and writes.
EditRead(c, s, n) ==
  /\ InUse(s) /\ call[c] = None
  /\ LET r == ReadFile(s, n) IN
       /\ Reads(s, n, r, FALSE)
       /\ call' = [call EXCEPT ![c] = IF At(r.path) = None THEN None ELSE [s |-> s, n |-> n]]
EditWrite(c) ==
  /\ call[c] # None
  /\ Writes(call[c].s, call[c].n, WriteFile(call[c].s, call[c].n, Version))
  /\ call' = [call EXCEPT ![c] = None]

\* A new runtime process fills the record from the container and its own default.
Restart ==
  /\ recordDir # RestartDir /\ recordDir' = RestartDir /\ report' = None
  /\ UNCHANGED <<setting, owner, file, setUp, call, writes, last>>

Next ==
  \/ \E s \in Tenants : Prepare(s)
  \/ \E s \in Sessions, n \in Names :
       \/ BashTool(s, n) \/ WriteTool(s, n) \/ ReadTool(s, n) \/ GrepTool(s, n)
       \/ \E c \in Calls : EditRead(c, s, n)
  \/ \E c \in Calls : EditWrite(c)
  \/ Restart

Spec == Init /\ [][Next]_vars
=============================================================================
