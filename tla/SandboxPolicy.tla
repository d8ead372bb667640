--------------------------- MODULE SandboxPolicy ---------------------------
(***************************************************************************)
(* Which files a traced program may open: FilesystemPolicy                 *)
(* (dmoj/cptbox/filesystem_policies.py), a tree made from rules one after  *)
(* the other, and IsolateTracer._access_check (dmoj/cptbox/isolate.py),    *)
(* which asks it about the name a program gives and about the file behind  *)
(* the name.                                                               *)
(*                                                                         *)
(* A path is a sequence of names below the root, ".." among them in what a *)
(* program passes.  A file system is a function from paths to nodes; where *)
(* a link leads is written without links.  A rule is a type and a path.    *)
(***************************************************************************)
EXTENDS Naturals, Sequences, SequencesExt

Path == Seq(STRING)
Node(kind, to) == [kind |-> kind, to |-> to]
Rule(type, path) == [type |-> type, path |-> path]

Self == <<"proc", "self">>

---------------------------------------------------------------------------
(* Paths: os.path.normpath, realpath, exists and isdir. *)

Parent(p) == IF p = <<>> THEN <<>> ELSE Front(p)

IsLink(fs, p) == p \in DOMAIN fs /\ fs[p].kind = "link"
Follow(fs, p) == IF IsLink(fs, p) THEN fs[p].to ELSE p

StepTo(fs, at, name) == IF name = ".." THEN Parent(at) ELSE Follow(fs, Append(at, name))

\* Where the names of a path lead, one after the other.
Walk(fs, p) ==
    LET at[n \in 0..Len(p)] == IF n = 0 THEN <<>> ELSE StepTo(fs, at[n - 1], p[n])
    IN  at

RealPath(fs, p) == Walk(fs, p)[Len(p)]

NoFiles == [p \in {} |-> Node("dir", <<>>)]
NormPath(p) == RealPath(NoFiles, p)

Exists(fs, p) == RealPath(fs, p) \in DOMAIN fs
IsDir(fs, p) == Exists(fs, p) /\ fs[RealPath(fs, p)].kind = "dir"

\* What the constructor of a rule asserts: an existing path is of the rule's type.
RuleStands(fs, r) == Exists(fs, r.path) => (IsDir(fs, r.path) <=> r.type # "file")

IsRealpath(fs, p) == IsPrefix(Self, p) \/ RealPath(fs, p) = p

---------------------------------------------------------------------------
(* The tree: a function from the paths that have a node to "file" or to the *)
(* access mode of the directory; NoTree where the code asserts.            *)

Modes == <<"none", "exact", "recursive">>

MorePermissive(m, n) ==
    IF \E i, j \in 1..3 : i < j /\ Modes[i] = m /\ Modes[j] = n THEN n ELSE m

NoTree == [p \in {} |-> "none"]
EmptyTree == [p \in {<<>>} |-> "none"]

Get(tree, p, else) == IF p \in DOMAIN tree THEN tree[p] ELSE else

Insert(tree, r) ==
    LET above == {SubSeq(r.path, 1, n) : n \in 0..(Len(r.path) - 1)}
        old == Get(tree, r.path, IF r.type = "file" THEN "file" ELSE "none")
    IN  IF \/ \E p \in above : Get(tree, p, "none") = "file"
           \/ (old = "file") # (r.type = "file")
        THEN NoTree
        ELSE [p \in {r.path} \cup DOMAIN tree \cup above |->
                 IF p # r.path THEN Get(tree, p, "none")
                 ELSE IF r.type = "file" THEN "file" ELSE MorePermissive(old, r.type)]

AddRule_NoTarget(fs, tree, r) ==
    IF tree = NoTree \/ ~Exists(fs, r.path) THEN tree ELSE Insert(tree, r)

\* _add_rule, with the rule for the target of a link.
AddRule(fs, tree, r) ==
    IF tree = NoTree \/ ~Exists(fs, r.path) THEN tree
    ELSE LET named == Insert(tree, r) IN
         IF named = NoTree \/ IsRealpath(fs, r.path) THEN named
         ELSE Insert(named, Rule(r.type, RealPath(fs, r.path)))

Trees(fs, rules) ==
    LET tree[n \in 0..Len(rules)] == IF n = 0 THEN EmptyTree ELSE AddRule(fs, tree[n - 1], rules[n])
    IN  tree

FilesystemPolicy(fs, rules) == Trees(fs, rules)[Len(rules)]

\* The walk of check: it ends with an answer or at the node of the path.
Descend(tree, walk, name) ==
    IF walk.answer # "open" THEN walk
    ELSE CASE tree[walk.at] = "file" -> [walk EXCEPT !.answer = "no"]
           [] tree[walk.at] = "recursive" -> [walk EXCEPT !.answer = "yes"]
           [] OTHER -> IF Append(walk.at, name) \in DOMAIN tree THEN [walk EXCEPT !.at = Append(@, name)]
                       ELSE [walk EXCEPT !.answer = "no"]

Descent(tree, p) ==
    LET walk[n \in 0..Len(p)] ==
            IF n = 0 THEN [at |-> <<>>, answer |-> "open"] ELSE Descend(tree, walk[n - 1], p[n])
    IN  walk

CheckPath(tree, p) ==
    LET end == Descent(tree, p)[Len(p)]
    IN  end.answer = "yes" \/ (end.answer = "open" /\ tree[end.at] # "none")

---------------------------------------------------------------------------
(* One look at a file: tid and pid are the directories of the calling      *)
(* thread and of its process below /proc.                                  *)

Below(dir, p) == IsStrictPrefix(dir, p)
Move(from, to, p) == to \o SubSeq(p, Len(from) + 1, Len(p))

\* The flags of open that ask for the jail of files to be written.
OpenWriteFlags ==
    {{"WRONLY"}, {"RDWR"}, {"TRUNC"}, {"CREAT"}, {"EXCL"}, {"TMPFILE", "DIRECTORY"}}

JailOf(flags) == IF \E f \in OpenWriteFlags : f \subseteq flags THEN "write" ELSE "read"

AccessCheck_NameOnly(fs, tid, pid, tree, file) ==
    LET norm == NormPath(file)
        name == IF Below(tid, norm) THEN Move(tid, Self, norm) ELSE norm
    IN  IF CheckPath(tree, name) THEN "allow" ELSE "EACCES"

AccessCheck(fs, tid, pid, tree, file) ==
    LET norm == NormPath(file)
        ofSelf == IsPrefix(Self, norm)
        passed == IF ofSelf THEN Move(Self, tid, norm) ELSE file
        projected == IF ofSelf THEN passed ELSE norm
        name == CASE ofSelf -> norm
                  [] ~ofSelf /\ Below(tid, norm) -> Move(tid, Self, norm)
                  [] ~ofSelf /\ ~Below(tid, norm) /\ Below(pid, norm) -> Move(pid, Self, norm)
                  [] OTHER -> norm
        real == RealPath(fs, passed)
        behind == IF IsPrefix(tid, real) THEN Move(tid, Self, real) ELSE real
    IN  IF name # real /\ (~Exists(fs, projected) \/ ~Exists(fs, real)) THEN "ENOENT"
        ELSE IF \/ name # real /\ RealPath(fs, projected) # real
                \/ ~CheckPath(tree, name)
                \/ name # real /\ ~CheckPath(tree, behind)
        THEN "EACCES" ELSE "allow"

---------------------------------------------------------------------------
(* One system call.  A thread has its directory, its process, its working  *)
(* directory and the paths of its descriptors; an argument is a text, of   *)
(* which a path may be read or not.                                        *)

Thread(tid, pid, cwd, fds) == [tid |-> tid, pid |-> pid, cwd |-> cwd, fds |-> fds]
Text(absolute, path) == [is |-> "path", absolute |-> absolute, path |-> path]
Unreadable(why) == [is |-> why, absolute |-> FALSE, path |-> <<>>]

DirOf(t, dirfd) == IF dirfd = "AT_FDCWD" THEN t.cwd ELSE t.fds[dirfd]
FullPath(t, dirfd, text) == IF text.absolute THEN text.path ELSE DirOf(t, dirfd) \o text.path

Look(fs, t, tree, dirfd, text) ==
    CASE text.is = "long" -> "ENAMETOOLONG"
      [] text.is = "not unicode" -> "ENOENT"
      [] text.is = "null" -> "EFAULT"
      [] OTHER -> AccessCheck(fs, t.tid, t.pid, tree, FullPath(t, dirfd, text))

\* The kinds of system call with a handler; the table of a compiler adds to the first.
BaseHandlers ==
    {"open", "look", "fstatat", "kill", "prlimit", "prctl", "socket", "setfsuid", "plain"}
CompilerHandlers == {"change", "rename", "link", "utimensat", "fchmod", "spawn"}
Handled(tracer) == BaseHandlers \cup IF tracer = "compiler" THEN CompilerHandlers ELSE {}

LookAt(fs, t, jail, call) == Look(fs, t, jail, call.dirfd, call.text)

\* An empty path with AT_EMPTY_PATH is the open descriptor itself.
HandleFstat(fs, t, jails, call) ==
    IF "EMPTY_PATH" \in call.flags /\ call.text = Text(FALSE, <<>>) THEN "allow"
    ELSE LookAt(fs, t, jails["read"], call)

HandleRename(fs, t, jails, call) ==
    LET first == LookAt(fs, t, jails["write"], call) IN
    IF first # "allow" THEN first ELSE Look(fs, t, jails["write"], call.newdirfd, call.new)

\* link and linkat: the new name only; the file it is to be a name of is not asked about.
HandleLink(fs, t, jails, call) == Look(fs, t, jails["write"], call.newdirfd, call.new)

HandleKill(t, call) == IF call.target = t.pid THEN "allow" ELSE "EPERM"
HandlePrlimit(t, call) == IF call.target \in {<<>>, t.pid} THEN "allow" ELSE "EPERM"

PrctlOptions ==
    {"GET_DUMPABLE", "SET_NAME", "GET_NAME", "CAPBSET_READ", "SET_THP_DISABLE", "SET_VMA",
     "SVE_SET_VL", "SVE_GET_VL"}

HandlePrctl(call) == IF call.flags \subseteq PrctlOptions THEN "allow" ELSE "fault"

\* The path of a descriptor is asked for as it is.
HandleFchmod(t, jails, call) == IF CheckPath(jails["write"], DirOf(t, call.dirfd)) THEN "allow" ELSE "EPERM"

\* Times to set are not looked at; the call is skipped if both are to be left as they are.
HandleUtimensat(fs, t, jails, call) ==
    CASE call.times = "unreadable" -> "EFAULT"
      [] call.times = "omit" -> "skip"
      [] call.times = "given" -> "allow"
      [] call.times = "now" ->
            IF call.dirfd # "AT_FDCWD" /\ call.text = Unreadable("null") THEN HandleFchmod(t, jails, call)
            ELSE LookAt(fs, t, jails["write"], call)

\* A denied call returns the error to the program; a fault ends the program.
Verdict(fs, tracer, t, jails, call) ==
    IF call.kind \notin Handled(tracer) THEN "fault" ELSE
    CASE call.kind = "open" -> LookAt(fs, t, jails[JailOf(call.flags)], call)
      [] call.kind = "look" -> LookAt(fs, t, jails["read"], call)
      [] call.kind = "change" -> LookAt(fs, t, jails["write"], call)
      [] call.kind = "fstatat" -> HandleFstat(fs, t, jails, call)
      [] call.kind = "rename" -> HandleRename(fs, t, jails, call)
      [] call.kind = "link" -> HandleLink(fs, t, jails, call)
      [] call.kind = "kill" -> HandleKill(t, call)
      [] call.kind = "prlimit" -> HandlePrlimit(t, call)
      [] call.kind = "prctl" -> HandlePrctl(call)
      [] call.kind = "fchmod" -> HandleFchmod(t, jails, call)
      [] call.kind = "utimensat" -> HandleUtimensat(fs, t, jails, call)
      [] call.kind = "socket" -> IF tracer = "compiler" THEN "allow" ELSE "EACCES"
      [] call.kind = "setfsuid" -> "EPERM"
      [] OTHER -> "allow"

---------------------------------------------------------------------------
(* The file systems there are: everything is in a directory, and where a   *)
(* link leads is written without links.                                    *)

Canonical(fs, p) ==
    /\ p \in Path /\ ".." \notin ToSet(p)
    /\ \A n \in 1..Len(p) : ~IsLink(fs, SubSeq(p, 1, n))

WellFormed(fs) ==
    /\ <<>> \in DOMAIN fs /\ fs[<<>>].kind = "dir"
    /\ \A p \in DOMAIN fs :
          /\ p \in Path /\ ".." \notin ToSet(p)
          /\ p # <<>> => Front(p) \in DOMAIN fs /\ fs[Front(p)].kind = "dir"
          /\ fs[p].to \in Path
          /\ fs[p].kind = "link" => Canonical(fs, fs[p].to)

---------------------------------------------------------------------------
(* What the rules say, without a tree. *)

\* A rule counts if its path exists, for its own path and for the target.
InForce(fs, rules) ==
    UNION {{r, Rule(r.type, IF IsRealpath(fs, r.path) THEN r.path ELSE RealPath(fs, r.path))} :
              r \in {q \in ToSet(rules) : Exists(fs, q.path)}}

Covered(force, p) ==
    \E r \in force : p = r.path \/ (r.type = "recursive" /\ IsPrefix(r.path, p))

\* The file as the traced program would reach it, and its name under /proc/self.
Reached(fs, tid, file) == RealPath([fs EXCEPT ![Self] = Node("link", tid)], file)
Own(tid, p) == IF IsPrefix(tid, p) THEN Move(tid, Self, p) ELSE p

(***************************************************************************)
(* Rules of existing files never clash, and in whatever order they are     *)
(* added the tree answers for every path what the rules say together: the  *)
(* test of _add_rule, _finalize_rule, more_permissive and check.           *)
(***************************************************************************)
TreeFollowsRules(fs, rules, paths) ==
    LET tree == FilesystemPolicy(fs, rules)
        force == InForce(fs, rules)
    IN  /\ tree # NoTree
        /\ \A p \in paths : CheckPath(tree, NormPath(p)) <=> Covered(force, NormPath(p))

(***************************************************************************)
(* The comment of _access_check: a program must be able to access both the *)
(* link and its destination.  Every name of a permitted call that its      *)
(* handler examines, from the working directory or a descriptor, with ..   *)
(* and through links, is of a file that is covered where it really is, by  *)
(* the rules for what the call does to it.  Of the two names of link and   *)
(* linkat the handlers examine the new one: nothing is said about the old. *)
(* /proc/self, which the comment excepts since it refers to something else *)
(* in the process that looks, may begin a name written without ..; names   *)
(* that come to it in another way are left out, and so are the calls that  *)
(* do not look at a name (see above).                                      *)
(***************************************************************************)
PassesSelf(fs, p) ==
    \E n \in 1..Len(p) : p[n] # ".." /\ Append(Walk(fs, p)[n - 1], p[n]) = Self

Direct(fs, tid, file) ==
    LET norm == NormPath(file)
    IN  IF IsPrefix(Self, norm) THEN file = norm /\ ~PassesSelf(fs, Move(Self, tid, norm))
        ELSE ~PassesSelf(fs, file)

Looks(call) ==
    /\ call.kind \in {"open", "look", "change", "fstatat", "rename", "link", "utimensat"}
    /\ call.kind # "link" => call.text.is = "path"
    /\ call.kind = "fstatat" => "EMPTY_PATH" \notin call.flags
    /\ call.kind = "utimensat" => call.times = "now"

Writes(call) ==
    \/ call.kind \in {"change", "rename", "link", "utimensat"}
    \/ call.kind = "open" /\ call.flags \cap {"WRONLY", "RDWR", "TRUNC", "CREAT", "TMPFILE"} # {}

Examined(t, call) ==
    CASE call.kind = "rename" -> {FullPath(t, call.dirfd, call.text), FullPath(t, call.newdirfd, call.new)}
      [] call.kind = "link" -> {FullPath(t, call.newdirfd, call.new)}
      [] OTHER -> {FullPath(t, call.dirfd, call.text)}

AllowedIsCovered(fs, tracer, t, rules, calls) ==
    LET jails == [j \in {"read", "write"} |-> FilesystemPolicy(fs, rules[j])]
        force == [j \in {"read", "write"} |-> InForce(fs, rules[j])]
    IN  \A call \in {c \in calls : Looks(c) /\ Verdict(fs, tracer, t, jails, c) = "allow"} :
            \A f \in {g \in Examined(t, call) : Direct(fs, t.tid, g)} :
                \E j \in IF Writes(call) THEN {"write"} ELSE {"read", "write"} :
                    LET real == Reached(fs, t.tid, f)
                    IN  Covered(force[j], real) \/ Covered(force[j], Own(t.tid, real))

(***************************************************************************)
(* The other way round: what a rule names can be opened by that name, also *)
(* when the name is a link or leads through one, and below /proc/[tid] for *)
(* a rule of /proc/self.  Left out are links below the path of a rule and  *)
(* links below /proc/self: the code does not add their targets.            *)
(***************************************************************************)
Names(fs, tid, r, f) ==
    /\ ".." \notin ToSet(f) /\ Exists(fs, f)
    /\ f = r.path \/ (r.type = "recursive" /\ IsPrefix(r.path, f))
    /\ \A n \in (Len(r.path) + 1)..Len(f) :
          LET p == SubSeq(f, 1, n) IN RealPath(fs, p) = Append(RealPath(fs, Front(p)), f[n])
    /\ IsPrefix(Self, f) => Move(Self, tid, f) \in DOMAIN fs /\ Canonical(fs, Move(Self, tid, f))

NamedIsAllowed(fs, tid, pid, rules, files) ==
    LET tree == FilesystemPolicy(fs, rules) IN
    \A f \in files, r \in ToSet(rules) :
        Names(fs, tid, r, f) =>
            /\ AccessCheck(fs, tid, pid, tree, f) = "allow"
            /\ IsStrictPrefix(Self, f) => AccessCheck(fs, tid, pid, tree, Move(Self, tid, f)) = "allow"
=============================================================================
