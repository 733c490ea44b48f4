---------------------------- MODULE OtawaInstall ----------------------------
(***************************************************************************)
(* bin/otawa-install.py: the package index is read line by line into DB,  *)
(* the requested packages are closed over their dependencies (those whose *)
(* test finds them installed are skipped), the tools are looked up, and   *)
(* the build loop repeatedly takes the first ready package, downloads,    *)
(* builds and (if requested) installs it.  The outcome of every shell     *)
(* command is a nondeterministic success or failure.  MONITOR.fatal ends  *)
(* in "fatal", an uncaught exception in "crashed", exit(0) in "exit".     *)
(***************************************************************************)
EXTENDS Integers, Sequences, SequencesExt, FiniteSets, FiniteSetsExt

CONSTANTS
    Names,          \* package names
    Texts,          \* candidate contents of the package index
    Requests,       \* candidate package arguments
    Files,          \* files that may exist in the OTAWA directory
    Tools,          \* tools that may be on the PATH
    NoPack,         \* pack = None
    NoTest          \* a package without a test: line (Test, always False)

VARIABLES
    text, request, present, path, opts,  \* inputs and options
    phase,      \* the step of the script
    reason,     \* the message of a fatal exit or the exception of a crash
    li,         \* index of the index line being parsed
    cur,        \* the name of the package the lines apply to
    db,         \* DB: package name -> package record
    toDownload, toInstall, todo, tools,
    done,       \* packages whose pack.done is True
    installed,  \* packages installed by this run
    cmds        \* the shell commands run: [pack, cmd, dir], in order

input == <<text, request, present, path, opts>>
vars == <<input, phase, reason, li, cur, db, toDownload, toInstall, todo, tools, done, installed, cmds>>

\* The index's line kinds that set a field of the current package.
FieldKeys == {"download", "tools", "uses", "requires", "test", "build"}
DOWNLOADERS == {"hg"}
BUILDERS == {"make", "cmake"}

Init ==
    /\ text \in Texts
    /\ request \in Requests
    /\ present \in SUBSET Files
    /\ path \in SUBSET Tools
    /\ opts \in [list : BOOLEAN, dry : BOOLEAN, log : BOOLEAN, bdir : BOOLEAN]
    /\ phase = "start"
    /\ reason = "none"
    /\ li = 1
    /\ cur = NoPack
    /\ db = [n \in {} |-> 0]
    /\ toDownload = <<>> /\ toInstall = <<>> /\ todo = <<>> /\ tools = <<>>
    /\ done = {}
    /\ installed = {}
    /\ cmds = <<>>

Fatal(msg) == phase' = "fatal" /\ reason' = msg
Crash(exc) == phase' = "crashed" /\ reason' = exc

-----------------------------------------------------------------------------
\* Monitor.__init__ (line 90): the build directory is the directory the
\* script starts in; args.build_dir (line 342) is only printed.
BuildDir == <<"cwd">>

\* The directory --build-dir selects (the documented default: the current
\* directory).
SelectedBuildDir == IF opts.bdir THEN <<"B">> ELSE <<"cwd">>

\* os.path.join(mon.build_dir, pack.name): the clone of a package.
Clone(n) == BuildDir \o <<n>>

\* Opening the log unless --dry (lines 346-350): --log calls MONITOR.open,
\* which does not exist; open_log (lines 144-150) creates build.log in the
\* build directory, and when that fails its fallback reads self.stderr,
\* which does not exist either.
LogRaises(logOpened) == ~opts.dry /\ (opts.log \/ ~logOpened)

\* Log file, OTAWA directory and index download (lines 342-369).
Start ==
    /\ phase = "start"
    /\ \E logOpened, topFound, urlOpened \in BOOLEAN :
          IF LogRaises(logOpened) THEN Crash("AttributeError: Monitor")
          ELSE IF ~topFound THEN Fatal("cannot find OTAWA")
          ELSE IF ~urlOpened THEN Fatal("URLError")
          ELSE phase' = "parse" /\ UNCHANGED reason
    /\ UNCHANGED <<input, li, cur, db, toDownload, toInstall, todo, tools, done, installed, cmds>>

\* Package.__init__: no dependency, no tool, the default Test, no
\* downloader, no builder.
NewPackage == [uses |-> <<>>, requires |-> <<>>, tools |-> <<>>, test |-> NoTest,
               download |-> FALSE, build |-> "none", resolved |-> FALSE]

\* make_downloader / make_builder return None for an unknown kind and the
\* assert that follows fails.
BadField(line) ==
    \/ line.key = "download" /\ line.arg \notin DOWNLOADERS
    \/ line.key = "build" /\ line.arg \notin BUILDERS

\* The field a line sets; a requires: line is stored in pack.uses.
SetField(pk, line) ==
    CASE line.key = "tools"                   -> [pk EXCEPT !.tools = line.arg]
      [] line.key \in {"uses", "requires"}    -> [pk EXCEPT !.uses = line.arg]
      [] line.key = "test"                    -> [pk EXCEPT !.test = line.arg]
      [] line.key = "download"                -> [pk EXCEPT !.download = TRUE]
      [] line.key = "build"                   -> [pk EXCEPT !.build = line.arg]

\* One line of the index (lines 370-401).  A field line before any
\* package: line dereferences None; an unknown line fails the assert.
ParseLine ==
    /\ phase = "parse"
    /\ li <= Len(text)
    /\ LET line == text[li] IN
       \/ /\ line.key = "package"
          /\ cur' = line.arg
          /\ db' = (line.arg :> NewPackage) @@ db
          /\ li' = li + 1
          /\ UNCHANGED <<phase, reason>>
       \/ /\ line.key = "blank"
          /\ li' = li + 1
          /\ UNCHANGED <<phase, reason, cur, db>>
       \/ /\ line.key \in FieldKeys /\ cur = NoPack
          /\ Crash("AttributeError")
          /\ UNCHANGED <<li, cur, db>>
       \/ /\ line.key \in FieldKeys /\ cur # NoPack /\ BadField(line)
          /\ Fatal("bad DB")
          /\ UNCHANGED <<li, cur, db>>
       \/ /\ line.key \in FieldKeys /\ cur # NoPack /\ ~BadField(line)
          /\ db' = [db EXCEPT ![cur] = SetField(@, line)]
          /\ li' = li + 1
          /\ UNCHANGED <<phase, reason, cur>>
       \/ /\ line.key \notin FieldKeys \cup {"package", "blank"}
          /\ Fatal("bad DB")
          /\ UNCHANGED <<li, cur, db>>
    /\ UNCHANGED <<input, toDownload, toInstall, todo, tools, done, installed, cmds>>

\* DB[name] looked up without the KeyError check (mutant).
KnownAll(n) == TRUE

\* DB[name] succeeds.
Known(n) == n \in DOMAIN db

\* --list, no package, an unknown package, or the start of the download
\* closure (lines 406-425).
EndParse ==
    /\ phase = "parse"
    /\ li > Len(text)
    /\ IF opts.list \/ request = <<>>
       THEN phase' = "exit" /\ UNCHANGED <<reason, toDownload, todo>>
       ELSE IF \E i \in 1..Len(request) : ~Known(request[i])
       THEN Fatal("unknown package") /\ UNCHANGED <<toDownload, todo>>
       ELSE /\ toDownload' = request
            /\ todo' = request
            /\ phase' = "dlclosure"
            /\ UNCHANGED reason
    /\ UNCHANGED <<input, li, cur, db, toInstall, tools, done, installed, cmds>>
-----------------------------------------------------------------------------
\* The test of a package (InOtawaTest or the default Test): is it already
\* installed in the OTAWA directory?
Passes(n) == db[n].test # NoTest /\ db[n].test \in present

\* The dependencies the closures follow: pack.uses + pack.requires.
Deps(n) == db[n].uses \o db[n].requires

\* The add of a dependency q to the download list: a dependency the list
\* does not yet hold, repeated from an earlier add (mutant).
ClosureAddNoDupCheck(acc, q) == IF ~Passes(q) THEN Append(acc, q) ELSE acc

\* One dependency of the download closure: added unless already listed
\* or already installed.
ClosureAdd(acc, q) == IF q \notin Range(acc) /\ ~Passes(q) THEN Append(acc, q) ELSE acc

\* todo[-1] read without being removed (mutant).
Peek(s) == s

\* todo.pop(): the last package is taken off the list.
Pop(s) == Front(s)

\* One pop of the download closure (lines 427-437): the package's uses and
\* requires are replaced by the Package objects (DB[spack], a KeyError
\* for an unknown name or for a package popped a second time, whose lists
\* already hold objects), then the missing ones are queued.
DownloadClosureStep ==
    /\ phase = "dlclosure"
    /\ todo # <<>>
    /\ LET p    == Last(todo)
           deps == Deps(p)
           new  == FoldLeft(ClosureAdd, toDownload, deps)
       IN  IF \/ db[p].resolved /\ deps # <<>>
              \/ \E i \in 1..Len(deps) : ~Known(deps[i])
           THEN Fatal("corrupted DB") /\ UNCHANGED <<db, toDownload, todo>>
           ELSE /\ db' = [db EXCEPT ![p].resolved = TRUE]
                /\ toDownload' = new
                /\ todo' = Pop(todo) \o SubSeq(new, Len(toDownload) + 1, Len(new))
                /\ UNCHANGED <<phase, reason>>
    /\ UNCHANGED <<input, li, cur, toInstall, tools, done, installed, cmds>>

EndDownloadClosure ==
    /\ phase = "dlclosure"
    /\ todo = <<>>
    /\ toInstall' = request
    /\ todo' = request
    /\ phase' = "inclosure"
    /\ UNCHANGED <<input, reason, li, cur, db, toDownload, tools, done, installed, cmds>>

\* One pop of the install closure (lines 443-448): a required package not
\* yet listed reaches to_install(spack), a call of a list.
InstallClosureStep ==
    /\ phase = "inclosure"
    /\ todo # <<>>
    /\ LET p == Last(todo) IN
       IF \E q \in Range(db[p].requires) : q \notin Range(toInstall)
       THEN Crash("TypeError") /\ UNCHANGED todo
       ELSE todo' = Pop(todo) /\ UNCHANGED <<phase, reason>>
    /\ UNCHANGED <<input, li, cur, db, toDownload, toInstall, tools, done, installed, cmds>>

\* The tools of the packages to download, each once (lines 452-454); the
\* lookup on the PATH (lines 466-489) only prints, since failed is never
\* set; --dry exits; the build loop starts on to_download (line 493).
CheckTools ==
    /\ phase = "inclosure"
    /\ todo = <<>>
    /\ tools' = FoldLeft(LAMBDA acc, p : acc \o SelectSeq(db[p].tools, LAMBDA t : t \notin Range(acc)),
                         <<>>, toDownload)
    /\ todo' = toDownload
    /\ phase' = IF opts.dry THEN "exit" ELSE "schedule"
    /\ UNCHANGED <<input, reason, li, cur, db, toDownload, toInstall, done, installed, cmds>>

\* The shell steps of HgDownloader.download, MakeBuilder/CMakeBuilder.build
\* and install: "ok", or the first command that exits non-zero ("configure"
\* is CMakeBuilder's cmake, after which make is not run).
Outcomes == {"ok", "download", "configure", "build", "install"}

IsReady(n) == \A q \in Range(Deps(n)) : q \in done

\* Every built package installed (mutant).
InstallsAll(n) == TRUE

\* pack in to_install.
Installs(n) == n \in Range(toInstall)

\* The commands of one package up to the first that fails: hg clone into
\* its clone (after rmtree of a leftover one), then in the clone, which
\* the builders enter by its absolute path: cmake and make, or make; then
\* make install.
Commands(n, step) ==
    LET in(c) == [pack |-> n, cmd |-> c, dir |-> Clone(n)]
        build == IF db[n].build = "cmake"
                 THEN <<in("cmake")>> \o (IF step = "configure" THEN <<>> ELSE <<in("make")>>)
                 ELSE <<in("make")>>
    IN  <<[pack |-> n, cmd |-> "hg", dir |-> Clone(n)]>>
        \o (IF step = "download" THEN <<>> ELSE build)
        \o (IF step \in {"ok", "install"} /\ Installs(n) THEN <<in("make install")>> ELSE <<>>)

\* One iteration of the build loop (lines 494-524): the first ready
\* package (IndexError if none), then download, build and, if requested,
\* install, each of which may fail; a package without download: or build:
\* line dereferences None.
ScheduleStep ==
    /\ phase = "schedule"
    /\ todo # <<>>
    /\ LET ready == SelectSeq(todo, IsReady) IN
       IF ready = <<>>
       THEN Crash("IndexError") /\ UNCHANGED <<todo, done, installed, cmds>>
       ELSE LET p == Head(ready) IN
            /\ todo' = RemoveFirst(todo, p)
            /\ \E step \in Outcomes :
                  /\ step = "configure" => db[p].build = "cmake"
                  /\ IF ~db[p].download THEN Crash("AttributeError") /\ UNCHANGED <<done, installed, cmds>>
                     ELSE IF db[p].build = "none" /\ step # "download"
                     THEN Crash("AttributeError") /\ UNCHANGED <<done, installed>> /\ cmds' = cmds \o Commands(p, "download")
                     ELSE /\ cmds' = cmds \o Commands(p, step)
                          /\ IF step = "download" THEN Fatal("download failed") /\ UNCHANGED <<done, installed>>
                             ELSE IF step \in {"configure", "build"} THEN Fatal("build failed") /\ UNCHANGED <<done, installed>>
                             ELSE IF Installs(p) /\ step = "install"
                             THEN Fatal("installation failed") /\ UNCHANGED <<done, installed>>
                             ELSE /\ installed' = IF Installs(p) THEN installed \cup {p} ELSE installed
                                  /\ done' = done \cup {p}
                                  /\ UNCHANGED <<phase, reason>>
    /\ UNCHANGED <<input, li, cur, db, toDownload, toInstall, tools>>

EndSchedule ==
    /\ phase = "schedule"
    /\ todo = <<>>
    /\ phase' = "done"
    /\ UNCHANGED <<input, reason, li, cur, db, toDownload, toInstall, todo, tools, done, installed, cmds>>

-----------------------------------------------------------------------------
Next ==
    \/ Start \/ ParseLine \/ EndParse
    \/ DownloadClosureStep \/ EndDownloadClosure
    \/ InstallClosureStep \/ CheckTools
    \/ ScheduleStep \/ EndSchedule

\* "done", "exit", "fatal" and "crashed" end the process: no step follows.
\* The script is one sequential process: while it has not ended, it keeps
\* taking steps (weak fairness of Next; the shell commands' outcomes stay
\* nondeterministic, fairness does not choose them).
Spec == Init /\ [][Next]_vars /\ WF_vars(Next)
-----------------------------------------------------------------------------
(* Properties.                                                             *)

TypeOK ==
    /\ phase \in {"start", "parse", "dlclosure", "inclosure", "schedule",
                  "done", "exit", "fatal", "crashed"}
    /\ li \in 1..Len(text) + 1
    /\ cur \in Names \cup {NoPack}
    /\ DOMAIN db \subseteq Names
    /\ \A n \in Range(toDownload) \cup Range(todo) \cup Range(toInstall) : n \in DOMAIN db
    /\ installed \subseteq done
    /\ done \subseteq Range(toDownload)

\* The packages the download closure must reach from the requested ones:
\* follow uses and requires, but not into a package already installed.
RECURSIVE Closure(_)
Closure(S) ==
    LET T == S \cup {q \in UNION {Range(Deps(p)) : p \in S} : ~Passes(q)}
    IN  IF T = S THEN S ELSE Closure(T)

\* The download closure (lines 424-437): once it is over, to_download is
\* the request followed by every other package the requested ones need,
\* directly or not, that is not already installed, each listed once.
DownloadClosureExact ==
    toInstall # <<>> =>
        LET extra == SubSeq(toDownload, Len(request) + 1, Len(toDownload)) IN
        /\ SubSeq(toDownload, 1, Len(request)) = request
        /\ IsInjective(extra)
        /\ Range(extra) \cap Range(request) = {}
        /\ Range(toDownload) = Closure(Range(request))

\* The package: line a line of the index belongs to (0 if none).
OwnerLine(i) == SelectLastInSubSeq(text, 1, i, LAMBDA l : l.key = "package")

\* What the index says package n depends on: the names of the lines of
\* the given kinds in n's entry (its last package: line, since a second
\* one starts a fresh Package).
TextLines(n, kinds) ==
    UNION {Range(text[i].arg) :
              i \in {i \in 1..Len(text) : /\ text[i].key \in kinds /\ OwnerLine(i) > 0
                                         /\ text[OwnerLine(i)].arg = n
                                         /\ \A j \in OwnerLine(i)+1..Len(text) :
                                               text[j] # text[OwnerLine(i)]}}
TextDeps(n) == TextLines(n, {"uses", "requires"})

\* The packages a set of packages requires, directly or not, by the index.
RECURSIVE RequiresClosure(_)
RequiresClosure(S) ==
    LET T == S \cup UNION {TextLines(p, {"requires"}) : p \in S}
    IN  IF T = S THEN S ELSE RequiresClosure(T)

\* The build loop (lines 494-524), seen through pack.done and the
\* dependencies the index declares, implements InstallOrder: a package is
\* marked done only after everything its entry uses or requires.
IO == INSTANCE InstallOrder WITH completed <- done,
                                 deps <- [n \in DOMAIN db |-> TextDeps(n)]
InstallsOnlyRequired ==
    /\ installed \subseteq RequiresClosure(Range(request))
    /\ phase = "done" => Range(request) \subseteq installed

\* The ends of the process.
Ended == phase \in {"done", "exit", "fatal", "crashed"}

\* The three while loops (download closure, line 424; install closure,
\* line 442; build loop, line 493) and the parser's line loop all end,
\* whatever the index's dependency graph (shared dependencies, cycles,
\* packages named twice): every run of the installer ends.
Terminates == <>Ended

-----------------------------------------------------------------------------
(* Properties the code is found to violate (each checked by its own run). *)

\* Progress of the build loop (line 495): every package waiting in the
\* loop depends only on packages done or still waiting, so that a ready
\* one can always be found.
ScheduleClosed ==
    phase = "schedule" =>
        \A p \in Range(todo) : Range(Deps(p)) \subseteq done \cup Range(todo)

\* The install closure (lines 441-448): when a run completes, every package
\* that a requested package names on a requires: line is installed (or
\* was already).
RequiredPackagesInstalled ==
    phase = "done" =>
        \A i \in 1..Len(text) :
            (text[i].key = "requires" /\ OwnerLine(i) > 0 /\ text[OwnerLine(i)].arg \in Range(request))
                => \A q \in Range(text[i].arg) : q \in installed \/ (q \in DOMAIN db /\ Passes(q))

\* The "corrupted DB" exit (lines 435-437) happens only for an index whose
\* uses: or requires: lines name a package it does not declare.
CorruptOnlyIfUnknown ==
    reason = "corrupted DB" =>
        \E i \in 1..Len(text) :
            /\ text[i].key \in {"uses", "requires"}
            /\ \E q \in Range(text[i].arg) :
                  q \notin {text[j].arg : j \in {j \in 1..Len(text) : text[j].key = "package"}}

\* The build loop (lines 493-524) builds a package only once everything
\* its entry in the index uses or requires is built.
DependenciesBuiltFirst ==
    \A p \in done : TextDeps(p) \subseteq done

\* The tool lookup (lines 466-489): no package is built while a tool the
\* packages need is missing from the PATH.
MissingToolStops ==
    done # {} => Range(tools) \subseteq path

\* Opening the log (MONITOR.open for --log at line 348, Monitor.open_log
\* at line 150 when the default log file cannot be created) lets the run
\* go on: no AttributeError ends a run before the index is read.
LogOpenNeverRaises == reason # "AttributeError: Monitor"

\* --build-dir (documented at lines 65-66; read at line 342): the
\* packages are cloned into the directory it selects.
BuildDirHonoured ==
    \A k \in 1..Len(cmds) : cmds[k].cmd = "hg" => SubSeq(cmds[k].dir, 1, 1) = SelectedBuildDir

\* The options and the index are honoured: the log opens, the build
\* directory is the one selected, a missing tool stops the run before any
\* build, what a requested package requires is installed with it, and
\* every package is built after what its entry uses or requires.
OptionsAndIndexHonoured ==
    /\ LogOpenNeverRaises
    /\ BuildDirHonoured
    /\ MissingToolStops
    /\ RequiredPackagesInstalled
    /\ DependenciesBuiltFirst

\* The closures (lines 423-448) hand the build loop a self-contained list,
\* and reject only an index that names a package it does not declare.
ClosureSound == ScheduleClosed /\ CorruptOnlyIfUnknown

=============================================================================
