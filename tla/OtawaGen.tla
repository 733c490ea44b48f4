------------------------------ MODULE OtawaGen ------------------------------
(***************************************************************************)
(* bin/otawa-gen.py: from the command line it computes the list of files  *)
(* to generate (gens), refuses to run if one exists (unless --force), and *)
(* then writes CMakeLists.txt, <name>.eld, elf_<n>.eld (--loader),        *)
(* <name>.osx (--script) and <name>.cpp, in that order.  The files of the *)
(* working directory are a map path -> what was last written there.  A   *)
(* print and exit(1) ends in "exit", an uncaught exception in "crashed".  *)
(***************************************************************************)
EXTENDS Integers, Sequences, SequencesExt, TLC

CONSTANTS
    Options,        \* candidate [version, loader, ilp, script, force] flags
    FullNames,      \* candidate module names, as their "/"-separated parts
    Elfs,           \* candidate -e values (NoElf: absent)
    FileArgs,       \* candidate lists of extra FILE arguments
    Existing,       \* files that may already exist in the directory
    NoElf

VARIABLES
    opts, free, elf,    \* the command line: flags, NAME FILE..., -e
    files,              \* the directory: path -> [what, complete]
    present,            \* the paths that existed before the run
    phase,              \* the step of the script
    reason              \* the exception of a crash

vars == <<opts, free, elf, files, present, phase, reason>>

\* The free arguments: the module name, then the extra files (each with or
\* without a ':' separating it from its destination).
FullName == free[1]
ExtraFiles == Tail(free)

\* name.rindex('/') (lines 72-78): the name is the part after the last
\* '/', the namespace everything before it ("" without a '/').
ModName == Last(FullName)
Namespace == Front(FullName)

\* The paths of the generated files (lines 81-90).
CmakePath == "CMakeLists.txt"
EldPath == ModName \o ".eld"
CppPath == ModName \o ".cpp"
ElfPath == "elf_" \o ToString(elf) \o ".eld"
OsxPath == ModName \o ".osx"

\* gens without the loader and script files (mutant).
GensBase == <<CmakePath, EldPath, CppPath>>

\* gens without the script file (mutant).
GensNoScript == <<CmakePath, EldPath, CppPath>> \o (IF opts.loader THEN <<ElfPath>> ELSE <<>>)

\* gens: the loader's ELF description and the script are added when asked.
Gens ==
    <<CmakePath, EldPath, CppPath>>
    \o (IF opts.loader THEN <<ElfPath>> ELSE <<>>)
    \o (IF opts.script THEN <<OsxPath>> ELSE <<>>)

Init ==
    /\ opts \in Options
    /\ \E n \in FullNames \cup {<<>>}, fs \in FileArgs :
          free = IF n = <<>> THEN <<>> ELSE <<n>> \o fs
    /\ elf \in Elfs \cup {NoElf}
    /\ present \in SUBSET Existing
    /\ files = [p \in present |-> [what |-> "user", complete |-> TRUE]]
    /\ phase = "start"
    /\ reason = "none"

Crash(exc) == phase' = "crashed" /\ reason' = exc

\* open(path, "w") and the writes that follow.
Write(path, what, complete) == files' = (path :> [what |-> what, complete |-> complete]) @@ files

-----------------------------------------------------------------------------
\* Lines 57-97: --version prints an undefined name (NameError); no NAME
\* is exit(1); --loader formats "elf_%d" with the -e value (TypeError when
\* absent); without --force an existing file of gens is exit(1).
Start ==
    /\ phase = "start"
    /\ CASE opts.version                               -> Crash("NameError")
         [] free = <<>>                                -> phase' = "exit" /\ UNCHANGED reason
         [] opts.loader /\ elf = NoElf                 -> Crash("TypeError")
         [] ~opts.force /\ \E p \in Range(Gens) : p \in DOMAIN files
                                                       -> phase' = "exit" /\ UNCHANGED reason
         [] OTHER                                      -> phase' = "cmake" /\ UNCHANGED reason
    /\ UNCHANGED <<opts, free, elf, files, present>>

\* Lines 99-159: CMakeLists.txt, then one install line per extra file;
\* f.index(':') raises ValueError on a file without ':', leaving the
\* file cut after the lines written so far.
WriteCmake ==
    /\ phase = "cmake"
    /\ LET ok == \A i \in 1..Len(ExtraFiles) : ExtraFiles[i].colon IN
       /\ Write(CmakePath, "cmake", ok)
       /\ IF ok THEN phase' = "eld" /\ UNCHANGED reason ELSE Crash("ValueError")
    /\ UNCHANGED <<opts, free, elf, present>>

\* Lines 161-172: the plugin's ELD file.
WriteEld ==
    /\ phase = "eld"
    /\ Write(EldPath, "plugin", TRUE)
    /\ phase' = "elf"
    /\ UNCHANGED <<opts, free, elf, present, reason>>

\* Lines 175-185: for a loader, "not elf" (an ELF number of 0) prints an
\* error and exits; otherwise the loader's ELD file.
WriteElfEld ==
    /\ phase = "elf"
    /\ IF ~opts.loader THEN phase' = "osx" /\ UNCHANGED files
       ELSE IF elf = 0 THEN phase' = "exit" /\ UNCHANGED files
       ELSE Write(ElfPath, "loader", TRUE) /\ phase' = "osx"
    /\ UNCHANGED <<opts, free, elf, present, reason>>

\* Lines 187-222: the script skeleton.
WriteOsx ==
    /\ phase = "osx"
    /\ IF opts.script THEN Write(OsxPath, "script", TRUE) ELSE UNCHANGED files
    /\ phase' = "cpp"
    /\ UNCHANGED <<opts, free, elf, present, reason>>

\* Lines 225-287: the C++ source (loader, ILP or processor plugin), then
\* the closing message.
WriteCpp ==
    /\ phase = "cpp"
    /\ Write(CppPath, "source", TRUE)
    /\ phase' = "done"
    /\ UNCHANGED <<opts, free, elf, present, reason>>

Next == Start \/ WriteCmake \/ WriteEld \/ WriteElfEld \/ WriteOsx \/ WriteCpp

\* "done", "exit" and "crashed" end the process.
Spec == Init /\ [][Next]_vars

-----------------------------------------------------------------------------
(* Properties.                                                             *)

TypeOK ==
    /\ phase \in {"start", "cmake", "eld", "elf", "osx", "cpp", "done", "exit", "crashed"}
    /\ \A p \in DOMAIN files :
          files[p] \in [what : {"user", "cmake", "plugin", "loader", "script", "source"},
                        complete : BOOLEAN]
    /\ DOMAIN files \subseteq present \cup (IF free = <<>> THEN {} ELSE Range(Gens))

\* The existence check (lines 92-97) guards every file the run writes:
\* without --force, a file that existed before the run is never
\* overwritten, whichever of --loader and --script are given.
NoClobber ==
    ~opts.force => \A p \in present : files[p].what = "user"

-----------------------------------------------------------------------------
(* Properties the code is found to violate (each checked by its own run). *)

\* Every command line ends in the generated files or in an error message
\* and exit(1) (lines 64-66, 96-97, 178-179): no exception escapes.
NoUncaughtException == phase # "crashed"

\* A run that prints an error and exits (lines 64-66, 96-97, 178-179)
\* leaves the directory as it found it.
RefusedRunWritesNothing ==
    phase = "exit" => \A p \in DOMAIN files : files[p].what = "user"

\* Every file a completed run generates holds what it was generated for:
\* the plugin's ELD file describes the plugin.
EachOutputKept ==
    phase = "done" => files[EldPath].what = "plugin"

\* Every run either generates all its files, each holding its own output,
\* or stops with an error message and leaves the directory as it was.
GenerationAtomic ==
    /\ NoUncaughtException
    /\ RefusedRunWritesNothing
    /\ EachOutputKept

=============================================================================
