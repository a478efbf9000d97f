------------------------------- MODULE CoreBuild -------------------------------
(***************************************************************************)
(* The core's binary on disk: processes that want it run look whether it   *)
(* is there, build it when it is not, run it, and hash it for the audit    *)
(* record.  Nothing is locked: any number of them may do so at once, over  *)
(* one build directory, while the source is edited.                        *)
(*                                                                         *)
(* The tool a caller started (cmake or a compiler, and what they start)    *)
(* ends when it likes, in success or not, or dies; it goes on when its     *)
(* caller dies.  A linker replaces the file: what another was writing      *)
(* there is written to a file without a name.                              *)
(***************************************************************************)
EXTENDS Integers, FiniteSets

CONSTANTS
    Caller,
    Configs,               \* what a configuration may say of the core, and
                           \* which build tools the PATH has
    Compiles,              \* versions of the source that compile
    Nobody,
    MaxVersion, MaxCalls, MaxDeaths   \* bounds of the model

ASSUME BuildAssumption ==
    /\ Configs \subseteq [auto_build : BOOLEAN, elsewhere : BOOLEAN,
                           which : SUBSET {"cmake", "g++", "clang++"}]
    /\ Nobody \notin Caller
    /\ Compiles \subseteq Nat /\ MaxVersion \in Nat /\ MaxDeaths \in Nat /\ MaxCalls \in Nat

VARIABLES
    config,    \* what was loaded when the processes started
    source,    \* which version of the source is on disk
    files,     \* the file at the default path and the configured one
    tool,      \* per caller, the build tool it started
    call,      \* per caller, what it is doing
    calls, deaths,   \* counters of the bounds
    asked      \* history: callers that asked for a build by name

vars == <<config, source, files, tool, call, calls, deaths, asked>>

Missing == [missing |-> TRUE]
File(version, writer, whole) == [version |-> version, writer |-> writer, whole |-> whole]
Idle == [at |-> "idle"]
NoTool == [doing |-> "nothing"]

(* default_binary_path, resolve_binary: a configured path takes precedence. *)
resolve_binary == IF config.elsewhere THEN "configured" ELSE "default"

IsThere(p) == files[p] # Missing

Init ==
    /\ config \in Configs
    /\ source = 0
    /\ files \in [{"default", "configured"} -> {Missing, File(0, Nobody, TRUE)}]
    /\ tool = [c \in Caller |-> NoTool]
    /\ call = [c \in Caller |-> Idle]
    /\ calls = 0
    /\ deaths = 0
    /\ asked = {}

Goes(c, state) == call' = [call EXCEPT ![c] = state]
Ends(c) == Goes(c, Idle)
OnDisk == <<config, source, files, tool, calls, deaths>>

(* run_core and self-test begin with ensure_core, build-core with the build. *)
Begin(c, purpose) ==
    /\ call[c] = Idle
    /\ tool[c] = NoTool
    /\ calls < MaxCalls
    /\ calls' = calls + 1
    /\ Goes(c, [at |-> IF purpose = "build" THEN "build" ELSE "ensure", purpose |-> purpose])
    /\ asked' = IF purpose = "build" THEN asked \cup {c} ELSE asked \ {c}
    /\ UNCHANGED <<config, source, files, tool, deaths>>

(* ensure_core: whatever is there is taken, else it is built, if that is   *)
(* allowed.                                                                *)
EnsureCore(c) ==
    /\ call[c].at = "ensure"
    /\ \/ /\ IsThere(resolve_binary)
          /\ Goes(c, [call[c] EXCEPT !.at = "run"])
       \/ /\ ~IsThere(resolve_binary) /\ config.auto_build
          /\ Goes(c, [call[c] EXCEPT !.at = "build"])
       \/ /\ ~IsThere(resolve_binary) /\ ~config.auto_build
          /\ Ends(c)
    /\ UNCHANGED <<OnDisk, asked>>

-----------------------------------------------------------------------------
(* build_core: the first tool there is; its exit status is not looked at.  *)
StartTool(c) ==
    /\ call[c].at = "build"
    /\ \/ /\ config.which = {}
          /\ Ends(c)
          /\ UNCHANGED tool
       \/ /\ config.which # {}
          /\ tool' = [tool EXCEPT ![c] = [doing |-> "compiling", version |-> source]]
          /\ Goes(c, [call[c] EXCEPT !.at = "building"])
    /\ UNCHANGED <<config, source, files, calls, deaths, asked>>

Quits(c) == tool' = [tool EXCEPT ![c] = NoTool]

(* A source that does not compile leaves the file as it was.               *)
CompileFails(c) ==
    /\ tool[c].doing = "compiling"
    /\ tool[c].version \notin Compiles
    /\ Quits(c)
    /\ UNCHANGED <<config, source, files, call, calls, deaths, asked>>

LinkBegins(c) ==
    /\ tool[c].doing = "compiling"
    /\ tool[c].version \in Compiles
    /\ tool' = [tool EXCEPT ![c].doing = "linking"]
    /\ files' = [files EXCEPT !["default"] = File(tool[c].version, c, FALSE)]
    /\ UNCHANGED <<config, source, call, calls, deaths, asked>>

LinkEnds(c) ==
    /\ tool[c].doing = "linking"
    /\ Quits(c)
    /\ files' = IF files["default"] = File(tool[c].version, c, FALSE)
                THEN [files EXCEPT !["default"] = File(tool[c].version, c, TRUE)]
                ELSE files
    /\ UNCHANGED <<config, source, call, calls, deaths, asked>>

(* Killed by hand, by the machine, or with it.                             *)
ToolDies(c) ==
    /\ tool[c] # NoTool
    /\ deaths < MaxDeaths
    /\ deaths' = deaths + 1
    /\ Quits(c)
    /\ UNCHANGED <<config, source, files, call, calls, asked>>

(* The tool has ended, however it did: is the file there?                  *)
BuildEnds(c) ==
    /\ call[c].at = "building"
    /\ tool[c] = NoTool
    /\ \/ /\ ~IsThere(resolve_binary) \/ call[c].purpose = "build"
          /\ Ends(c)
       \/ /\ IsThere(resolve_binary) /\ call[c].purpose # "build"
          /\ Goes(c, [call[c] EXCEPT !.at = "run"])
    /\ UNCHANGED <<OnDisk, asked>>

Mut_KillTheTools(c) ==
    /\ call[c].at = "building"
    /\ tool' = [tool EXCEPT ![c] = NoTool]
    /\ Ends(c)
    /\ UNCHANGED <<config, source, files, calls, deaths, asked>>

(* The build's timeout ends the call when the pipes are closed, which the  *)
(* tool's own children may hold.                                           *)
BuildTimesOut(c) ==
    /\ call[c].at = "building"
    /\ tool[c] = NoTool
    /\ Ends(c)
    /\ UNCHANGED <<OnDisk, asked>>

-----------------------------------------------------------------------------
(* run_core: the file as it is now.  One that is gone or half written      *)
(* cannot be started; one that is whole answers, or fails, or times out.   *)
RunCore(c) ==
    /\ call[c].at = "run"
    /\ \/ Ends(c)
       \/ /\ IsThere(resolve_binary)
          /\ files[resolve_binary].whole
          /\ Goes(c, [at |-> "hash", purpose |-> call[c].purpose,
                      ran |-> files[resolve_binary]])
    /\ UNCHANGED <<OnDisk, asked>>

Mut_HashDefault(p) == files["default"]

(* file_hash, "missing" when there is no file.                             *)
file_hash(p) == files[p]

HashBinary(c) ==
    /\ call[c].at = "hash"
    /\ Goes(c, [at |-> "audited", purpose |-> call[c].purpose,
                ran |-> call[c].ran, hashed |-> file_hash(resolve_binary)])
    /\ UNCHANGED <<OnDisk, asked>>

Finish(c) ==
    /\ call[c].at = "audited"
    /\ Ends(c)
    /\ UNCHANGED <<OnDisk, asked>>

(* A caller dies; the tool it started does not.                            *)
CallerDies(c) ==
    /\ call[c] # Idle
    /\ Ends(c)
    /\ UNCHANGED <<OnDisk, asked>>

Edit ==
    /\ source < MaxVersion
    /\ source' = source + 1
    /\ UNCHANGED <<config, files, tool, call, calls, deaths, asked>>

Next ==
    \/ \E c \in Caller :
          \/ \E purpose \in {"recommend", "build"} : Begin(c, purpose)
          \/ EnsureCore(c) \/ StartTool(c) \/ BuildEnds(c) \/ BuildTimesOut(c)
          \/ RunCore(c) \/ HashBinary(c) \/ Finish(c) \/ CallerDies(c)
          \/ CompileFails(c) \/ LinkBegins(c) \/ LinkEnds(c) \/ ToolDies(c)
    \/ Edit

Spec == Init /\ [][Next]_vars

-----------------------------------------------------------------------------
FileType ==
    {Missing} \cup [version : 0 .. MaxVersion, writer : Caller \cup {Nobody}, whole : BOOLEAN]

TypeOK ==
    /\ files \in [{"default", "configured"} -> FileType]
    /\ tool \in [Caller -> {NoTool}
                     \cup [doing : {"compiling", "linking"}, version : 0 .. MaxVersion]]
    /\ \A c \in Caller :
          /\ call[c].at \in {"idle", "ensure", "build", "building", "run", "hash", "audited"}
          /\ call[c].at \in {"hash", "audited"} =>
                call[c].ran \in {f \in FileType \ {Missing} : f.whole}
    /\ source \in 0 .. MaxVersion /\ calls \in 0 .. MaxCalls /\ deaths \in 0 .. MaxDeaths
    /\ asked \subseteq Caller

(* LLR-034, of processes that overlap and tools that outlive them: where   *)
(* building is not allowed, a tool runs only for who asked for a build.    *)
BuildsOnlyWhenAllowed ==
    \A c \in Caller : tool[c] # NoTool => config.auto_build \/ c \in asked

(* engine.rs:148 and :163: the hash in the audit record is of the path that *)
(* ran.  It is never "missing", and if it is not that of the binary that   *)
(* priced the decision, it is that of one linked there since, which cannot *)
(* happen to a configured binary.                                          *)
HashNamesWhatRan ==
    \A c \in Caller :
        call[c].at = "audited" /\ call[c].hashed # call[c].ran =>
            ~config.elsewhere /\ call[c].hashed \notin {Missing, File(0, Nobody, TRUE)}

(* What HLR-060 has the audit trail for, that it cannot "silently drift     *)
(* from what actually happened": the hash is that of the binary that       *)
(* priced the decision.  It does not hold: the file is hashed after the    *)
(* run, and a build may have replaced it in between.                       *)
AuditNamesWhatRan ==
    \A c \in Caller : call[c].at = "audited" => call[c].hashed = call[c].ran

(* ensure_core trusts any file it finds, so builds that overlap, fail, time *)
(* out or lose their caller must not leave half a binary behind.           *)
BuildsLeaveWholeBinary ==
    (\A c \in Caller : tool[c] = NoTool) /\ deaths = 0 =>
        \A p \in DOMAIN files : files[p] = Missing \/ files[p].whole
=============================================================================
