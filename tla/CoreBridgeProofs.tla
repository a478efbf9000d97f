--------------------------- MODULE CoreBridgeProofs ---------------------------
(***************************************************************************)
(* The core bridge: what can be relied on about the core's binary without  *)
(* a lock, for any number of processes, configurations, versions and build *)
(* tools; and, at the end, the command with a timeout that runs the core   *)
(* and the tools, for any output, any size of a pipe and any timeout.      *)
(***************************************************************************)
EXTENDS CoreBuild, TimedCommand, SequenceTheorems, TLAPS

Paths == {"default", "configured"}
Given0 == File(0, Nobody, TRUE)     \* the file that was there at first

(* Where a call stands and what its tool does go together.                 *)
CallInv ==
    /\ DOMAIN call = Caller
    /\ config \in Configs
    /\ \A c \in Caller :
          /\ "at" \in DOMAIN call[c]
          /\ call[c].at \in {"ensure", "build"} => tool[c] = NoTool
          /\ call[c].at = "build" => config.auto_build \/ c \in asked

(* A file that is not whole is being written by the tool that began it.    *)
BeingWritten(c) ==
    tool[c].doing = "linking" /\ files["default"] = File(tool[c].version, c, FALSE)

FilesInv ==
    /\ files["configured"] \in {Missing, Given0}
    /\ deaths = 0 => \/ files["default"] = Missing \/ files["default"].whole
                     \/ \E c \in Caller : BeingWritten(c)

(* What ran, as long as its hash is to come: the configured file, which is *)
(* still the same, or a file in whose place there is one by now.           *)
RanRight(state) ==
    state.at = "hash" =>
        /\ config.elsewhere => state.ran = files["configured"]
        /\ ~config.elsewhere =>
              /\ files["default"] # Missing
              /\ files["default"] = Given0 => state.ran = Given0

RanInv == \A c \in Caller : RanRight(call[c])

HashedRight(state) ==
    state.at = "audited" /\ state.hashed # state.ran =>
        ~config.elsewhere /\ state.hashed \notin {Missing, Given0}

IInv == TypeOK /\ CallInv /\ FilesInv /\ RanInv /\ BuildsOnlyWhenAllowed /\ HashNamesWhatRan

(* Files differ from no file, and by who wrote them.                       *)
LEMMA FileFacts ==
    /\ \A v, w, b : File(v, w, b) # Missing
    /\ \A v, w, b : File(v, w, b).whole = b /\ File(v, w, b).writer = w
                    /\ File(v, w, b).version = v
    /\ \A v, b : \A c \in Caller : File(v, c, b) # Given0
    /\ \A v \in 0 .. MaxVersion, w \in Caller \cup {Nobody}, b \in BOOLEAN :
          File(v, w, b) \in FileType
<1>1. \A v, w, b : File(v, w, b) # Missing
  <2> SUFFICES ASSUME NEW v, NEW w, NEW b PROVE File(v, w, b) # Missing
    OBVIOUS
  <2>1. "missing" \in DOMAIN Missing /\ "missing" \notin DOMAIN File(v, w, b)
    BY DEF File, Missing
  <2> QED BY <2>1
<1>2. \A v, w, b : File(v, w, b).whole = b /\ File(v, w, b).writer = w
                   /\ File(v, w, b).version = v
  BY DEF File
<1>3. \A v, b : \A c \in Caller : File(v, c, b) # Given0
  <2>1. Nobody \notin Caller
    BY BuildAssumption
  <2> SUFFICES ASSUME NEW v, NEW b, NEW c \in Caller, File(v, c, b) = Given0 PROVE FALSE
    OBVIOUS
  <2>2. File(v, c, b).writer = c /\ Given0.writer = Nobody
    BY DEF File, Given0
  <2> QED BY <2>1, <2>2
<1>4. \A v \in 0 .. MaxVersion, w \in Caller \cup {Nobody}, b \in BOOLEAN :
         File(v, w, b) \in FileType
  BY DEF File, FileType
<1> QED BY <1>1, <1>2, <1>3, <1>4

LEMMA InitInv == Init => IInv
<1> SUFFICES ASSUME Init PROVE IInv
  OBVIOUS
<1>1. files["default"] \in {Missing, Given0} /\ files["configured"] \in {Missing, Given0}
  BY DEF Init, Given0
<1>2. Given0 \in FileType
  BY BuildAssumption DEF Given0, File, FileType
<1>3. Missing \in FileType
  BY DEF FileType
<1>4. \A c \in Caller : call[c] = Idle /\ call[c].at = "idle" /\ tool[c] = NoTool
                        /\ "at" \in DOMAIN call[c]
  BY DEF Init, Idle
<1>5. files \in [Paths -> FileType]
  BY <1>1, <1>2, <1>3 DEF Init, Given0, Paths
<1>6. TypeOK
  BY <1>4, <1>5, BuildAssumption DEF Init, TypeOK, Paths
<1>7. CallInv /\ RanInv /\ HashNamesWhatRan /\ BuildsOnlyWhenAllowed
  BY <1>4 DEF Init, CallInv, RanInv, RanRight, HashNamesWhatRan, BuildsOnlyWhenAllowed
<1>8. FilesInv
  <2>1. Given0.whole
    BY FileFacts DEF Given0
  <2> QED BY <1>1, <2>1 DEF FilesInv
<1> QED BY <1>6, <1>7, <1>8 DEF IInv

Phases == {"idle", "ensure", "build", "building", "run", "hash", "audited"}
Wholes == {f \in FileType \ {Missing} : f.whole}

(* A call that goes on, with what is right for where it goes, keeps the    *)
(* invariant as long as nothing on the disk changes.                       *)
LEMMA GoesKeeps ==
    ASSUME IInv, NEW c \in Caller, NEW state, Goes(c, state),
           UNCHANGED <<config, source, files, tool, deaths>>,
           asked' = asked \/ (tool[c] = NoTool /\ asked' \in SUBSET Caller
                              /\ \A d \in Caller \ {c} : d \in asked' <=> d \in asked),
           calls' \in 0 .. MaxCalls,
           "at" \in DOMAIN state, state.at \in Phases,
           state.at \in {"ensure", "build"} => tool[c] = NoTool,
           state.at = "build" => config.auto_build \/ c \in asked',
           state.at \in {"hash", "audited"} => state.ran \in Wholes,
           RanRight(state), HashedRight(state)
    PROVE  IInv'
<1>1. /\ DOMAIN call' = Caller /\ call'[c] = state
      /\ \A d \in Caller \ {c} : call'[d] = call[d]
  BY DEF Goes, IInv, CallInv
<1>2. TypeOK'
  <2>1. \A d \in Caller : /\ call'[d].at \in Phases
                          /\ call'[d].at \in {"hash", "audited"} => call'[d].ran \in Wholes
    BY <1>1 DEF IInv, TypeOK, Phases, Wholes
  <2>2. asked' \subseteq Caller
    BY DEF IInv, TypeOK
  <2> QED BY <2>1, <2>2 DEF IInv, TypeOK, Phases, Wholes
<1>3. CallInv'
  BY <1>1 DEF IInv, CallInv
<1>4. FilesInv'
  BY DEF IInv, FilesInv, BeingWritten
<1>5. RanInv'
  BY <1>1 DEF IInv, RanInv, RanRight
<1>6. HashNamesWhatRan'
  BY <1>1 DEF IInv, HashNamesWhatRan, HashedRight, Given0
<1>7. BuildsOnlyWhenAllowed'
  BY DEF IInv, BuildsOnlyWhenAllowed
<1> QED BY <1>2, <1>3, <1>4, <1>5, <1>6, <1>7 DEF IInv

(* Nothing is asked of a call that has ended.                              *)
LEMMA IdleFacts == Idle.at = "idle" /\ Idle.at \in Phases /\ "at" \in DOMAIN Idle
  BY DEF Idle, Phases

LEMMA EndsKeeps ==
    ASSUME IInv, NEW c \in Caller, Ends(c), UNCHANGED <<OnDisk, asked>>
    PROVE  IInv'
<1>1. RanRight(Idle) /\ HashedRight(Idle)
  BY IdleFacts DEF RanRight, HashedRight
<1>2. calls \in 0 .. MaxCalls
  BY DEF IInv, TypeOK
<1>3. Goes(c, Idle)
  BY DEF Ends
<1>4. UNCHANGED <<config, source, files, tool, deaths, calls>>
  BY DEF OnDisk
<1> QED BY <1>1, <1>2, <1>3, <1>4, IdleFacts, GoesKeeps

(* A call that moves from one place to another, taking nothing along.      *)
LEMMA MovesKeeps ==
    ASSUME IInv, NEW c \in Caller, NEW place \in {"run", "build"},
           Goes(c, [call[c] EXCEPT !.at = place]), UNCHANGED <<OnDisk, asked>>,
           place = "build" => tool[c] = NoTool /\ (config.auto_build \/ c \in asked)
    PROVE  IInv'
<1> DEFINE state == [call[c] EXCEPT !.at = place]
<1>1. state.at = place /\ "at" \in DOMAIN state
  BY DEF IInv, CallInv
<1> HIDE DEF state
<1>2. state.at \in Phases /\ RanRight(state) /\ HashedRight(state)
      /\ state.at \notin {"ensure", "hash", "audited"} /\ "at" \in DOMAIN state
  BY <1>1 DEF RanRight, HashedRight, Phases
<1>3. calls \in 0 .. MaxCalls
  BY DEF IInv, TypeOK
<1>4. UNCHANGED <<config, source, files, tool, deaths, calls>>
  BY DEF OnDisk
<1>5. Goes(c, state)
  BY DEF state
<1> QED BY <1>1, <1>2, <1>3, <1>4, <1>5, GoesKeeps
-----------------------------------------------------------------------------
(* Actions of the caller.                                                  *)
LEMMA BeginKeeps ==
    ASSUME IInv, NEW c \in Caller, NEW purpose \in {"recommend", "build"}, Begin(c, purpose)
    PROVE  IInv'
<1> DEFINE state == [at |-> IF purpose = "build" THEN "build" ELSE "ensure",
                     purpose |-> purpose]
<1>1. state.at \in {"ensure", "build"} /\ (state.at = "build" <=> purpose = "build")
      /\ "at" \in DOMAIN state
  OBVIOUS
<1>2. Goes(c, state) /\ tool[c] = NoTool
  BY DEF Begin
<1> HIDE DEF state
<1>3. RanRight(state) /\ HashedRight(state) /\ state.at \in Phases
      /\ state.at \notin {"hash", "audited"}
  BY <1>1 DEF RanRight, HashedRight, Phases
<1>4. asked' \in SUBSET Caller /\ (\A d \in Caller \ {c} : d \in asked' <=> d \in asked)
      /\ (state.at = "build" => c \in asked')
  BY <1>1 DEF Begin, IInv, TypeOK
<1>5. calls' \in 0 .. MaxCalls
  BY BuildAssumption DEF Begin, IInv, TypeOK
<1>6. UNCHANGED <<config, source, files, tool, deaths>>
  BY DEF Begin
<1> QED BY <1>1, <1>2, <1>3, <1>4, <1>5, <1>6, GoesKeeps

LEMMA EnsureCoreKeeps ==
    ASSUME IInv, NEW c \in Caller, EnsureCore(c) PROVE IInv'
<1>1. UNCHANGED <<OnDisk, asked>> /\ tool[c] = NoTool
  BY DEF EnsureCore, IInv, CallInv
<1>2. CASE Goes(c, [call[c] EXCEPT !.at = "run"])
  BY <1>1, <1>2, MovesKeeps
<1>3. CASE Goes(c, [call[c] EXCEPT !.at = "build"]) /\ config.auto_build
  BY <1>1, <1>3, MovesKeeps
<1>4. CASE Ends(c)
  BY <1>1, <1>4, EndsKeeps
<1> QED BY <1>2, <1>3, <1>4 DEF EnsureCore

LEMMA BuildEndsKeeps ==
    ASSUME IInv, NEW c \in Caller, BuildEnds(c) PROVE IInv'
<1>1. UNCHANGED <<OnDisk, asked>>
  BY DEF BuildEnds
<1>2. CASE Goes(c, [call[c] EXCEPT !.at = "run"])
  BY <1>1, <1>2, MovesKeeps
<1>3. CASE Ends(c)
  BY <1>1, <1>3, EndsKeeps
<1> QED BY <1>2, <1>3 DEF BuildEnds

LEMMA RunCoreKeeps ==
    ASSUME IInv, NEW c \in Caller, RunCore(c) PROVE IInv'
<1>1. UNCHANGED <<OnDisk, asked>>
  BY DEF RunCore
<1>2. CASE Ends(c)
  BY <1>1, <1>2, EndsKeeps
<1>3. CASE /\ IsThere(resolve_binary)
           /\ files[resolve_binary].whole
           /\ Goes(c, [at |-> "hash", purpose |-> call[c].purpose,
                       ran |-> files[resolve_binary]])
  <2> DEFINE state == [at |-> "hash", purpose |-> call[c].purpose,
                       ran |-> files[resolve_binary]]
  <2>1. state.at = "hash" /\ state.ran = files[resolve_binary] /\ "at" \in DOMAIN state
    OBVIOUS
  <2>2. Goes(c, state)
    BY <1>3
  <2> HIDE DEF state
  <2>3. resolve_binary \in Paths
    BY DEF resolve_binary, Paths
  <2>4. files[resolve_binary] \in Wholes
    BY <2>3, <1>3 DEF IInv, TypeOK, Paths, Wholes, IsThere
  <2>5. RanRight(state)
    BY <2>1, <1>3 DEF RanRight, resolve_binary, IsThere
  <2>6. HashedRight(state) /\ state.at \in Phases
    BY <2>1 DEF HashedRight, Phases
  <2>7. calls \in 0 .. MaxCalls
    BY DEF IInv, TypeOK
  <2>8. UNCHANGED <<config, source, files, tool, deaths, calls, asked>>
    BY <1>1 DEF OnDisk
  <2> QED BY <2>1, <2>2, <2>4, <2>5, <2>6, <2>7, <2>8, GoesKeeps
<1> QED BY <1>2, <1>3 DEF RunCore

LEMMA HashBinaryKeeps ==
    ASSUME IInv, NEW c \in Caller, HashBinary(c) PROVE IInv'
<1> DEFINE state == [at |-> "audited", purpose |-> call[c].purpose,
                     ran |-> call[c].ran, hashed |-> file_hash(resolve_binary)]
<1>1. state.at = "audited" /\ state.ran = call[c].ran
      /\ state.hashed = files[resolve_binary] /\ "at" \in DOMAIN state
  BY DEF file_hash
<1>2. Goes(c, state) /\ call[c].at = "hash" /\ UNCHANGED <<OnDisk, asked>>
  BY DEF HashBinary
<1> HIDE DEF state
<1>3. RanRight(call[c])
  BY DEF IInv, RanInv
<1>4. RanRight(state) /\ state.at \in Phases
  BY <1>1 DEF RanRight, Phases
<1>5. HashedRight(state)
  <2>1. config.elsewhere => state.hashed = state.ran
    BY <1>1, <1>2, <1>3 DEF RanRight, resolve_binary
  <2>2. ~config.elsewhere => state.hashed # Missing
                             /\ (state.hashed = Given0 => state.ran = Given0)
    BY <1>1, <1>2, <1>3 DEF RanRight, resolve_binary
  <2> QED BY <2>1, <2>2 DEF HashedRight
<1>6. call[c].ran \in Wholes
  BY <1>2 DEF IInv, TypeOK, Wholes
<1>7. calls \in 0 .. MaxCalls
  BY DEF IInv, TypeOK
<1>8. UNCHANGED <<config, source, files, tool, deaths, calls, asked>>
  BY <1>2 DEF OnDisk
<1> QED BY <1>1, <1>2, <1>4, <1>5, <1>6, <1>7, <1>8, GoesKeeps

-----------------------------------------------------------------------------
(* Actions of the tools, which leave the calls alone.                      *)
LEMMA ToolFacts ==
    /\ NoTool.doing = "nothing"
    /\ \A c \in Caller : tool[c].doing \in {"compiling", "linking"} => tool[c] # NoTool
BY DEF NoTool

(* A tool that goes on or ends, with whatever it does to the file.         *)
LEMMA ToolKeeps ==
    ASSUME IInv, NEW c \in Caller, tool[c] # NoTool, NEW t,
           t \in {NoTool} \cup [doing : {"compiling", "linking"}, version : 0 .. MaxVersion],
           tool' = [tool EXCEPT ![c] = t],
           UNCHANGED <<config, source, call, calls, asked>>,
           deaths' \in 0 .. MaxDeaths,
           files' \in [Paths -> FileType], files'["configured"] = files["configured"],
           files'["default"] = files["default"] \/ files'["default"] \notin {Missing, Given0},
           FilesInv'
    PROVE  IInv'
<1>1. /\ tool'[c] = t
      /\ \A d \in Caller \ {c} : tool'[d] = tool[d]
      /\ tool' \in [Caller -> {NoTool}
                        \cup [doing : {"compiling", "linking"}, version : 0 .. MaxVersion]]
  BY DEF IInv, TypeOK
<1>2. TypeOK'
  BY <1>1 DEF IInv, TypeOK, Paths
<1>3. CallInv'
  BY <1>1 DEF IInv, CallInv
<1>4. RanInv'
  BY DEF IInv, RanInv, RanRight
<1>5. BuildsOnlyWhenAllowed'
  BY <1>1 DEF IInv, BuildsOnlyWhenAllowed
<1>6. HashNamesWhatRan'
  BY DEF IInv, HashNamesWhatRan
<1> QED BY <1>2, <1>3, <1>4, <1>5, <1>6 DEF IInv

LEMMA CompileFailsKeeps ==
    ASSUME IInv, NEW c \in Caller, CompileFails(c) PROVE IInv'
<1>1. tool' = [tool EXCEPT ![c] = NoTool] /\ tool[c] # NoTool
      /\ UNCHANGED <<config, source, files, call, calls, deaths, asked>>
  BY ToolFacts DEF CompileFails, Quits
<1>2. \A d \in Caller : BeingWritten(d) => d # c /\ BeingWritten(d)'
  BY <1>1 DEF BeingWritten, CompileFails, IInv, TypeOK
<1>3. FilesInv'
  BY <1>1, <1>2 DEF IInv, FilesInv
<1>4. files \in [Paths -> FileType] /\ deaths \in 0 .. MaxDeaths
  BY DEF IInv, TypeOK, Paths
<1> QED BY <1>1, <1>3, <1>4, ToolKeeps

LEMMA LinkBeginsKeeps ==
    ASSUME IInv, NEW c \in Caller, LinkBegins(c) PROVE IInv'
<1> DEFINE t == [tool[c] EXCEPT !.doing = "linking"]
           f == File(tool[c].version, c, FALSE)
<1>1. tool[c] \in [doing : {"compiling", "linking"}, version : 0 .. MaxVersion]
  BY ToolFacts DEF LinkBegins, IInv, TypeOK
<1>2. t \in [doing : {"compiling", "linking"}, version : 0 .. MaxVersion]
      /\ t.doing = "linking" /\ t.version = tool[c].version
  BY <1>1
<1>3. tool' = [tool EXCEPT ![c] = t] /\ tool[c] # NoTool
      /\ UNCHANGED <<config, source, call, calls, deaths, asked>>
      /\ files' = [files EXCEPT !["default"] = f]
  BY ToolFacts DEF LinkBegins
<1>4. f \in FileType /\ f # Missing /\ f # Given0
  BY <1>1, FileFacts
<1> HIDE DEF t
<1>5. tool'[c] = t
  BY <1>3 DEF IInv, TypeOK
<1>6. files' \in [Paths -> FileType] /\ files'["default"] = f
      /\ files'["configured"] = files["configured"] /\ deaths \in 0 .. MaxDeaths
  BY <1>3, <1>4 DEF IInv, TypeOK, Paths
<1>7. BeingWritten(c)'
  BY <1>2, <1>5, <1>6 DEF BeingWritten
<1>8. FilesInv'
  BY <1>6, <1>7 DEF IInv, FilesInv
<1> QED BY <1>2, <1>3, <1>4, <1>6, <1>8, ToolKeeps

LEMMA WholeFile ==
    ASSUME NEW v \in 0 .. MaxVersion, NEW c \in Caller
    PROVE  /\ File(v, c, TRUE) \in FileType /\ File(v, c, TRUE).whole
           /\ File(v, c, TRUE) # Missing /\ File(v, c, TRUE) # Given0
<1>1. TRUE \in BOOLEAN
  OBVIOUS
<1>2. File(v, c, TRUE) \in FileType
  BY <1>1 DEF File, FileType
<1>3. File(v, c, TRUE) # Missing
  BY FileFacts
<1>4. File(v, c, TRUE) # Given0
  BY FileFacts
<1>5. File(v, c, TRUE).whole
  BY DEF File
<1> QED BY <1>2, <1>3, <1>4, <1>5

LEMMA LinkEndsKeeps ==
    ASSUME IInv, NEW c \in Caller, LinkEnds(c) PROVE IInv'
<1> DEFINE f == File(tool[c].version, c, FALSE)
           g == File(tool[c].version, c, TRUE)
<1>1. tool[c] \in [doing : {"compiling", "linking"}, version : 0 .. MaxVersion]
  BY ToolFacts DEF LinkEnds, IInv, TypeOK
<1>2. tool' = [tool EXCEPT ![c] = NoTool] /\ tool[c] # NoTool
      /\ UNCHANGED <<config, source, call, calls, deaths, asked>>
  BY ToolFacts DEF LinkEnds, Quits
<1>3. g \in FileType /\ g # Missing /\ g # Given0 /\ g.whole
  BY <1>1, WholeFile
<1>4. deaths \in 0 .. MaxDeaths /\ files \in [Paths -> FileType]
  BY DEF IInv, TypeOK, Paths
<1>5. CASE files["default"] = f
  <2>2. files' = [files EXCEPT !["default"] = g]
    BY <1>5 DEF LinkEnds
  <2>3. files' \in [Paths -> FileType] /\ files'["default"] = g
        /\ files'["configured"] = files["configured"]
    BY <2>2, <1>3, <1>4 DEF Paths
  <2>4. FilesInv'
    BY <2>3, <1>3 DEF IInv, FilesInv
  <2> QED BY <1>2, <1>3, <1>4, <2>3, <2>4, ToolKeeps
<1>6. CASE files["default"] # f
  <2>1. files' = files
    BY <1>6 DEF LinkEnds
  <2>2. \A d \in Caller : BeingWritten(d) => d # c /\ BeingWritten(d)'
    BY <1>2, <1>6, <2>1 DEF BeingWritten, IInv, TypeOK
  <2>3. FilesInv'
    BY <1>2, <2>1, <2>2 DEF IInv, FilesInv
  <2> QED BY <1>2, <1>4, <2>1, <2>3, ToolKeeps
<1> QED BY <1>5, <1>6

LEMMA ToolDiesKeeps ==
    ASSUME IInv, NEW c \in Caller, ToolDies(c) PROVE IInv'
<1>1. tool' = [tool EXCEPT ![c] = NoTool] /\ tool[c] # NoTool
      /\ UNCHANGED <<config, source, files, call, calls, asked>>
  BY DEF ToolDies, Quits
<1>2. deaths' \in 0 .. MaxDeaths /\ deaths' # 0
  BY BuildAssumption DEF ToolDies, IInv, TypeOK
<1>3. FilesInv'
  BY <1>1, <1>2 DEF IInv, FilesInv
<1>4. files \in [Paths -> FileType]
  BY DEF IInv, TypeOK, Paths
<1> QED BY <1>1, <1>2, <1>3, <1>4, ToolKeeps

(* The one action that starts a tool and moves the call.                   *)
LEMMA StartToolKeeps ==
    ASSUME IInv, NEW c \in Caller, StartTool(c) PROVE IInv'
<1>1. tool[c] = NoTool /\ (config.auto_build \/ c \in asked)
      /\ UNCHANGED <<config, source, files, calls, deaths, asked>>
  BY DEF StartTool, IInv, CallInv
<1>2. CASE Ends(c) /\ UNCHANGED tool
  <2>1. UNCHANGED <<OnDisk, asked>>
    BY <1>1, <1>2 DEF OnDisk
  <2> QED BY <1>2, <2>1, EndsKeeps
<1>3. CASE /\ tool' = [tool EXCEPT ![c] = [doing |-> "compiling", version |-> source]]
           /\ Goes(c, [call[c] EXCEPT !.at = "building"])
  <2> DEFINE state == [call[c] EXCEPT !.at = "building"]
             t == [doing |-> "compiling", version |-> source]
  <2>1. "at" \in DOMAIN state /\ state.at = "building"
    BY DEF IInv, CallInv
  <2>2. t \in [doing : {"compiling", "linking"}, version : 0 .. MaxVersion]
        /\ t.doing = "compiling"
    BY DEF IInv, TypeOK
  <2>3. /\ tool'[c] = t /\ DOMAIN call' = Caller /\ call'[c] = state
        /\ \A d \in Caller \ {c} : tool'[d] = tool[d] /\ call'[d] = call[d]
        /\ tool' \in [Caller -> {NoTool}
                          \cup [doing : {"compiling", "linking"}, version : 0 .. MaxVersion]]
    BY <1>3, <2>2 DEF Goes, IInv, TypeOK, CallInv
  <2> HIDE DEF state, t
  <2>4. TypeOK'
    <3>1. \A d \in Caller : /\ call'[d].at \in Phases
                            /\ call'[d].at \in {"hash", "audited"} => call'[d].ran \in Wholes
      BY <2>1, <2>3 DEF IInv, TypeOK, Phases, Wholes
    <3> QED BY <1>1, <2>3, <3>1 DEF IInv, TypeOK, Phases, Wholes
  <2>5. CallInv'
    BY <1>1, <2>1, <2>3 DEF IInv, CallInv
  <2>6. FilesInv'
    <3>1. \A d \in Caller : BeingWritten(d) => d # c /\ BeingWritten(d)'
      BY <1>1, <2>3, ToolFacts DEF BeingWritten
    <3> QED BY <1>1, <3>1 DEF IInv, FilesInv
  <2>7. RanInv'
    BY <1>1, <2>1, <2>3 DEF IInv, RanInv, RanRight
  <2>8. BuildsOnlyWhenAllowed'
    BY <1>1, <2>3 DEF IInv, BuildsOnlyWhenAllowed
  <2>9. HashNamesWhatRan'
    BY <1>1, <2>1, <2>3 DEF IInv, HashNamesWhatRan
  <2> QED BY <2>4, <2>5, <2>6, <2>7, <2>8, <2>9 DEF IInv
<1> QED BY <1>2, <1>3 DEF StartTool

LEMMA EditKeeps == ASSUME IInv, Edit PROVE IInv'
<1>1. UNCHANGED <<config, files, tool, call, calls, deaths, asked>>
      /\ source' \in 0 .. MaxVersion
  BY BuildAssumption DEF Edit, IInv, TypeOK
<1> QED BY <1>1 DEF IInv, TypeOK, CallInv, FilesInv, BeingWritten, RanInv, RanRight,
                    BuildsOnlyWhenAllowed, HashNamesWhatRan

-----------------------------------------------------------------------------
LEMMA StepInv == IInv /\ [Next]_vars => IInv'
<1> SUFFICES ASSUME IInv, [Next]_vars PROVE IInv'
  OBVIOUS
<1>1. ASSUME NEW c \in Caller, NEW purpose \in {"recommend", "build"}, Begin(c, purpose)
      PROVE  IInv'
  BY <1>1, BeginKeeps
<1>2. ASSUME NEW c \in Caller,
             EnsureCore(c) \/ StartTool(c) \/ BuildEnds(c) \/ RunCore(c) \/ HashBinary(c)
      PROVE  IInv'
  BY <1>2, EnsureCoreKeeps, StartToolKeeps, BuildEndsKeeps, RunCoreKeeps, HashBinaryKeeps
<1>3. ASSUME NEW c \in Caller, BuildTimesOut(c) \/ Finish(c) \/ CallerDies(c)
      PROVE  IInv'
  BY <1>3, EndsKeeps DEF BuildTimesOut, Finish, CallerDies
<1>4. ASSUME NEW c \in Caller,
             CompileFails(c) \/ LinkBegins(c) \/ LinkEnds(c) \/ ToolDies(c)
      PROVE  IInv'
  BY <1>4, CompileFailsKeeps, LinkBeginsKeeps, LinkEndsKeeps, ToolDiesKeeps
<1>5. CASE Edit
  BY <1>5, EditKeeps
<1>6. CASE UNCHANGED vars
  BY <1>6 DEF vars, IInv, TypeOK, CallInv, FilesInv, BeingWritten, RanInv, RanRight,
              BuildsOnlyWhenAllowed, HashNamesWhatRan
<1> QED BY <1>1, <1>2, <1>3, <1>4, <1>5, <1>6 DEF Next

(* The inductive invariant of any number of processes.                     *)
THEOREM CoreInvariant == Spec => []IInv
<1> QED BY InitInv, StepInv, PTL DEF Spec

(* Every call, tool and file is of its type (build.rs, paths.rs).          *)
THEOREM CoreTypeCorrect == Spec => []TypeOK
<1>1. IInv => TypeOK
  BY DEF IInv
<1> QED BY <1>1, CoreInvariant, PTL

(* Whatever overlaps, a tool runs where building is not allowed only for a *)
(* process that was asked to build (ensure_core, LLR-034).                 *)
THEOREM BuildsAllowed == Spec => []BuildsOnlyWhenAllowed
<1>1. IInv => BuildsOnlyWhenAllowed
  BY DEF IInv
<1> QED BY <1>1, CoreInvariant, PTL

(* An audit record that does not name the binary that ran names one that   *)
(* was linked since, over the default path (engine.rs, LLR-134).           *)
THEOREM HashesName == Spec => []HashNamesWhatRan
<1>1. IInv => HashNamesWhatRan
  BY DEF IInv
<1> QED BY <1>1, CoreInvariant, PTL

(* Once every tool has ended, and none was killed, every file is whole:    *)
(* who began the last half file ended it (ensure_core trusts any file).    *)
THEOREM BuildsWhole == Spec => []BuildsLeaveWholeBinary
<1>1. IInv => BuildsLeaveWholeBinary
  <2> SUFFICES ASSUME IInv, \A c \in Caller : tool[c] = NoTool, deaths = 0,
                      NEW p \in DOMAIN files
               PROVE  files[p] = Missing \/ files[p].whole
    BY DEF BuildsLeaveWholeBinary
  <2>1. p \in Paths
    BY DEF IInv, TypeOK, Paths
  <2>2. \A c \in Caller : ~BeingWritten(c)
    BY ToolFacts DEF BeingWritten
  <2>3. Given0.whole
    BY FileFacts DEF Given0
  <2> QED BY <2>1, <2>2, <2>3 DEF IInv, FilesInv, Paths
<1> QED BY <1>1, CoreInvariant, PTL
-----------------------------------------------------------------------------
(* run_command_with_timeout.  Neither property is inductive: an output is  *)
(* whole because a reader ends only when the pipe is empty and nobody can  *)
(* write to it any more, which stays so, and because what a child wrote is *)
(* what was read and what the pipe still holds.                            *)
CommandTypes ==
    /\ child \in {"running", "exited", "killed"}
    /\ script \in Seq(Pipes)
    /\ heirs \in {0, 1}
    /\ pipe \in [Pipes -> Nat]
    /\ buf \in [Pipes -> Nat]
    /\ reader \in [Pipes -> {"reading", "done", "joined"}]
    /\ elapsed \in Nat
    /\ main \in {"poll", "clock", "join_stdout", "join_stderr", "return", "returned"}
    /\ status \in {"unknown", "exited", "timed_out"}
    /\ result \in {"none", "output", "timeout"}
    /\ written \in [Pipes -> Nat]

NothingIsLost == \A p \in Pipes : written[p] = buf[p] + pipe[p]

EndedIsDrained == \A p \in Pipes : reader[p] # "reading" => pipe[p] = 0 /\ ~WriteEndOpen

JoinedInOrder ==
    /\ reader["stdout"] = "joined" <=> main \in {"join_stderr", "return", "returned"}
    /\ reader["stderr"] = "joined" <=> main \in {"return", "returned"}

StatusIsTrue ==
    /\ main \in {"poll", "clock"} <=> status = "unknown"
    /\ status # "unknown" => child # "running"
    /\ status = "unknown" => child # "killed"
    /\ status = "exited" => child = "exited"
    /\ child = "exited" => script = << >>
    /\ result # "none" <=> main = "returned"
    /\ result = "output" => status = "exited"

CommandInv == CommandTypes /\ NothingIsLost /\ EndedIsDrained /\ JoinedInOrder /\ StatusIsTrue

(* What the child and its heir do: they write only while somebody holds    *)
(* the write end, and once it is closed it stays closed.                   *)
LEMMA ChildWritesKeeps ==
    ASSUME CommandInv, ChildWrites
    PROVE  CommandInv'
<1> DEFINE p == Head(script)
<1>1. p \in Pipes /\ Tail(script) \in Seq(Pipes)
  BY HeadTailProperties DEF ChildWrites, CommandInv, CommandTypes
<1>2. /\ child = "running" /\ WriteEndOpen /\ script # << >>
      /\ pipe' = [pipe EXCEPT ![p] = @ + 1]
      /\ written' = [written EXCEPT ![p] = @ + 1]
      /\ script' = Tail(script)
      /\ UNCHANGED <<child, heirs, threads, elapsed, caller>>
  BY DEF ChildWrites, WriteEndOpen
<1> HIDE DEF p
<1>3. /\ pipe' \in [Pipes -> Nat] /\ written' \in [Pipes -> Nat]
      /\ \A q \in Pipes : /\ pipe'[q] = IF q = p THEN pipe[q] + 1 ELSE pipe[q]
                          /\ written'[q] = IF q = p THEN written[q] + 1 ELSE written[q]
  BY <1>1, <1>2 DEF CommandInv, CommandTypes
<1>4. CommandTypes'
  BY <1>1, <1>2, <1>3 DEF CommandInv, CommandTypes, threads, caller
<1>5. NothingIsLost'
  BY <1>2, <1>3 DEF CommandInv, CommandTypes, NothingIsLost, threads
<1>6. EndedIsDrained'
  BY <1>2 DEF CommandInv, EndedIsDrained, threads
<1>7. JoinedInOrder' /\ StatusIsTrue'
  BY <1>2 DEF CommandInv, JoinedInOrder, StatusIsTrue, threads, caller
<1> QED BY <1>4, <1>5, <1>6, <1>7 DEF CommandInv

LEMMA ChildEndsKeeps ==
    ASSUME CommandInv, ChildForks \/ ChildExits \/ HeirExits
    PROVE  CommandInv'
<1>1. UNCHANGED <<script, written, pipe, threads, elapsed, caller>>
  BY DEF ChildForks, ChildExits, HeirExits
<1>2. ~WriteEndOpen => ~WriteEndOpen'
  BY DEF ChildForks, ChildExits, HeirExits, WriteEndOpen, CommandInv, CommandTypes
<1>3. CommandTypes' /\ NothingIsLost'
  BY <1>1 DEF ChildForks, ChildExits, HeirExits, CommandInv, CommandTypes, NothingIsLost,
     threads, caller
<1>4. EndedIsDrained'
  BY <1>1, <1>2 DEF CommandInv, EndedIsDrained, threads
<1>5. JoinedInOrder' /\ StatusIsTrue'
  BY <1>1 DEF ChildForks, ChildExits, HeirExits, CommandInv, JoinedInOrder, StatusIsTrue,
     threads, caller
<1> QED BY <1>3, <1>4, <1>5 DEF CommandInv

(* A reader takes what there is, and ends when there can be no more.       *)
LEMMA ReaderKeeps ==
    ASSUME CommandInv, NEW p \in Pipes, ReaderReads(p) \/ ReaderEnds(p)
    PROVE  CommandInv'
<1>1. UNCHANGED <<process, elapsed, caller>>
  BY DEF ReaderReads, ReaderEnds
<1>2. WriteEndOpen' = WriteEndOpen
  BY <1>1 DEF WriteEndOpen, process
<1>3. StatusIsTrue'
  BY <1>1 DEF CommandInv, StatusIsTrue, process, caller
<1>4. CASE ReaderReads(p)
  <2>1. /\ buf' \in [Pipes -> Nat] /\ pipe' \in [Pipes -> Nat] /\ reader' = reader
        /\ \A q \in Pipes : /\ buf'[q] = IF q = p THEN buf[q] + pipe[q] ELSE buf[q]
                            /\ pipe'[q] = IF q = p THEN 0 ELSE pipe[q]
    BY <1>4 DEF ReaderReads, CommandInv, CommandTypes
  <2>2. CommandTypes'
    BY <1>1, <2>1 DEF CommandInv, CommandTypes, process, caller
  <2>3. NothingIsLost'
    BY <1>1, <2>1 DEF CommandInv, CommandTypes, NothingIsLost, process
  <2>4. EndedIsDrained' /\ JoinedInOrder'
    BY <1>1, <1>2, <2>1 DEF CommandInv, EndedIsDrained, JoinedInOrder, caller
  <2> QED BY <1>3, <2>2, <2>3, <2>4 DEF CommandInv
<1>5. CASE ReaderEnds(p)
  <2>1. /\ reader' \in [Pipes -> {"reading", "done", "joined"}]
        /\ UNCHANGED <<pipe, buf>>
        /\ pipe[p] = 0 /\ ~WriteEndOpen /\ reader[p] = "reading"
        /\ \A q \in Pipes : reader'[q] = IF q = p THEN "done" ELSE reader[q]
    BY <1>5 DEF ReaderEnds, CommandInv, CommandTypes
  <2>2. CommandTypes' /\ NothingIsLost'
    BY <1>1, <2>1 DEF CommandInv, CommandTypes, NothingIsLost, process, caller
  <2>3. EndedIsDrained'
    BY <1>2, <2>1 DEF CommandInv, EndedIsDrained
  <2>4. JoinedInOrder'
    BY <1>1, <2>1 DEF CommandInv, JoinedInOrder, caller, Pipes
  <2> QED BY <1>3, <2>2, <2>3, <2>4 DEF CommandInv
<1> QED BY <1>4, <1>5

(* The calling thread.                                                     *)
LEMMA CallerKeeps ==
    ASSUME CommandInv, TryWait \/ CheckClock \/ Return
    PROVE  CommandInv'
<1>1. UNCHANGED <<script, heirs, written, pipe, threads, elapsed>>
  BY DEF TryWait, CheckClock, Return, process
<1>2. ~WriteEndOpen => ~WriteEndOpen'
  BY DEF TryWait, CheckClock, Return, process, WriteEndOpen
<1>3. CommandTypes' /\ NothingIsLost'
  BY <1>1 DEF TryWait, CheckClock, Return, CommandInv, CommandTypes, NothingIsLost, threads,
     process
<1>4. EndedIsDrained'
  BY <1>1, <1>2 DEF CommandInv, EndedIsDrained, threads
<1>5. JoinedInOrder'
  BY <1>1 DEF TryWait, CheckClock, Return, CommandInv, JoinedInOrder, threads
<1>6. StatusIsTrue'
  BY <1>1 DEF TryWait, CheckClock, Return, CommandInv, CommandTypes, StatusIsTrue, process
<1> QED BY <1>3, <1>4, <1>5, <1>6 DEF CommandInv

LEMMA JoinKeeps ==
    ASSUME CommandInv, NEW p \in Pipes, Join(p)
    PROVE  CommandInv'
<1>1. /\ UNCHANGED <<process, pipe, buf, elapsed, status, result>>
      /\ main = IF p = "stdout" THEN "join_stdout" ELSE "join_stderr"
      /\ main' = IF p = "stdout" THEN "join_stderr" ELSE "return"
  BY DEF Join
<1>2. /\ reader' \in [Pipes -> {"reading", "done", "joined"}]
      /\ reader[p] = "done"
      /\ \A q \in Pipes : reader'[q] = IF q = p THEN "joined" ELSE reader[q]
  BY DEF Join, CommandInv, CommandTypes
<1>3. CommandTypes' /\ NothingIsLost'
  BY <1>1, <1>2 DEF CommandInv, CommandTypes, NothingIsLost, process
<1>4. EndedIsDrained'
  BY <1>1, <1>2 DEF CommandInv, EndedIsDrained, WriteEndOpen, process
<1>5. JoinedInOrder'
  BY <1>1, <1>2 DEF CommandInv, JoinedInOrder, Pipes
<1>6. StatusIsTrue'
  BY <1>1 DEF CommandInv, StatusIsTrue, process
<1> QED BY <1>3, <1>4, <1>5, <1>6 DEF CommandInv

(* The invariant holds of every behaviour of a command.                    *)
LEMMA CommandAlways == CommandSpec => []CommandInv
<1>1. CommandInit => CommandInv
  BY CommandAssumption DEF CommandInit, CommandInv, CommandTypes, NothingIsLost,
     EndedIsDrained, JoinedInOrder, StatusIsTrue, Pipes
<1>2. CommandInv /\ [CommandNext]_commandVars => CommandInv'
  <2> SUFFICES ASSUME CommandInv, [CommandNext]_commandVars PROVE CommandInv'
    OBVIOUS
  <2>1. CASE UNCHANGED <<process, pipe, threads, caller>> /\ elapsed' \in Nat
    BY <2>1 DEF CommandInv, CommandTypes, NothingIsLost, EndedIsDrained, WriteEndOpen,
       JoinedInOrder, StatusIsTrue, process, threads, caller
  <2>2. CASE Tick \/ UNCHANGED commandVars
    BY <2>1, <2>2 DEF Tick, commandVars, CommandInv, CommandTypes, process, threads, caller
  <2> QED
    BY <2>2, ChildWritesKeeps, ChildEndsKeeps, ReaderKeeps, CallerKeeps, JoinKeeps
       DEF CommandNext
<1> QED BY <1>1, <1>2, PTL DEF CommandSpec

(* Whoever gets an output gets all that the child wrote to both pipes,     *)
(* whatever it wrote and in whatever order everybody ran.                  *)
THEOREM OutputWhole == CommandSpec => []OutputIsWhole
<1>1. CommandInv => OutputIsWhole
  <2> SUFFICES ASSUME CommandInv, result = "output" PROVE script = << >> /\ buf = written
    BY DEF OutputIsWhole
  <2>1. main = "returned" /\ child = "exited"
    BY DEF CommandInv, StatusIsTrue
  <2>2. \A p \in Pipes : reader[p] = "joined"
    BY <2>1 DEF CommandInv, JoinedInOrder, Pipes
  <2>3. ASSUME NEW p \in Pipes PROVE written[p] = buf[p]
    <3>1. pipe[p] = 0
      BY <2>2 DEF CommandInv, EndedIsDrained
    <3>2. buf[p] \in Nat /\ written[p] = buf[p] + pipe[p]
      BY DEF CommandInv, CommandTypes, NothingIsLost
    <3> QED BY <3>1, <3>2
  <2> QED BY <2>1, <2>3 DEF CommandInv, CommandTypes, StatusIsTrue
<1> QED BY <1>1, CommandAlways, PTL

(* No reader thread and no child is left when a call returns, whether it   *)
(* returns an output or a timeout.                                         *)
THEOREM NothingLeft == CommandSpec => []NothingIsLeft
<1>1. CommandInv => NothingIsLeft
  BY DEF CommandInv, NothingIsLeft, StatusIsTrue, JoinedInOrder, Pipes
<1> QED BY <1>1, CommandAlways, PTL
=============================================================================
