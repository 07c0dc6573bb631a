---------------------------- MODULE CompileProofs ----------------------------
(***************************************************************************)
(* Proofs about Supervisor for any number of entries and any restart       *)
(* budget: the exit code is the verdict; and about BuildCache for any      *)
(* number of builds, edits and wipes: an output is what rustc would make   *)
(* of contents the files had while the build ran.                          *)
(***************************************************************************)
EXTENDS Supervisor, BuildCache, TLAPS

-----------------------------------------------------------------------------
(* The supervisor *)

Verdicts == {"none", "unit", "value", "err", "unknown", "defect", "panic"}

\* The inductive invariant of the generated main, in named parts.
MainTypes ==
    /\ shim \in {"single", "multi"}
    /\ thread \in [Ids -> {"running", "backoff", "over"}]
    /\ entryFault \in [Ids -> BOOLEAN] /\ sink \in [Ids -> BOOLEAN]
    /\ restarts \in [Ids -> Nat] /\ runsOf \in [Ids -> Nat]
    /\ verdict \in [Ids -> Verdicts]
    /\ joined \in 0 .. Entries /\ code \in {-1, 0, 1, 2, 3, 4, 101}
    /\ flags \in [FlagNames -> BOOLEAN]

\* An entry has a verdict exactly when its thread is over, and the sink is set
\* for the bodies that completed.
VerdictsGiven ==
    \A e \in Ids :
        /\ verdict[e] # "none" <=> Live(e) /\ thread[e] = "over"
        /\ ~Live(e) => thread[e] = "over"
        /\ sink[e] = (verdict[e] \in {"unit", "value", "err", "unknown"})

\* The bodies started are those of the restarts and the first, unless the last
\* panic spent the budget; a single root is not supervised.
RestartsCounted ==
    \A e \in Ids :
        /\ shim = "single" \/ ~Live(e) => restarts[e] = 0 /\ runsOf[e] = 1 /\ thread[e] # "backoff"
        /\ shim = "multi" /\ Live(e) =>
            \/ verdict[e] # "panic" /\ thread[e] # "backoff" /\ runsOf[e] = restarts[e] + 1 /\ restarts[e] <= Budget
            \/ thread[e] = "backoff" /\ runsOf[e] = restarts[e] /\ restarts[e] <= Budget
            \/ verdict[e] = "panic" /\ runsOf[e] = Budget + 1

\* The flags are those of the entries joined so far, all of them over.
FlagsRaised ==
    /\ \A e \in 1 .. joined : thread[e] = "over"
    /\ \A f \in FlagNames : flags[f] <=> \E e \in 1 .. joined : Flag(verdict[e]) = f

\* What the code says once there is one.
CodeGiven ==
    code # -1 =>
        /\ \A e \in Ids : Live(e) => thread[e] = "over"
        /\ shim = "multi" =>
            /\ joined = Entries
            /\ code = IF flags.bad THEN 1 ELSE IF flags.defect THEN 4
                      ELSE IF flags.unknown THEN 3 ELSE IF flags.err THEN 2 ELSE 0
        /\ shim = "single" /\ code = 0 => verdict[1] \in {"unit", "value"} /\ ~entryFault[1]

MainInv == MainTypes /\ VerdictsGiven /\ RestartsCounted /\ FlagsRaised /\ CodeGiven

\* The generated main starts with nothing over that is to run.
LEMMA MainInit == UInit => MainInv
<1>. SUFFICES ASSUME UInit PROVE MainInv
    OBVIOUS
<1>. USE SupervisorAssumption DEF UInit
<1>1. MainTypes
  <2>1. flags \in [FlagNames -> BOOLEAN]
    BY DEF NoFlags
  <2>2. joined \in 0 .. Entries /\ code \in {-1, 0, 1, 2, 3, 4, 101} /\ shim \in {"single", "multi"}
    OBVIOUS
  <2>3. thread \in [Ids -> {"running", "backoff", "over"}] /\ verdict \in [Ids -> Verdicts]
    BY DEF Verdicts
  <2>. QED
    BY <2>1, <2>2, <2>3 DEF MainTypes
<1>2. VerdictsGiven
  <2>1. ASSUME NEW e \in Ids
        PROVE  verdict[e] = "none" /\ sink[e] = FALSE /\ (thread[e] = "over" <=> ~Live(e))
    OBVIOUS
  <2>2. ("none" \in {"unit", "value", "err", "unknown"}) = FALSE
    OBVIOUS
  <2>3. ASSUME NEW e \in Ids PROVE sink[e] = (verdict[e] \in {"unit", "value", "err", "unknown"})
    BY <2>1, <2>2, Zenon
  <2>. QED
    BY <2>1, <2>3, Zenon DEF VerdictsGiven
<1>3. RestartsCounted
    BY DEF RestartsCounted
<1>4. FlagsRaised
    BY DEF FlagsRaised, NoFlags
<1>5. CodeGiven
    BY DEF CodeGiven
<1>. QED
    BY <1>1, <1>2, <1>3, <1>4, <1>5 DEF MainInv

\* A running entry is not joined, and there is no exit code.
LEMMA RunningIsNotJoined ==
    ASSUME MainInv, NEW e \in Ids, thread[e] # "over"
    PROVE  Live(e) /\ verdict[e] = "none" /\ \A j \in 1 .. joined : j # e
<1>1. Live(e) /\ verdict[e] = "none"
    BY DEF MainInv, VerdictsGiven
<1>. QED
    BY <1>1 DEF MainInv, FlagsRaised

\* Flags raised do not change while the verdicts joined do not.
LEMMA FlagsStay ==
    ASSUME MainInv, UNCHANGED <<joined, flags>>,
           \A j \in 1 .. joined : verdict'[j] = verdict[j] /\ thread'[j] = thread[j]
    PROVE  FlagsRaised'
BY DEF MainInv, FlagsRaised

\* A fault does not end its entry.
LEMMA FaultKeeps ==
    ASSUME MainInv, NEW e \in Ids, Fault(e)
    PROVE  MainInv'
<1>1. MainTypes'
    BY DEF MainInv, MainTypes, Fault
<1>2. VerdictsGiven' /\ RestartsCounted'
    BY DEF MainInv, VerdictsGiven, RestartsCounted, Fault, Live
<1>3. FlagsRaised'
    BY FlagsStay DEF Fault
<1>4. CodeGiven'
    BY DEF CodeGiven, Fault
<1>. QED
    BY <1>1, <1>2, <1>3, <1>4 DEF MainInv

\* A body that returns gives its verdict and sets the sink.
LEMMA ReturnKeeps ==
    ASSUME MainInv, NEW e \in Ids, Return(e)
    PROVE  MainInv'
<1>1. PICK v \in {"unit", "value", "err", "unknown"} : Over(e, v)
    BY DEF Return
<1>2. /\ thread' = [thread EXCEPT ![e] = "over"] /\ verdict' = [verdict EXCEPT ![e] = v]
      /\ sink' = [sink EXCEPT ![e] = TRUE] /\ code = -1 /\ thread[e] = "running"
      /\ UNCHANGED <<shim, entryFault, restarts, joined, flags, code, runsOf>>
    BY <1>1 DEF Return, Over
<1>3. Live(e) /\ verdict[e] = "none" /\ \A j \in 1 .. joined : j # e
    BY <1>2, RunningIsNotJoined
<1>4. MainTypes'
    BY <1>2 DEF MainInv, MainTypes, Verdicts
<1>5. VerdictsGiven'
  <2>1. e \in Ids /\ thread'[e] = "over" /\ verdict'[e] = v /\ sink'[e] = TRUE /\ v # "none"
    BY <1>2 DEF MainInv, MainTypes
  <2>2. \A a \in Ids \ {e} : thread'[a] = thread[a] /\ verdict'[a] = verdict[a] /\ sink'[a] = sink[a]
    BY <1>2 DEF MainInv, MainTypes
  <2>3. \A a \in Ids : Live(a)' <=> Live(a)
    BY <1>2 DEF Live
  <2>. QED
    BY <1>3, <2>1, <2>2, <2>3 DEF MainInv, VerdictsGiven
<1>6. RestartsCounted'
    BY <1>2, <1>3 DEF MainInv, MainTypes, RestartsCounted, Live
<1>7. FlagsRaised'
    BY <1>2, <1>3, FlagsStay DEF MainInv, MainTypes, Ids
<1>8. CodeGiven'
    BY <1>2 DEF CodeGiven
<1>. QED
    BY <1>4, <1>5, <1>6, <1>7, <1>8 DEF MainInv

\* A body that panics, or finds a defect, and is not to be run again.
LEMMA DownKeeps ==
    ASSUME MainInv, NEW e \in Ids, NEW v \in {"defect", "panic"}, Over(e, v), code = -1, thread[e] = "running",
           UNCHANGED <<shim, entryFault, sink, joined, flags, code, runsOf>>,
           \/ (v = "defect" \/ shim = "single") /\ UNCHANGED restarts
           \/ v = "panic" /\ shim = "multi" /\ restarts' = [restarts EXCEPT ![e] = @ + 1] /\ PanicStaysDown(e)
    PROVE  MainInv'
<1>1. thread' = [thread EXCEPT ![e] = "over"] /\ verdict' = [verdict EXCEPT ![e] = v]
    BY DEF Over
<1>2. Live(e) /\ verdict[e] = "none" /\ \A j \in 1 .. joined : j # e
    BY RunningIsNotJoined
<1>3. MainTypes'
    BY <1>1 DEF MainInv, MainTypes, Verdicts
<1>4. VerdictsGiven'
    BY <1>1, <1>2 DEF MainInv, MainTypes, VerdictsGiven, Live
<1>5. RestartsCounted'
    BY <1>1, <1>2, SupervisorAssumption DEF MainInv, MainTypes, RestartsCounted, Live, PanicStaysDown
<1>6. FlagsRaised'
    BY <1>1, <1>2, FlagsStay DEF MainInv, MainTypes, Ids
<1>7. CodeGiven'
    BY DEF CodeGiven
<1>. QED
    BY <1>3, <1>4, <1>5, <1>6, <1>7 DEF MainInv

\* A panic within the budget, and the restart that follows it.
LEMMA RestartKeeps ==
    ASSUME MainInv, NEW e \in Ids,
           \/ Panic(e) /\ shim # "single" /\ ~PanicStaysDown(e)
           \/ Respawn(e)
    PROVE  MainInv'
<1>1. /\ code = -1 /\ thread[e] # "over" /\ UNCHANGED <<shim, entryFault, verdict, sink, joined, flags, code>>
      /\ \/ /\ thread[e] = "running" /\ thread' = [thread EXCEPT ![e] = "backoff"] /\ restarts[e] + 1 <= Budget
            /\ restarts' = [restarts EXCEPT ![e] = @ + 1] /\ UNCHANGED runsOf /\ shim # "single"
         \/ /\ thread[e] = "backoff" /\ thread' = [thread EXCEPT ![e] = "running"]
            /\ runsOf' = [runsOf EXCEPT ![e] = @ + 1] /\ UNCHANGED restarts
    BY SupervisorAssumption DEF Panic, Respawn, PanicStaysDown, MainInv, MainTypes
<1>2. Live(e) /\ verdict[e] = "none" /\ \A j \in 1 .. joined : j # e
    BY <1>1, RunningIsNotJoined
<1>3. MainTypes'
    BY <1>1 DEF MainInv, MainTypes
<1>4. VerdictsGiven'
    BY <1>1, <1>2 DEF MainInv, MainTypes, VerdictsGiven, Live
<1>5. RestartsCounted'
    BY <1>1, <1>2, SupervisorAssumption DEF MainInv, MainTypes, RestartsCounted, Live
<1>6. FlagsRaised'
  <2>1. \A j \in 1 .. joined : thread'[j] = thread[j]
    BY <1>1, <1>2, SupervisorAssumption DEF MainInv, MainTypes, Ids
  <2>. QED
    BY <1>1, <2>1, FlagsStay
<1>7. CodeGiven'
    BY <1>1 DEF CodeGiven
<1>. QED
    BY <1>3, <1>4, <1>5, <1>6, <1>7 DEF MainInv

\* A join raises the flag of the entry joined.
LEMMA JoinKeeps ==
    ASSUME MainInv, Join
    PROVE  MainInv'
<1>1. /\ joined' = joined + 1 /\ joined < Entries /\ joined \in Nat /\ thread[joined + 1] = "over" /\ code = -1
      /\ flags' = [f \in DOMAIN flags |-> flags[f] \/ f = Flag(verdict[joined + 1])]
      /\ UNCHANGED <<shim, thread, entryFault, restarts, verdict, sink, code, runsOf>>
    BY SupervisorAssumption DEF Join, MainInv, MainTypes
<1>2. MainTypes'
    BY <1>1, SupervisorAssumption DEF MainInv, MainTypes
<1>3. VerdictsGiven' /\ RestartsCounted'
    BY <1>1 DEF MainInv, VerdictsGiven, RestartsCounted, Live
<1>4. FlagsRaised'
  <2>1. 1 .. joined' = 1 .. joined \union {joined + 1}
    BY <1>1
  <2>2. \A e \in 1 .. joined' : thread[e] = "over"
    BY <1>1, <2>1 DEF MainInv, FlagsRaised
  <2>3. ASSUME NEW f \in FlagNames PROVE flags'[f] <=> \E e \in 1 .. joined' : Flag(verdict[e]) = f
    <3>1. flags'[f] <=> flags[f] \/ Flag(verdict[joined + 1]) = f
      <4>1. f \in DOMAIN flags
        BY DEF MainInv, MainTypes
      <4>. QED
        BY <1>1, <4>1, Zenon
    <3>2. flags[f] <=> \E e \in 1 .. joined : Flag(verdict[e]) = f
        BY DEF MainInv, FlagsRaised
    <3>. QED
        BY <2>1, <3>1, <3>2, Zenon
  <2>. QED
    BY <1>1, <2>2, <2>3 DEF FlagsRaised
<1>5. CodeGiven'
    BY <1>1 DEF CodeGiven
<1>. QED
    BY <1>2, <1>3, <1>4, <1>5 DEF MainInv

\* The exit code is given when all entries are joined, or the root is over.
LEMMA ExitKeeps ==
    ASSUME MainInv, ExitMulti \/ ExitSingle
    PROVE  MainInv'
<1>1. UNCHANGED <<shim, thread, entryFault, restarts, verdict, sink, joined, flags, runsOf>>
    BY DEF ExitMulti, ExitSingle
<1>2. code' \in {-1, 0, 1, 2, 3, 4, 101}
    BY DEF ExitMulti, ExitSingle
<1>3. MainTypes'
    BY <1>1, <1>2 DEF MainInv, MainTypes
<1>4. VerdictsGiven' /\ RestartsCounted' /\ FlagsRaised'
    BY <1>1 DEF MainInv, VerdictsGiven, RestartsCounted, FlagsRaised, Live
<1>5. CASE ExitMulti
  <2>1. \A e \in Ids : thread[e] = "over"
    BY <1>5 DEF ExitMulti, MainInv, FlagsRaised, Ids
  <2>. QED
    BY <1>1, <1>3, <1>4, <1>5, <2>1 DEF ExitMulti, CodeGiven, MainInv
<1>6. CASE ExitSingle
  <2>1. \A e \in Ids : Live(e) => e = 1
    BY <1>6 DEF Live, ExitSingle
  <2>2. 1 \in Ids /\ Live(1)
    BY SupervisorAssumption, <1>6 DEF Ids, Live, ExitSingle
  <2>3. verdict[1] \in Verdicts /\ verdict[1] # "none"
    BY <1>6, <2>2 DEF MainInv, MainTypes, VerdictsGiven, ExitSingle
  <2>4. code' = 0 => verdict[1] \in {"unit", "value"} /\ ~entryFault[1]
    BY <1>6, <2>3 DEF ExitSingle, first_fault, Verdicts
  <2>5. CodeGiven'
    BY <1>1, <1>6, <2>1, <2>4 DEF ExitSingle, CodeGiven, Live
  <2>. QED
    BY <1>3, <1>4, <2>5 DEF MainInv
<1>. QED
    BY <1>5, <1>6

\* Every step keeps the invariant.
LEMMA MainStep == MainInv /\ [UNext]_uvars => MainInv'
<1>. SUFFICES ASSUME MainInv, [UNext]_uvars PROVE MainInv'
    OBVIOUS
<1>1. ASSUME NEW e \in Ids, Fault(e) PROVE MainInv'
    BY <1>1, FaultKeeps
<1>2. ASSUME NEW e \in Ids, Return(e) PROVE MainInv'
    BY <1>2, ReturnKeeps
<1>3. ASSUME NEW e \in Ids, Defect(e) PROVE MainInv'
    BY <1>3, DownKeeps DEF Defect
<1>4. ASSUME NEW e \in Ids, Panic(e) PROVE MainInv'
  <2>1. CASE shim = "single" \/ PanicStaysDown(e)
    BY <1>4, <2>1, DownKeeps DEF Panic, MainInv, MainTypes
  <2>2. CASE shim # "single" /\ ~PanicStaysDown(e)
    BY <1>4, <2>2, RestartKeeps
  <2>. QED
    BY <2>1, <2>2
<1>5. ASSUME NEW e \in Ids, Respawn(e) PROVE MainInv'
    BY <1>5, RestartKeeps
<1>6. CASE Join
    BY <1>6, JoinKeeps
<1>7. CASE ExitMulti \/ ExitSingle
    BY <1>7, ExitKeeps
<1>8. CASE UNCHANGED uvars
    BY <1>8 DEF uvars, MainInv, MainTypes, VerdictsGiven, RestartsCounted, FlagsRaised, CodeGiven, Live
<1>. QED
    BY <1>1, <1>2, <1>3, <1>4, <1>5, <1>6, <1>7, <1>8 DEF UNext

\* The invariant is what the exit code promises.
LEMMA MainPromises == MainInv => ExitCodeIsTheVerdict
<1>. SUFFICES ASSUME MainInv PROVE ExitCodeIsTheVerdict
    OBVIOUS
<1>. USE SupervisorAssumption
<1>1. code # -1 => \A e \in Ids : Live(e) => thread[e] = "over" /\ verdict[e] # "none"
    BY DEF MainInv, CodeGiven, VerdictsGiven
<1>2. \A e \in Ids : verdict[e] \in Verdicts
    BY DEF MainInv, MainTypes
<1>3. ASSUME code # -1, shim = "multi"
      PROVE  /\ flags.bad <=> Ended("panic")
             /\ flags.defect <=> Ended("defect")
             /\ flags.unknown <=> Ended("unknown")
             /\ flags.err <=> Ended("err")
  <2>1. joined = Entries /\ \A e \in Ids : Live(e)
    BY <1>3 DEF MainInv, CodeGiven, Live, Ids
  <2>2. ASSUME NEW f \in FlagNames PROVE flags[f] <=> \E e \in Ids : Flag(verdict[e]) = f
    BY <2>1 DEF MainInv, MainTypes, FlagsRaised, Ids
  <2>3. \A v \in Verdicts : /\ Flag(v) = "bad" <=> v = "panic"
                            /\ Flag(v) = "defect" <=> v = "defect"
                            /\ Flag(v) = "unknown" <=> v = "unknown"
                            /\ Flag(v) = "err" <=> v = "err"
    BY DEF Flag, Verdicts
  <2>5. flags["bad"] <=> Ended("panic")
    BY <1>2, <2>1, <2>2, <2>3 DEF Ended, FlagNames
  <2>6. flags["defect"] <=> Ended("defect")
    BY <1>2, <2>1, <2>2, <2>3 DEF Ended, FlagNames
  <2>7. flags["unknown"] <=> Ended("unknown")
    BY <1>2, <2>1, <2>2, <2>3 DEF Ended, FlagNames
  <2>8. flags["err"] <=> Ended("err")
    BY <1>2, <2>1, <2>2, <2>3 DEF Ended, FlagNames
  <2>. QED
    BY <2>5, <2>6, <2>7, <2>8
<1>4. ASSUME code # -1, shim = "multi"
      PROVE  /\ (code = 1) <=> Ended("panic")
             /\ (code = 4) <=> (Ended("defect") /\ ~Ended("panic"))
             /\ (code = 3) <=> (Ended("unknown") /\ ~Ended("panic") /\ ~Ended("defect"))
             /\ code = 0 => ~Ended("panic") /\ ~Ended("defect") /\ ~Ended("unknown") /\ ~Ended("err")
  <2>1. code = IF flags.bad THEN 1 ELSE IF flags.defect THEN 4
               ELSE IF flags.unknown THEN 3 ELSE IF flags.err THEN 2 ELSE 0
    BY <1>4 DEF MainInv, CodeGiven
  <2>2. CASE flags.bad
    BY <1>3, <1>4, <2>1, <2>2
  <2>3. CASE ~flags.bad /\ flags.defect
    BY <1>3, <1>4, <2>1, <2>3
  <2>4. CASE ~flags.bad /\ ~flags.defect /\ flags.unknown
    BY <1>3, <1>4, <2>1, <2>4
  <2>5. CASE ~flags.bad /\ ~flags.defect /\ ~flags.unknown
    BY <1>3, <1>4, <2>1, <2>5
  <2>. QED
    BY <2>2, <2>3, <2>4, <2>5
<1>5. code = 0 => \A e \in Ids : Live(e) => verdict[e] \in {"unit", "value"}
  <2>1. CASE shim = "multi"
    BY <1>1, <1>2, <1>4, <2>1 DEF Ended, Verdicts
  <2>2. CASE shim = "single"
    BY <2>2 DEF MainInv, CodeGiven, Live
  <2>. QED
    BY <2>1, <2>2 DEF MainInv, MainTypes
<1>6. code = 0 /\ shim = "single" => ~entryFault[1]
    BY DEF MainInv, CodeGiven
<1>7. \A e \in Ids : /\ runsOf[e] <= Budget + 1
                     /\ verdict[e] = "panic" /\ shim = "multi" => runsOf[e] = Budget + 1
                     /\ sink[e] = (verdict[e] \in {"unit", "value", "err", "unknown"})
    BY DEF MainInv, MainTypes, RestartsCounted, VerdictsGiven
<1>. QED
    BY <1>1, <1>4, <1>5, <1>6, <1>7 DEF ExitCodeIsTheVerdict, Ended

\* Whatever panics, faults and defects the entries meet: the generated main
\* exits when all of them are over, with the code of the worst verdict, and no
\* body is run more than Budget + 1 times.
THEOREM ExitsWithVerdict == USpec => []ExitCodeIsTheVerdict
<1>1. USpec => []MainInv
    BY MainInit, MainStep, PTL DEF USpec
<1>. QED
    BY <1>1, MainPromises, PTL

-----------------------------------------------------------------------------
(* The build cache *)

\* Contents are versions, what rustc makes of them is their pair, and that is
\* also the name its blob gets.
Versions == 1 .. 2
Contents == [src : Versions, dep : Versions]
Pairs == Versions \X Versions
Made == [of : Pairs, settled : BOOLEAN]
Now == <<content.src, content.dep>>
Remembered(b) == <<memo[b].src, memo[b].dep>>

\* The inductive invariant of the builds, in named parts.
CacheTypes ==
    /\ content \in Contents
    /\ memo \in [Builds -> [src : 0 .. 2, dep : 0 .. 2]]
    /\ bstep \in [Builds -> Steps]
    /\ wanted \in [Builds -> Pairs \union {None}] /\ built \in [Builds -> Pairs \union {None}]
    /\ out \in [Builds -> Made \union {None}]
    /\ current \in [Builds -> SUBSET Contents]

\* A settled blob is what its name says, and a manifest names the blob of its
\* key and of the hash it lists.
NamesTell ==
    /\ \A n \in DOMAIN blobs : n \in Pairs /\ blobs[n] \in Made /\ (blobs[n].settled => blobs[n].of = n)
    /\ \A k \in DOMAIN manifests :
        /\ k \in Versions /\ manifests[k].dep \in Versions
        /\ manifests[k].blob = <<k, manifests[k].dep>>

\* What a running build remembers of a file was true of it while it ran, what it
\* has chosen has the name of what it remembers, and what it has compiled is
\* the files as they are when none has changed.
BuildKnows(b) ==
    Running(b) =>
        /\ content \in current[b]
        /\ memo[b].src # 0 => \E c \in current[b] : memo[b].src = c.src
        /\ memo[b].dep # 0 => \E d \in current[b] : memo[b].dep = d.dep
        /\ bstep[b] # "key" => memo[b].src # 0
        /\ bstep[b] \in {"copy", "manifest", "take"} => memo[b].dep # 0 /\ wanted[b] = Remembered(b)
        /\ bstep[b] = "store" /\ built[b] # None /\ current[b] = {content} => built[b] = Now

Current(b) == bstep[b] = "done" /\ out[b].settled => Fresh(b)

CacheInv == CacheTypes /\ NamesTell /\ (\A b \in Builds : BuildKnows(b)) /\ (\A b \in Builds : Current(b))

\* At first no build runs and the cache is empty.
LEMMA CacheInit == CInit => CacheInv
<1>. SUFFICES ASSUME CInit PROVE CacheInv
    OBVIOUS
<1>1. CacheTypes
    BY DEF CInit, CacheTypes, Versions, Contents, NoMemo, Steps
<1>2. NamesTell
    BY DEF CInit, NamesTell
<1>3. \A b \in Builds : bstep[b] = "idle"
    BY DEF CInit
<1>. QED
    BY <1>1, <1>2, <1>3 DEF CacheInv, BuildKnows, Running, Current

\* A step of build b leaves the others alone.
Alone(b) ==
    \A a \in Builds \ {b} : UNCHANGED <<memo[a], bstep[a], wanted[a], built[a], current[a], out[a]>>

\* What another build's step leaves alone of this one.
LEMMA OthersKeep ==
    ASSUME CacheInv, NEW b \in Builds, UNCHANGED content,
           UNCHANGED <<memo[b], bstep[b], wanted[b], built[b], current[b], out[b]>>
    PROVE  BuildKnows(b)' /\ Current(b)'
<1>1. BuildKnows(b)'
    BY DEF CacheInv, BuildKnows, Running, Now, Remembered
<1>2. Current(b)'
    BY DEF CacheInv, Current, Fresh
<1>. QED
    BY <1>1, <1>2

\* A step of one build, of which it remains to be shown what it does there.
LEMMA OneBuild ==
    ASSUME CacheInv, NEW b \in Builds, UNCHANGED content, Alone(b), CacheTypes', NamesTell',
           BuildKnows(b)', Current(b)'
    PROVE  CacheInv'
<1>1. ASSUME NEW a \in Builds PROVE BuildKnows(a)' /\ Current(a)'
  <2>1. CASE a = b
    BY <2>1
  <2>2. CASE a # b
    BY <2>2, OthersKeep DEF Alone
  <2>. QED
    BY <2>1, <2>2
<1>. QED
    BY <1>1 DEF CacheInv

\* A build begins with nothing remembered.
LEMMA StartKeeps ==
    ASSUME CacheInv, NEW b \in Builds, Start(b)
    PROVE  CacheInv'
<1>1. CacheTypes'
    BY DEF Start, CacheInv, CacheTypes, NoMemo, Goto, Steps
<1>2. NamesTell'
    BY DEF Start, CacheInv, NamesTell
<1>3. BuildKnows(b)' /\ Current(b)'
    BY DEF Start, CacheInv, CacheTypes, BuildKnows, Current, NoMemo, Goto
<1>4. Alone(b)
    BY DEF Start, Alone, CacheInv, CacheTypes, Goto
<1>. QED
    BY <1>1, <1>2, <1>3, <1>4, OneBuild DEF Start

\* The hash of a file, taken now or remembered, is of a content it had, and of
\* the present one when none has changed.
LEMMA HashIs ==
    ASSUME CacheInv, NEW b \in Builds, Running(b), NEW f \in {"src", "dep"}, Hashed(b, f)
    PROVE  /\ file_hash(b, f) \in Versions
           /\ \E c \in current[b] : file_hash(b, f) = c[f]
           /\ current[b] = {content} => file_hash(b, f) = content[f]
           /\ memo' \in [Builds -> [src : 0 .. 2, dep : 0 .. 2]]
           /\ memo'[b][f] = file_hash(b, f) /\ \A g \in {"src", "dep"} \ {f} : memo'[b][g] = memo[b][g]
           /\ \A a \in Builds \ {b} : memo'[a] = memo[a]
<1>1. /\ content \in current[b] /\ content[f] \in Versions /\ memo[b][f] \in 0 .. 2
      /\ memo[b][f] # 0 => \E c \in current[b] : memo[b][f] = c[f]
    BY DEF CacheInv, CacheTypes, BuildKnows, Contents
<1>2. file_hash(b, f) \in Versions /\ \E c \in current[b] : file_hash(b, f) = c[f]
    BY <1>1 DEF file_hash, Versions
<1>3. current[b] = {content} => file_hash(b, f) = content[f]
    BY <1>2
<1>4. memo' = [memo EXCEPT ![b][f] = file_hash(b, f)]
    BY DEF Hashed
<1>5. memo' \in [Builds -> [src : 0 .. 2, dep : 0 .. 2]]
    BY <1>2, <1>4 DEF CacheInv, CacheTypes, Versions
<1>6. memo'[b][f] = file_hash(b, f) /\ \A g \in {"src", "dep"} \ {f} : memo'[b][g] = memo[b][g]
    BY <1>2, <1>4 DEF CacheInv, CacheTypes, Versions
<1>7. \A a \in Builds \ {b} : memo'[a] = memo[a]
    BY <1>4 DEF CacheInv, CacheTypes
<1>. QED
    BY <1>2, <1>3, <1>5, <1>6, <1>7

\* The source is hashed.
LEMMA TakeKeyKeeps ==
    ASSUME CacheInv, NEW b \in Builds, TakeKey(b)
    PROVE  CacheInv'
<1>1. Running(b) /\ Hashed(b, "src") /\ bstep[b] = "key" /\ bstep' = [bstep EXCEPT ![b] = "lookup"]
      /\ UNCHANGED <<wanted, content, manifests, blobs, built, out, current>>
    BY DEF TakeKey, Running, Goto
<1>2. /\ memo' \in [Builds -> [src : 0 .. 2, dep : 0 .. 2]]
      /\ memo'[b].src \in Versions /\ memo'[b].dep = memo[b].dep
      /\ \E c \in current[b] : memo'[b].src = c.src
      /\ \A a \in Builds \ {b} : memo'[a] = memo[a]
    BY <1>1, HashIs
<1>3. CacheTypes'
    BY <1>1, <1>2 DEF CacheInv, CacheTypes, Steps
<1>4. NamesTell'
    BY <1>1 DEF CacheInv, NamesTell
<1>5. bstep'[b] = "lookup"
    BY <1>1 DEF CacheInv, CacheTypes
<1>6. BuildKnows(b)' /\ Current(b)'
    BY <1>1, <1>2, <1>5 DEF CacheInv, BuildKnows, Current, Versions
<1>7. Alone(b)
    BY <1>1, <1>2 DEF Alone, CacheInv, CacheTypes
<1>. QED
    BY <1>1, <1>3, <1>4, <1>6, <1>7, OneBuild

\* A hit is a manifest whose listed hash is the file's: its blob has the name of
\* what the build remembers.
LEMMA LookupKeeps ==
    ASSUME CacheInv, NEW b \in Builds, Lookup(b)
    PROVE  CacheInv'
<1>1. Running(b) /\ bstep[b] = "lookup" /\ UNCHANGED <<content, manifests, blobs, built, out, current>>
    BY DEF Lookup, Running
<1>2. Key(b) = memo[b].src /\ memo[b].src # 0 /\ content \in current[b]
      /\ \E c \in current[b] : memo[b].src = c.src
    BY <1>1 DEF CacheInv, BuildKnows, Key
<1>3. NamesTell'
    BY <1>1 DEF CacheInv, NamesTell
<1>4. CASE Key(b) \in DOMAIN manifests
  <2>1. /\ Hashed(b, "dep") /\ wanted' = [wanted EXCEPT ![b] = manifests[Key(b)].blob]
        /\ bstep' = [bstep EXCEPT ![b] = IF ManifestHolds(b) THEN "copy" ELSE "compile"]
    BY <1>4 DEF Lookup, Goto
  <2>2. /\ memo' \in [Builds -> [src : 0 .. 2, dep : 0 .. 2]]
        /\ memo'[b].dep = file_hash(b, "dep") /\ memo'[b].dep \in Versions /\ memo'[b].src = memo[b].src
        /\ \E d \in current[b] : memo'[b].dep = d.dep
        /\ \A a \in Builds \ {b} : memo'[a] = memo[a]
    BY <1>1, <2>1, HashIs
  <2>3. manifests[Key(b)].blob = <<Key(b), manifests[Key(b)].dep>>
        /\ Key(b) \in Versions /\ manifests[Key(b)].dep \in Versions
    BY <1>4 DEF CacheInv, NamesTell
  <2>4. ManifestHolds(b) => manifests[Key(b)].blob = <<memo'[b].src, memo'[b].dep>>
    BY <1>2, <2>2, <2>3 DEF ManifestHolds
  <2>5. CacheTypes'
    <3>1. manifests[Key(b)].blob \in Pairs
        BY <2>3 DEF Pairs
    <3>2. wanted' \in [Builds -> Pairs \union {None}]
        BY <2>1, <3>1 DEF CacheInv, CacheTypes
    <3>3. bstep' \in [Builds -> Steps]
        BY <2>1 DEF CacheInv, CacheTypes, Steps
    <3>. QED
        BY <1>1, <2>2, <3>2, <3>3 DEF CacheInv, CacheTypes
  <2>6. wanted'[b] = manifests[Key(b)].blob /\ bstep'[b] = IF ManifestHolds(b) THEN "copy" ELSE "compile"
    BY <2>1 DEF CacheInv, CacheTypes
  <2>7. BuildKnows(b)' /\ Current(b)'
    <3>1. bstep'[b] \in {"copy", "compile"} /\ current' = current /\ content' = content
        BY <1>1, <2>6
    <3>2. memo'[b].dep # 0
        BY <2>2 DEF Versions
    <3>3. bstep'[b] = "copy" => wanted'[b] = <<memo'[b].src, memo'[b].dep>>
        BY <2>4, <2>6
    <3>4. /\ \E c \in current'[b] : memo'[b].src = c.src
          /\ \E d \in current'[b] : memo'[b].dep = d.dep
        BY <1>2, <2>2, <3>1
    <3>5. content' \in current'[b] /\ memo'[b].src # 0
        BY <1>2, <2>2, <3>1
    <3>6. BuildKnows(b)'
        BY <3>1, <3>2, <3>3, <3>4, <3>5 DEF BuildKnows, Remembered
    <3>7. Current(b)'
        BY <3>1 DEF Current
    <3>. QED
        BY <3>6, <3>7
  <2>8. Alone(b)
    BY <1>1, <2>1, <2>2 DEF Alone, CacheInv, CacheTypes
  <2>. QED
    BY <1>1, <1>3, <2>5, <2>7, <2>8, OneBuild
<1>5. CASE Key(b) \notin DOMAIN manifests
  <2>1. bstep' = [bstep EXCEPT ![b] = "compile"] /\ UNCHANGED <<memo, wanted>>
    BY <1>5 DEF Lookup, Goto
  <2>2. CacheTypes'
    BY <1>1, <2>1 DEF CacheInv, CacheTypes, Steps
  <2>3. bstep'[b] = "compile"
    BY <2>1 DEF CacheInv, CacheTypes
  <2>4. BuildKnows(b)' /\ Current(b)'
    BY <1>1, <2>1, <2>3 DEF CacheInv, BuildKnows, Current
  <2>5. Alone(b)
    BY <1>1, <2>1 DEF Alone, CacheInv, CacheTypes
  <2>. QED
    BY <1>1, <1>3, <2>2, <2>4, <2>5, OneBuild
<1>. QED
    BY <1>4, <1>5

\* The output is the blob that was wanted, or the build goes on without.
LEMMA CopyKeeps ==
    ASSUME CacheInv, NEW b \in Builds, CopyHit(b) \/ TakeBlob(b)
    PROVE  CacheInv'
<1>1. /\ Running(b) /\ bstep[b] \in {"copy", "take"}
      /\ UNCHANGED <<wanted, content, manifests, blobs, memo, built, current>>
    BY DEF CopyHit, TakeBlob, Running
<1>2. NamesTell'
    BY <1>1 DEF CacheInv, NamesTell
<1>3. /\ wanted[b] = <<memo[b].src, memo[b].dep>>
      /\ \E c \in current[b] : memo[b].src = c.src
      /\ \E d \in current[b] : memo[b].dep = d.dep
    BY <1>1 DEF CacheInv, BuildKnows, Remembered
<1>4. CASE wanted[b] \in DOMAIN blobs
  <2>1. out' = [out EXCEPT ![b] = blobs[wanted[b]]] /\ bstep' = [bstep EXCEPT ![b] = "done"]
    BY <1>4 DEF CopyHit, TakeBlob, Goto
  <2>2. blobs[wanted[b]] \in Made /\ (blobs[wanted[b]].settled => blobs[wanted[b]].of = wanted[b])
    BY <1>4 DEF CacheInv, NamesTell
  <2>3. CacheTypes'
    BY <1>1, <2>1, <2>2 DEF CacheInv, CacheTypes, Steps
  <2>4. bstep'[b] = "done" /\ out'[b] = blobs[wanted[b]]
    BY <2>1 DEF CacheInv, CacheTypes
  <2>5. BuildKnows(b)'
    BY <2>4 DEF BuildKnows, Running
  <2>6. Current(b)'
    BY <1>1, <1>3, <2>2, <2>4 DEF Current, Fresh
  <2>7. Alone(b)
    BY <1>1, <2>1 DEF Alone, CacheInv, CacheTypes
  <2>. QED
    BY <1>1, <1>2, <2>3, <2>5, <2>6, <2>7, OneBuild
<1>5. CASE wanted[b] \notin DOMAIN blobs
  <2>1. PICK s \in {"compile", "failed"} : bstep' = [bstep EXCEPT ![b] = s] /\ UNCHANGED out
    BY <1>5 DEF CopyHit, TakeBlob, Goto
  <2>2. CacheTypes'
    BY <1>1, <2>1 DEF CacheInv, CacheTypes, Steps
  <2>3. bstep'[b] = s
    BY <2>1 DEF CacheInv, CacheTypes
  <2>4. BuildKnows(b)' /\ Current(b)'
    BY <1>1, <2>3 DEF CacheInv, BuildKnows, Running, Current
  <2>5. Alone(b)
    BY <1>1, <2>1 DEF Alone, CacheInv, CacheTypes
  <2>. QED
    BY <1>1, <1>2, <2>2, <2>4, <2>5, OneBuild
<1>. QED
    BY <1>4, <1>5

\* rustc reads both files.
LEMMA CompileKeeps ==
    ASSUME CacheInv, NEW b \in Builds, Compile(b)
    PROVE  CacheInv'
<1>1. /\ Running(b) /\ bstep[b] = "compile" /\ UNCHANGED <<wanted, content, manifests, blobs, memo, out, current>>
      /\ \/ built' = [built EXCEPT ![b] = Now] /\ bstep' = [bstep EXCEPT ![b] = "store"]
         \/ UNCHANGED built /\ bstep' = [bstep EXCEPT ![b] = "failed"]
    BY DEF Compile, Running, Goto, Now
<1>2. Now \in Pairs
    BY DEF Now, Pairs, Contents, CacheInv, CacheTypes
<1>3. CacheTypes'
  <2>1. CASE built' = [built EXCEPT ![b] = Now] /\ bstep' = [bstep EXCEPT ![b] = "store"]
    <3>1. built' \in [Builds -> Pairs \union {None}]
        BY <1>2, <2>1 DEF CacheInv, CacheTypes
    <3>2. bstep' \in [Builds -> Steps]
        BY <2>1 DEF CacheInv, CacheTypes, Steps
    <3>. QED
        BY <1>1, <3>1, <3>2 DEF CacheInv, CacheTypes
  <2>2. CASE UNCHANGED built /\ bstep' = [bstep EXCEPT ![b] = "failed"]
    BY <1>1, <2>2 DEF CacheInv, CacheTypes, Steps
  <2>. QED
    BY <1>1, <2>1, <2>2
<1>4. NamesTell'
    BY <1>1 DEF CacheInv, NamesTell
<1>5. (bstep'[b] = "store" /\ built'[b] = Now) \/ bstep'[b] = "failed"
    BY <1>1 DEF CacheInv, CacheTypes
<1>6. BuildKnows(b)' /\ Current(b)'
    BY <1>1, <1>5 DEF CacheInv, BuildKnows, Running, Current, Now
<1>7. Alone(b)
    BY <1>1 DEF Alone, CacheInv, CacheTypes
<1>. QED
    BY <1>1, <1>3, <1>4, <1>6, <1>7, OneBuild

\* The blob gets the name of what the build remembers; when no file has changed
\* that is what it was compiled from.
LEMMA StoreBlobKeeps ==
    ASSUME CacheInv, NEW b \in Builds, StoreBlob(b)
    PROVE  CacheInv'
<1>1. Running(b) /\ bstep[b] = "store" /\ Hashed(b, "dep") /\ UNCHANGED <<content, manifests, out, current>>
    BY DEF StoreBlob, Running
<1>2. /\ file_hash(b, "dep") \in Versions
      /\ current[b] = {content} => file_hash(b, "dep") = content.dep
      /\ memo' \in [Builds -> [src : 0 .. 2, dep : 0 .. 2]]
      /\ memo'[b].dep = file_hash(b, "dep") /\ memo'[b].src = memo[b].src
      /\ \E d \in current[b] : memo'[b].dep = d.dep
      /\ \A a \in Builds \ {b} : memo'[a] = memo[a]
    BY <1>1, HashIs
<1>3. /\ Key(b) = memo[b].src /\ memo[b].src # 0 /\ memo[b].src \in 0 .. 2 /\ content \in current[b]
      /\ \E c \in current[b] : memo[b].src = c.src
      /\ built[b] # None /\ current[b] = {content} => built[b] = Now
    BY <1>1 DEF CacheInv, CacheTypes, BuildKnows, Key
<1>4. CASE built[b] = None
  <2>1. bstep' = [bstep EXCEPT ![b] = "failed"] /\ UNCHANGED <<blobs, wanted, built>>
    BY <1>4 DEF StoreBlob, Goto
  <2>2. CacheTypes'
    BY <1>1, <1>2, <2>1 DEF CacheInv, CacheTypes, Steps
  <2>3. NamesTell'
    BY <1>1, <2>1 DEF CacheInv, NamesTell
  <2>4. bstep'[b] = "failed"
    BY <2>1 DEF CacheInv, CacheTypes
  <2>5. BuildKnows(b)' /\ Current(b)'
    BY <2>4 DEF BuildKnows, Running, Current
  <2>6. Alone(b)
    BY <1>1, <1>2, <2>1 DEF Alone, CacheInv, CacheTypes
  <2>. QED
    BY <1>1, <2>2, <2>3, <2>5, <2>6, OneBuild
<1>5. CASE built[b] # None
  <2>. DEFINE name == <<memo[b].src, file_hash(b, "dep")>>
              blob == [of |-> built[b], settled |-> current[b] = {content}]
  <2>1. /\ wanted' = [wanted EXCEPT ![b] = name] /\ blobs' = Put(blobs, wanted'[b], blob)
        /\ built' = [built EXCEPT ![b] = None] /\ bstep' = [bstep EXCEPT ![b] = "manifest"]
    BY <1>3, <1>5 DEF StoreBlob, Goto
  <2>2. name \in Pairs /\ blob \in Made
    BY <1>2, <1>3, <1>5 DEF Pairs, Versions, Made, CacheInv, CacheTypes
  <2>3. blob.settled => blob.of = name
    BY <1>2, <1>3, <1>5 DEF Now
  <2>. HIDE DEF name, blob
  <2>4. CacheTypes'
    BY <1>1, <1>2, <2>1, <2>2 DEF CacheInv, CacheTypes, Steps
  <2>5. wanted'[b] = name /\ bstep'[b] = "manifest"
    BY <2>1 DEF CacheInv, CacheTypes
  <2>6. blobs' = [x \in DOMAIN blobs \union {name} |-> IF x = name THEN blob ELSE blobs[x]]
    BY <2>1, <2>5 DEF Put
  <2>7. NamesTell'
    BY <1>1, <2>2, <2>3, <2>6 DEF CacheInv, NamesTell
  <2>8. name = <<memo'[b].src, memo'[b].dep>>
    BY <1>2 DEF name
  <2>9. BuildKnows(b)' /\ Current(b)'
    <3>1. current' = current /\ content' = content
        BY <1>1
    <3>2. memo'[b].dep # 0 /\ memo'[b].src # 0 /\ content' \in current'[b]
        BY <1>2, <1>3, <3>1 DEF Versions
    <3>3. /\ \E c \in current'[b] : memo'[b].src = c.src
          /\ \E d \in current'[b] : memo'[b].dep = d.dep
        BY <1>2, <1>3, <3>1
    <3>4. BuildKnows(b)'
        BY <2>5, <2>8, <3>1, <3>2, <3>3 DEF BuildKnows, Remembered
    <3>5. Current(b)'
        BY <2>5 DEF Current
    <3>. QED
        BY <3>4, <3>5
  <2>10. Alone(b)
    BY <1>1, <1>2, <2>1 DEF Alone, CacheInv, CacheTypes
  <2>. QED
    BY <1>1, <2>4, <2>7, <2>9, <2>10, OneBuild
<1>. QED
    BY <1>4, <1>5

\* The manifest lists the hash taken and names the blob stored.
LEMMA StoreManifestKeeps ==
    ASSUME CacheInv, NEW b \in Builds, StoreManifest(b)
    PROVE  CacheInv'
<1>1. Running(b) /\ bstep[b] = "manifest" /\ UNCHANGED <<wanted, content, blobs, memo, built, out, current>>
    BY DEF StoreManifest, Running
<1>2. /\ Key(b) = memo[b].src /\ memo[b].src # 0 /\ memo[b].dep # 0
      /\ memo[b].src \in 0 .. 2 /\ memo[b].dep \in 0 .. 2
      /\ wanted[b] = <<memo[b].src, memo[b].dep>>
    BY <1>1 DEF CacheInv, CacheTypes, BuildKnows, Key, Remembered
<1>3. PICK s \in {"take", "failed"} : bstep' = [bstep EXCEPT ![b] = s]
    BY DEF StoreManifest, Goto
<1>4. NamesTell'
  <2>1. CASE UNCHANGED manifests
    BY <1>1, <2>1 DEF CacheInv, NamesTell
  <2>2. CASE manifests' = Put(manifests, Key(b), [dep |-> memo[b].dep, blob |-> wanted[b]])
    <3>1. manifests' = [x \in DOMAIN manifests \union {memo[b].src} |->
                            IF x = memo[b].src THEN [dep |-> memo[b].dep, blob |-> wanted[b]] ELSE manifests[x]]
        BY <1>2, <2>2 DEF Put
    <3>. QED
        BY <1>1, <1>2, <3>1 DEF CacheInv, NamesTell, Versions
  <2>. QED
    BY <2>1, <2>2 DEF StoreManifest
<1>5. CacheTypes'
    BY <1>1, <1>3 DEF CacheInv, CacheTypes, Steps
<1>6. bstep'[b] = s
    BY <1>3 DEF CacheInv, CacheTypes
<1>7. BuildKnows(b)' /\ Current(b)'
    BY <1>1, <1>6 DEF CacheInv, BuildKnows, Running, Current, Remembered
<1>8. Alone(b)
    BY <1>1, <1>3 DEF Alone, CacheInv, CacheTypes
<1>. QED
    BY <1>1, <1>4, <1>5, <1>7, <1>8, OneBuild

\* A file changes: a running build has then seen more than one content, so that
\* nothing it stores is settled, and what it remembers was true while it ran.
LEMMA EditKeeps ==
    ASSUME CacheInv, NEW f \in {"src", "dep"}, Edit(f)
    PROVE  CacheInv'
<1>1. PICK v \in Versions : v # content[f] /\ content' = [content EXCEPT ![f] = v]
    BY DEF Edit, Versions
<1>2. /\ current' = [b \in Builds |-> IF Running(b) THEN current[b] \union {content'} ELSE current[b]]
      /\ UNCHANGED <<wanted, manifests, blobs, memo, built, bstep, out>>
    BY DEF Edit
<1>3. content' \in Contents /\ content' # content
    BY <1>1 DEF CacheInv, CacheTypes, Contents
<1>4. CacheTypes'
  <2>1. \A b \in Builds : current[b] \union {content'} \in SUBSET Contents
    BY <1>3 DEF CacheInv, CacheTypes
  <2>2. current' \in [Builds -> SUBSET Contents]
    BY <1>2, <2>1 DEF CacheInv, CacheTypes
  <2>. QED
    BY <1>2, <1>3, <2>2 DEF CacheInv, CacheTypes
<1>5. NamesTell'
    BY <1>2 DEF CacheInv, NamesTell
<1>6. ASSUME NEW b \in Builds PROVE BuildKnows(b)'
  <2>1. CASE ~Running(b)
    BY <1>2, <2>1 DEF BuildKnows, Running
  <2>2. CASE Running(b)
    <3>1. current'[b] = current[b] \union {content'} /\ content \in current[b] /\ Running(b)'
        BY <1>2, <2>2 DEF CacheInv, BuildKnows, Running
    <3>2. current'[b] # {content'}
        BY <1>3, <3>1
    <3>3. /\ memo[b].src # 0 => \E c \in current'[b] : memo[b].src = c.src
          /\ memo[b].dep # 0 => \E d \in current'[b] : memo[b].dep = d.dep
        BY <2>2, <3>1 DEF CacheInv, BuildKnows
    <3>. QED
        BY <1>2, <2>2, <3>1, <3>2, <3>3 DEF CacheInv, BuildKnows, Remembered
  <2>. QED
    BY <2>1, <2>2
<1>7. ASSUME NEW b \in Builds PROVE Current(b)'
  <2>1. bstep[b] = "done" => current'[b] = current[b]
    BY <1>2 DEF Running
  <2>. QED
    BY <1>2, <2>1 DEF CacheInv, Current, Fresh
<1>. QED
    BY <1>4, <1>5, <1>6, <1>7 DEF CacheInv

\* The cache directory is deleted under the builds.
LEMMA WipeKeeps ==
    ASSUME CacheInv, Wipe
    PROVE  CacheInv'
<1>1. /\ manifests' = <<>> /\ blobs' = <<>> /\ built' = [b \in Builds |-> None]
      /\ UNCHANGED <<wanted, content, memo, bstep, out, current>>
    BY DEF Wipe
<1>2. CacheTypes'
    BY <1>1 DEF CacheInv, CacheTypes
<1>3. NamesTell'
    BY <1>1 DEF NamesTell
<1>4. \A b \in Builds : BuildKnows(b)'
    BY <1>1 DEF CacheInv, BuildKnows, Running, Remembered
<1>5. \A b \in Builds : Current(b)'
    BY <1>1 DEF CacheInv, Current, Fresh
<1>. QED
    BY <1>2, <1>3, <1>4, <1>5 DEF CacheInv

\* Every step keeps the invariant.
LEMMA CacheStep == CacheInv /\ [CNext]_cvars => CacheInv'
<1>. SUFFICES ASSUME CacheInv, [CNext]_cvars PROVE CacheInv'
    OBVIOUS
<1>1. ASSUME NEW b \in Builds,
             \/ Start(b) \/ TakeKey(b) \/ Lookup(b) \/ CopyHit(b) \/ Compile(b)
             \/ StoreBlob(b) \/ StoreManifest(b) \/ TakeBlob(b)
      PROVE  CacheInv'
    BY <1>1, StartKeeps, TakeKeyKeeps, LookupKeeps, CopyKeeps, CompileKeeps, StoreBlobKeeps, StoreManifestKeeps
<1>2. ASSUME NEW f \in {"src", "dep"}, Edit(f) PROVE CacheInv'
    BY <1>2, EditKeeps
<1>3. CASE Wipe
    BY <1>3, WipeKeeps
<1>4. CASE UNCHANGED cvars
    BY <1>4 DEF cvars, CacheInv, CacheTypes, NamesTell, BuildKnows, Running, Now, Remembered, Current, Fresh
<1>. QED
    BY <1>1, <1>2, <1>3, <1>4 DEF CNext

\* For any number of builds, and whatever they store, race for or find deleted
\* while the files change under them: each file was compiled, for the output of
\* a build that succeeds, from a content it had while that build ran, unless a
\* file had changed under the build that stored the blob.
THEOREM OutputsCurrent == CSpec => []OutputsAreCurrent
<1>1. CacheInv => OutputsAreCurrent
    BY DEF CacheInv, OutputsAreCurrent, Current
<1>2. CacheInv /\ [CNext]_cvars => CacheInv'
    BY CacheStep
<1>. QED
    BY <1>1, <1>2, CacheInit, PTL DEF CSpec
=============================================================================
