----------------------------- MODULE RunsProofs -----------------------------
(***************************************************************************)
(* Theorems of Runs and of the sweep over them, UnfinishedRuns, for any    *)
(* runs and connections.  The inductive invariant of Runs is the           *)
(* conjunction of its three safety invariants and of the types: each of    *)
(* them is about the last start or the last cancellation, which only the   *)
(* call that makes it and the runs that move on can disturb.  What the     *)
(* sweep promises at its end is carried through it by an invariant on the  *)
(* statuses it has already asked for.                                      *)
(***************************************************************************)
EXTENDS Runs, UnfinishedRuns, TLAPS

RunsInv ==
    /\ TypeOK
    /\ StartVerdictFits
    /\ DefaultsOnlyIfAsked
    /\ CancelVerdictFits
    /\ cancel.outcome \in {"cancelling", "notCancellable"} =>
          cancel.run \in Run /\ status[cancel.run] # "none"

(* What a request with a choice sends, when it can be built.               *)
LEMMA ChoiceIsSent ==
    ASSUME NEW k \in Kinds, NEW q \in Requests(k), WellFormed(k, q)
    PROVE  /\ SentChoice(k, q) = "id" => q.choice = "id"
           /\ SentChoice(k, q) # "id" => q.choice \in {"absent", "null"}
           /\ SentChoice(k, q) = "absent" => k # "fromConfig"
           /\ q.choice \in Refs
  BY SMT DEF Kinds, Requests, Refs, WellFormed, Choices, Unwrapped, SentChoice

(* What the answer to a start is made of.                                  *)
LEMMA VerdictOfAnswer ==
    ASSUME NEW k \in Kinds, NEW w \in {"absent", "null", "id"},
           w = "absent" => k # "fromConfig",
           NEW s \in {201, 400, 500, 502}, NEW b \in Bodies(k, w, s)
    PROVE  /\ StartVerdict(k, s, b) \in StartOutcomes
           /\ StartVerdict(k, s, b) \notin {"none", "requestError", "transportError"}
           /\ StartVerdict(k, s, b) = "started" <=> s = 201
           /\ StartVerdict(k, s, b) \in {"invalidLibrary", "invalidRuleset",
                  "configNotFound", "invalidConfig", "attributeError"} => s = 400
           /\ StartVerdict(k, s, b) \in {"configNotFound", "invalidConfig"} => w = "id"
  BY SMT DEF Kinds, Bodies, StartVerdict, NotJson, StartOutcomes

LEMMA InitInv == Init => RunsInv
  BY RunStatusAssumption DEF Init, NoRuns, RunsInv, TypeOK, StatusOK, StartVerdictFits,
     DefaultsOnlyIfAsked, CancelVerdictFits, StartOutcomes, CancelOutcomes,
     Refs, Unfinished, Cancellable, Ended

(* A call that makes no request leaves nothing behind.                     *)
LEMMA RejectKeepsInv ==
    ASSUME NEW k \in Kinds, NEW q \in Requests(k), RunsInv, RejectRequest(k, q)
    PROVE  RunsInv'
  BY RunStatusAssumption DEF RunsInv, RejectRequest, TypeOK, StatusOK, StartVerdictFits,
     DefaultsOnlyIfAsked, CancelVerdictFits, StartOutcomes, Requests, Refs

(* A run is started, or it is not: the verdict follows the answer, and the *)
(* server's record the choice that was sent.                               *)
LEMMA StartKeepsInv ==
    ASSUME NEW k \in Kinds, NEW q \in Requests(k), NEW r \in Run,
           RunsInv, StartRun(k, q, r)
    PROVE  RunsInv'
  <1> DEFINE w == SentChoice(k, q)
  <1>1. /\ w \in {"absent", "null", "id"}
        /\ w = "absent" => k # "fromConfig"
        /\ w = "id" => q.choice = "id"
        /\ w # "id" => q.choice \in {"absent", "null"}
        /\ q.choice \in Refs
    BY ChoiceIsSent DEF SentChoice, StartRun
  <1>2. /\ start' \in StartOutcomes
        /\ start' # "none" /\ start' # "requestError"
        /\ answered' \in {0, 201, 400, 500, 502}
        /\ start' = "started" <=> answered' = 201
        /\ start' \in {"invalidLibrary", "invalidRuleset", "configNotFound",
               "invalidConfig", "attributeError"} => answered' = 400
        /\ start' \in {"configNotFound", "invalidConfig"} => w = "id"
        /\ answered' = 0 => start' = "transportError"
    <2>1. CASE start' = "transportError" /\ answered' = 0
      BY <2>1 DEF StartOutcomes
    <2>2. CASE \E s \in {201, 400, 500, 502} : \E b \in Bodies(k, w, s) :
                  start' = StartVerdict(k, s, b) /\ answered' = s
      <3>1. PICK s \in {201, 400, 500, 502} : \E b \in Bodies(k, w, s) :
                  start' = StartVerdict(k, s, b) /\ answered' = s
        BY <2>2
      <3>2. PICK b \in Bodies(k, w, s) :
                  start' = StartVerdict(k, s, b) /\ answered' = s
        BY <3>1
      <3> HIDE DEF w
      <3>3. QED
        BY <3>2, <1>1, VerdictOfAnswer
    <2>3. QED
      BY <2>1, <2>2 DEF StartRun
  <1>3. CASE /\ answered' \in {0, 201, 500, 502}
             /\ Moves(r, "queued")
             /\ worksOn' = [worksOn EXCEPT ![r] = IF w = "id" THEN w ELSE "default"]
             /\ created' = r
    <2> HIDE DEF w
    <2>1. /\ TypeOK'
          /\ StartVerdictFits'
      BY <1>1, <1>2, <1>3, RunStatusAssumption
      DEF RunsInv, TypeOK, StatusOK, StartVerdictFits, StartRun, Moves, Unfinished, Cancellable
    <2>2. DefaultsOnlyIfAsked'
      BY <1>1, <1>2, <1>3, RunStatusAssumption
      DEF RunsInv, TypeOK, StatusOK, DefaultsOnlyIfAsked, StartRun
    <2>3. /\ CancelVerdictFits'
          /\ cancel'.outcome \in {"cancelling", "notCancellable"} =>
                cancel'.run \in Run /\ status'[cancel'.run] # "none"
      BY <1>3 DEF RunsInv, TypeOK, StatusOK, CancelVerdictFits, StartRun, Moves
    <2>4. QED
      BY <2>1, <2>2, <2>3 DEF RunsInv
  <1>4. CASE /\ answered' \in {0, 400, 500, 502}
             /\ created' = NoRun
             /\ UNCHANGED <<status, worksOn>>
    <2> HIDE DEF w
    <2>1. QED
      BY <1>1, <1>2, <1>4, RunStatusAssumption
      DEF RunsInv, TypeOK, StatusOK, StartVerdictFits, DefaultsOnlyIfAsked,
          CancelVerdictFits, StartRun
  <1>5. QED
    BY <1>3, <1>4 DEF StartRun

(* The verdict on a cancellation fits what the run can still do.           *)
LEMMA CancelKeepsInv ==
    ASSUME NEW r \in Run, RunsInv, CancelRun(r)
    PROVE  RunsInv'
  <1>1. status[r] # "none" /\ cancel'.run = r /\ cancel'.outcome \in CancelOutcomes
        /\ cancel' \in [run : Run \cup {NoRun}, outcome : CancelOutcomes]
    BY DEF CancelRun, CancelVerdict, CancelOutcomes
  <1>2. status' \in [Run -> {"none"} \cup Unfinished \cup Ended]
    BY DEF RunsInv, TypeOK, StatusOK, CancelRun, Moves, Unfinished, Cancellable
  <1>3. TypeOK'
    BY <1>1, <1>2 DEF RunsInv, TypeOK, StatusOK, CancelRun, startVars
  <1>4. /\ CancelVerdictFits'
        /\ cancel'.outcome \in {"cancelling", "notCancellable"} =>
              cancel'.run \in Run /\ status'[cancel'.run] # "none"
    BY <1>1 DEF RunsInv, TypeOK, StatusOK, CancelVerdictFits, CancelRun, CancelVerdict,
       Moves, Cancellable
  <1>5. StartVerdictFits' /\ DefaultsOnlyIfAsked'
    BY DEF RunsInv, StartVerdictFits, DefaultsOnlyIfAsked, CancelRun, startVars
  <1>6. QED
    BY <1>3, <1>4, <1>5 DEF RunsInv

(* The runs that move on: none becomes cancellable again.                  *)
LEMMA WorkersKeepInv ==
    ASSUME NEW r \in Run, RunsInv, Progress(r) \/ End(r)
    PROVE  RunsInv'
  <1>1. PICK s \in {"running", "validating"} \cup Ended :
          /\ status' = [status EXCEPT ![r] = s]
          /\ s \in Cancellable => status[r] \in Cancellable
    BY SMT DEF Progress, End, Moves, Cancellable, Ended
  <1>2. UNCHANGED <<startVars, cancel, watched>>
    BY DEF Progress, End
  <1>3. TypeOK'
    BY <1>1, <1>2 DEF RunsInv, TypeOK, StatusOK, startVars, Unfinished, Cancellable
  <1>4. /\ CancelVerdictFits'
        /\ cancel'.outcome \in {"cancelling", "notCancellable"} =>
              cancel'.run \in Run /\ status'[cancel'.run] # "none"
    BY <1>1, <1>2 DEF RunsInv, TypeOK, StatusOK, CancelVerdictFits, Cancellable, Ended
  <1>5. StartVerdictFits' /\ DefaultsOnlyIfAsked'
    BY <1>2 DEF RunsInv, StartVerdictFits, DefaultsOnlyIfAsked, startVars
  <1>6. QED
    BY <1>3, <1>4, <1>5 DEF RunsInv

LEMMA StepInv == RunsInv /\ [Next]_vars => RunsInv'
  <1> SUFFICES ASSUME RunsInv, [Next]_vars PROVE RunsInv'
    OBVIOUS
  <1>1. CASE \E k \in Kinds : \E q \in Requests(k) : RejectRequest(k, q)
    BY <1>1, RejectKeepsInv
  <1>2. CASE \E k \in Kinds : \E q \in Requests(k) : \E r \in Run : StartRun(k, q, r)
    BY <1>2, StartKeepsInv
  <1>3. CASE \E r \in Run : CancelRun(r)
    BY <1>3, CancelKeepsInv
  <1>4. CASE \E r \in Run : Progress(r) \/ End(r)
    BY <1>4, WorkersKeepInv
  <1>5. CASE (\E r \in Run : Watch(r)) \/ Poll
    BY <1>5 DEF Watch, Poll, startVars, RunsInv, TypeOK, StatusOK, StartVerdictFits,
       DefaultsOnlyIfAsked, CancelVerdictFits
  <1>6. CASE UNCHANGED vars
    BY <1>6 DEF vars, startVars, RunsInv, TypeOK, StatusOK, StartVerdictFits,
       DefaultsOnlyIfAsked, CancelVerdictFits
  <1>7. QED
    BY <1>1, <1>2, <1>3, <1>4, <1>5, <1>6 DEF Next

(* The inductive invariant holds in every reachable state.                 *)
THEOREM InvariantHolds == Spec => []RunsInv
  BY InitInv, StepInv, PTL DEF Spec

(* Every reachable state is well typed, and a start call returns exactly   *)
(* on the answer 201, for any set of runs (start_masking_run and its       *)
(* siblings).                                                              *)
THEOREM TypeCorrect == Spec => []TypeOK
  <1>1. RunsInv => TypeOK
    BY DEF RunsInv
  <1>2. QED
    BY InvariantHolds, <1>1, PTL

(* Who is told that a run started has one, who is told why the server      *)
(* refused it has none, and a run is created behind its caller's back only *)
(* by a failing transport, server or proxy (start_masking_run and its      *)
(* siblings).                                                              *)
THEOREM StartVerdictsFit == Spec => []StartVerdictFits
  <1>1. RunsInv => StartVerdictFits
    BY DEF RunsInv
  <1>2. QED
    BY InvariantHolds, <1>1, PTL

(* No run masks its source in place, or discovers with the built-in        *)
(* options, unless the caller asked for it (unwrap_connection_id and its   *)
(* siblings).                                                              *)
THEOREM DefaultsAreAskedFor == Spec => []DefaultsOnlyIfAsked
  <1>1. RunsInv => DefaultsOnlyIfAsked
    BY DEF RunsInv
  <1>2. QED
    BY InvariantHolds, <1>1, PTL

(* A granted or refused cancellation stays true of its run (cancel_run).   *)
THEOREM CancelVerdictsFit == Spec => []CancelVerdictFits
  <1>1. RunsInv => CancelVerdictFits
    BY DEF RunsInv
  <1>2. QED
    BY InvariantHolds, <1>1, PTL

-----------------------------------------------------------------------------
(* To the sweep, whatever happens in Runs is that a run moves on in a way  *)
(* that the sweep reckons with, so its promises hold among these runs too  *)
(* (MaskingRunStatus, cancel_run, start_masking_run).                      *)
THEOREM RunsMoveAsSwept ==
    Spec => [][\E r \in Run : \E s \in Successors(status[r]) :
                  status' = [status EXCEPT ![r] = s]]_status
  <1> DEFINE Swift == \E r \in Run : \E s \in Successors(status[r]) :
                         status' = [status EXCEPT ![r] = s]
  <1>1. RunsInv /\ [Next]_vars => [Swift]_status
    <2> SUFFICES ASSUME RunsInv, Next, status' # status
                 PROVE  Swift
      BY DEF vars
    <2>1. PICK r \in Run :
             \/ \E k \in Kinds : \E q \in Requests(k) : StartRun(k, q, r)
             \/ CancelRun(r) \/ Progress(r) \/ End(r)
      BY DEF Next, RejectRequest, Watch, Poll
    <2>2. PICK s : /\ status' = [status EXCEPT ![r] = s]
                   /\ \/ status[r] = "none" /\ s = "queued"
                      \/ status[r] \in Cancellable /\ s = "cancelling"
                      \/ status[r] \in {"queued", "validating"} /\ s = "running"
                      \/ status[r] \in {"queued", "running"} /\ s = "validating"
                      \/ status[r] \in {"running", "validating", "cancelling"} /\ s \in Ended
      BY <2>1 DEF StartRun, CancelRun, Progress, End, Moves
    <2>3. s \in Successors(status[r])
      BY <2>2 DEF Successors, Unfinished, Ended, Cancellable
    <2>4. QED
      BY <2>2, <2>3
  <1>2. QED
    BY InvariantHolds, <1>1, PTL DEF Spec

(* A run in one of the statuses the sweep has asked for.                   *)
Asked(r) == \E i \in 1..4 : i < sweep /\ status[r] = SweptStatuses[i]

Promised ==
    sweep # 0 =>
        /\ \A r \in Run : status[r] \in Unfinished => r \in live
        /\ quiet => \A r \in Run :
              Asked(r) /\ Unshared(r) => found[source[r]] = r

SweepInv == SweepTypeOK /\ SweepReportsLiveRuns /\ Promised

LEMMA Swept ==
    /\ DOMAIN SweptStatuses = 1..4
    /\ Done = 5
    /\ SweptStatuses[1] = "queued" /\ SweptStatuses[2] = "running"
    /\ SweptStatuses[3] = "validating" /\ SweptStatuses[4] = "cancelling"
  BY DEF SweptStatuses, Done

LEMMA UnfinishedIsSwept ==
    \A s : s \in Unfinished <=> \E i \in 1..4 : s = SweptStatuses[i]
  <1>1. \A i \in 1..4 : i = 1 \/ i = 2 \/ i = 3 \/ i = 4
    OBVIOUS
  <1>2. QED
    BY <1>1, Swept DEF Unfinished, Cancellable

LEMMA SweepInitInv == SweepInit => SweepInv
  <1> SUFFICES ASSUME SweepInit PROVE SweepInv
    OBVIOUS
  <1>1. quiet \in BOOLEAN
    BY Zenon DEF SweepInit, NoRuns
  <1>2. QED
    BY <1>1, Swept, RunStatusAssumption
    DEF SweepInit, NoRuns, SweepInv, SweepTypeOK, StatusOK, SweepReportsLiveRuns, Promised

(* The sweep begins: nothing was asked for yet.                            *)
LEMMA BeginKeepsInv == SweepInv /\ BeginSweep => SweepInv'
  <1> SUFFICES ASSUME SweepInv, BeginSweep PROVE SweepInv'
    OBVIOUS
  <1>1. quiet' \in BOOLEAN
    BY Zenon DEF BeginSweep
  <1>2. \A r \in Run : ~Asked(r)'
    BY DEF BeginSweep, Asked
  <1>3. QED
    BY <1>1, <1>2, Swept, RunStatusAssumption
    DEF BeginSweep, SweepInv, SweepTypeOK, StatusOK, SweepReportsLiveRuns, Promised

(* One request: the run it finds takes its place in the dictionary, and no *)
(* run that shares nothing with it loses its own.                          *)
LEMMA QueryKeepsInv == SweepInv /\ SweepQuery => SweepInv'
  <1> SUFFICES ASSUME SweepInv, SweepQuery PROVE SweepInv'
    OBVIOUS
  <1> DEFINE s == SweptStatuses[sweep]
  <1>1. /\ sweep \in 1..4 /\ sweep' = sweep + 1
        /\ UNCHANGED <<status, source, dest, quiet, live>>
    BY Swept DEF SweepQuery
  <1>2. s \in Unfinished
    BY <1>1, UnfinishedIsSwept
  <1>3. \A r \in Run : Asked(r)' <=> Asked(r) \/ status[r] = s
    <2>1. \A i \in 1..4 : i < sweep' <=> i < sweep \/ i = sweep
      BY <1>1
    <2>2. QED
      BY <1>1, <2>1 DEF Asked, SweptStatuses
  <1>4. \A r \in Run : Unshared(r)' <=> Unshared(r)
    BY <1>1 DEF Unshared
  <1>5. CASE Answers(s) = {}
    <2>1. found' = found /\ \A r \in Run : status[r] # s
      BY <1>5 DEF SweepQuery, Answers
    <2> HIDE DEF s
    <2>2. SweepTypeOK'
      BY <1>1, <2>1, Swept DEF SweepInv, SweepTypeOK, StatusOK
    <2>3. SweepReportsLiveRuns'
      BY <1>1, <2>1 DEF SweepInv, SweepReportsLiveRuns
    <2>4. Promised'
      BY <1>1, <1>3, <1>4, <2>1 DEF SweepInv, Promised
    <2>5. QED
      BY <2>2, <2>3, <2>4 DEF SweepInv
  <1>6. CASE Answers(s) # {}
    <2>1. PICK q \in Answers(s) : found' = Filed(q)
      BY <1>6 DEF SweepQuery
    <2>2. q \in Run /\ status[q] = s /\ q \in live
      BY <1>1, <1>2, <2>1 DEF Answers, SweepInv, Promised
    <2> HIDE DEF s
    <2>3. \A k \in Conn : found'[k] = IF k \in Named(q) THEN q ELSE found[k]
      BY <2>1 DEF Filed
    <2>4. SweepTypeOK'
      <3>1. found' \in [Conn -> Run \cup {NoRun}]
        BY <2>1, <2>2 DEF Filed, SweepInv, SweepTypeOK, StatusOK
      <3>2. \A k \in Conn : found'[k] # NoRun =>
                k \in {source[found'[k]], dest[found'[k]]}
        BY <2>2, <2>3 DEF Named, SweepInv, SweepTypeOK, StatusOK
      <3>3. QED
        BY <1>1, <3>1, <3>2, Swept DEF SweepInv, SweepTypeOK, StatusOK
    <2>5. SweepReportsLiveRuns'
      BY <1>1, <2>2, <2>3 DEF SweepInv, SweepReportsLiveRuns
    <2>6. ASSUME quiet, NEW r \in Run, Asked(r)', Unshared(r)
          PROVE  found'[source[r]] = r
      <3>1. source[r] \in Conn
        BY DEF SweepInv, SweepTypeOK, StatusOK
      <3>2. CASE r = q
        BY <2>3, <3>1, <3>2 DEF Named
      <3>3. CASE r # q
        <4>1. status[q] # status[r] /\ source[r] \notin {source[q], dest[q]}
          BY <1>2, <2>2, <3>1, <3>3, <2>6 DEF Unshared
        <4>2. source[r] \notin Named(q)
          BY <4>1 DEF Named
        <4>3. Asked(r)
          BY <1>3, <2>2, <2>6, <4>1
        <4>4. found[source[r]] = r
          BY <1>1, <2>6, <4>3 DEF SweepInv, Promised
        <4>5. QED
          BY <2>3, <3>1, <4>2, <4>4
      <3>4. QED
        BY <3>2, <3>3
    <2>7. Promised'
      BY <1>1, <1>4, <2>6 DEF SweepInv, Promised
    <2>8. QED
      BY <2>4, <2>5, <2>7 DEF SweepInv
  <1>7. QED
    BY <1>5, <1>6

(* A run moves on: it is live while it is unfinished, and the sweep is not *)
(* quiet.                                                                  *)
LEMMA MovesKeepsInv ==
    ASSUME NEW r \in Run, SweepInv, RunMoves(r)
    PROVE  SweepInv'
  <1>1. PICK s \in Successors(status[r]) :
           /\ status' = [status EXCEPT ![r] = s]
           /\ live' = IF s \in Unfinished THEN live \cup {r} ELSE live
    BY DEF RunMoves, Moves
  <1>2. s \in Unfinished \cup Ended
    BY <1>1 DEF Successors, Unfinished, Cancellable, Ended
  <1>3. quiet' \in BOOLEAN /\ ~quiet'
    BY Zenon DEF RunMoves, Moves
  <1>4. UNCHANGED <<source, dest, sweep, found>>
    BY DEF RunMoves, Moves
  <1>5. QED
    BY <1>1, <1>2, <1>3, <1>4
    DEF SweepInv, SweepTypeOK, StatusOK, SweepReportsLiveRuns, Promised

LEMMA SweepStepInv == SweepInv /\ [SweepNext]_sweepVars => SweepInv'
  <1> SUFFICES ASSUME SweepInv, [SweepNext]_sweepVars PROVE SweepInv'
    OBVIOUS
  <1>1. CASE EndSweep
    BY <1>1, Swept
    DEF EndSweep, SweepInv, SweepTypeOK, StatusOK, SweepReportsLiveRuns, Promised
  <1>2. CASE UNCHANGED sweepVars
    BY <1>2
    DEF sweepVars, SweepInv, SweepTypeOK, StatusOK, SweepReportsLiveRuns, Promised,
        Asked, Unshared
  <1>3. QED
    BY <1>1, <1>2, BeginKeepsInv, QueryKeepsInv, MovesKeepsInv DEF SweepNext

(* The invariant of the sweep holds in every reachable state.              *)
THEOREM SweepInvariantHolds == SweepSpec => []SweepInv
  BY SweepInitInv, SweepStepInv, PTL DEF SweepSpec

(* Every reachable state is well typed, and a run is filed under its own   *)
(* connections only (get_unfinished_runs).                                 *)
THEOREM SweepTypeCorrect == SweepSpec => []SweepTypeOK
  <1>1. SweepInv => SweepTypeOK
    BY DEF SweepInv
  <1>2. QED
    BY SweepInvariantHolds, <1>1, PTL

(* Whatever moves during the sweep, every run it reports was unfinished at *)
(* some time during it (get_unfinished_runs).                              *)
THEOREM ReportedRunsWereLive == SweepSpec => []SweepReportsLiveRuns
  <1>1. SweepInv => SweepReportsLiveRuns
    BY DEF SweepInv
  <1>2. QED
    BY SweepInvariantHolds, <1>1, PTL

(* A sweep during which nothing moves reports every unfinished run that    *)
(* shares neither its status nor a connection (get_unfinished_runs).       *)
THEOREM QuietSweepsComplete == SweepSpec => []QuietSweepComplete
  <1>1. SweepInv => QuietSweepComplete
    <2> SUFFICES ASSUME SweepInv, sweep = Done, quiet, NEW r \in Run,
                        status[r] \in Unfinished, Unshared(r)
                 PROVE  found[source[r]] = r
      BY DEF QuietSweepComplete
    <2>1. Asked(r)
      BY Swept, UnfinishedIsSwept DEF Asked
    <2>2. QED
      BY <2>1, Swept DEF SweepInv, Promised
  <1>2. QED
    BY SweepInvariantHolds, <1>1, PTL
=============================================================================
