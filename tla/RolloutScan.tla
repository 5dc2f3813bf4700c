---------------------------- MODULE RolloutScan -----------------------------
(***************************************************************************)
(* The adapter scans the log files all the sessions of the ZCode CLI share *)
(* for one run: src/src/adapters/zcode/rollout-scanner.mjs, then           *)
(* session-log-scanner.mjs, and what _observeLive makes of their findings, *)
(* while the CLI of this run and others append lines.                      *)
(*                                                                         *)
(* A rollout file belongs to the session its name carries and is read      *)
(* whole, in the order of the names; the session log is one file.  A file  *)
(* is a bag of lines: no count depends on the order of the lines in it.    *)
(* Its mtime is in the window if it was written since the window began,    *)
(* be it by the line of a request that was made before.                    *)
(***************************************************************************)
EXTENDS Integers, FiniteSets, FiniteSetsExt

CONSTANTS
    Sessions,       \* number of sessions; session s has the s-th file name
    FilesPerScan,   \* bound of the code on the files of a scan
    SessionsPerScan,\* bound of the code on the sessions of a scan
    MaxLines,       \* maxFileBytes: a file of more lines is not parsed
    OldFiles,       \* the files with a line written before the window began
    MaxEntries,     \* bound: rollout lines the CLI appends in all
    MaxCalls,       \* bound: session-log lines the CLI appends in all
    MaxFaults       \* bound: calls on the files that fail

Files == 1..Sessions

ASSUME ScanAssumption ==
    /\ Sessions \in Nat /\ FilesPerScan \in Nat /\ MaxLines \in Nat
    /\ SessionsPerScan \in Nat \ {0, 1}
    /\ OldFiles \subseteq Files
ASSUME BoundAssumption ==
    MaxEntries \in Nat /\ MaxCalls \in Nat /\ MaxFaults \in Nat

VARIABLES
    lines,      \* lines[s]: the bag of the lines written to the rollout
                \* file of s since the window began
    calls,      \* calls[s]: the tool calls of s in the session log
    pc,         \* the scanner's next step
    names,      \* names: the rollout files that it was told of
    file,       \* the rollout file it looks at next
    scan,       \* what scan() has found so far
    before,     \* history: what there was to find when the scan began
    faults      \* calls on the files that failed so far

worldVars == <<lines, calls>>
vars == <<lines, calls, pc, names, file, scan, before, faults>>

----------------------------------------------------------------------------
(* The files *)

NoSession == 0

(* A line is one request, which names its model: "old", made before the    *)
(* window, "answered" with text or tool calls, "empty", or "none".         *)
Kinds == {"old", "answered", "empty", "none"}

InWindow ==
    [s \in Files |-> lines[s]["answered"] + lines[s]["empty"] + lines[s]["none"]]
Answered == [s \in Files |-> lines[s]["answered"]]
Written == [s \in Files |-> InWindow[s] + lines[s]["old"]]
Size(s) == Written[s] + (IF s \in OldFiles THEN 1 ELSE 0)

(* with a request of the window in them, and with an mtime in it *)
Active == {s \in Files : InWindow[s] > 0}
Fresh == {s \in Files : Written[s] > 0}

SumOver(f, sessions) == MapThenSumSet(LAMBDA s : f[s], sessions)

(* .short: a fresh file was not parsed, or was left out *)
NoScan == [files |-> 0, requests |-> 0, responses |-> 0, empty |-> 0,
           sessions |-> {}, short |-> FALSE,
           session |-> NoSession, nonEmpty |-> 0, calls |-> 0]
NothingBefore == [requests |-> 0, active |-> {}]

TypeOK ==
    /\ lines \in [Files -> [Kinds -> Nat]]
    /\ calls \in [Files -> Nat]
    /\ pc \in {"idle", "rollout", "read", "log", "done"}
    /\ names \subseteq Files
    /\ file \in 1..(Sessions + 1)
    /\ scan \in [files : Nat, requests : Nat, responses : Nat, empty : Nat,
                 sessions : SUBSET Files, short : BOOLEAN,
                 session : Files \cup {NoSession}, nonEmpty : Nat, calls : Nat]
    /\ before \in [requests : Nat, active : SUBSET Files]
    /\ faults \in Nat

Init ==
    /\ lines = [s \in Files |-> [k \in Kinds |-> 0]]
    /\ calls = [s \in Files |-> 0]
    /\ pc = "idle"
    /\ names = {}
    /\ file = 1
    /\ scan = NoScan
    /\ before = NothingBefore
    /\ faults = 0

Fault ==
    /\ faults < MaxFaults
    /\ faults' = faults + 1

----------------------------------------------------------------------------
(* The counts.  The definitions whose names begin with Mut are bugs these  *)
(* could have: each breaks a property below.                               *)

(* _scanFile: requests from before the window are passed over; one without *)
(* a response counts as an empty response                                  *)
MutCounted(bag) ==
    [requests |-> bag["answered"] + bag["empty"] + bag["none"] + bag["old"],
     responses |-> bag["answered"] + bag["empty"] + bag["old"],
     empty |-> bag["empty"] + bag["none"]]
Counted(bag) ==
    [requests |-> bag["answered"] + bag["empty"] + bag["none"],
     responses |-> bag["answered"] + bag["empty"],
     empty |-> bag["empty"] + bag["none"]]

(* asCount: a snapshot holds no negative count *)
MutAsCount(n) == n
AsCount(n) == IF n >= 0 THEN n ELSE 0

(* a session is attributed only if the window shows no other one *)
MutAttributed(sessions) ==
    IF sessions # {} THEN CHOOSE s \in sessions : \A t \in sessions : s <= t
    ELSE NoSession
Attributed(sessions) ==
    IF Cardinality(sessions) = 1 THEN CHOOSE s \in sessions : TRUE
    ELSE NoSession

(* the session log, narrowed to the sessions of the rollout files if any *)
MutNarrowed(sessions) == Files
Narrowed(sessions) == IF sessions = {} THEN Files ELSE sessions

----------------------------------------------------------------------------
(* The scan of the rollout files *)

StartWith(listed) ==
    /\ pc = "idle"
    /\ pc' = "rollout"
    /\ names' = listed
    /\ before' = [requests |-> SumOver(InWindow, Files),
                  active   |-> Active]
    /\ UNCHANGED <<worldVars, file>>

(* readdirSync: a file that is created later is not looked at *)
Begin ==
    /\ StartWith({s \in Files : Size(s) > 0})
    /\ UNCHANGED <<scan, faults>>

(* ... it fails, and the scan is over without a file *)
BeginError ==
    /\ StartWith({})
    /\ Fault
    /\ scan' = [scan EXCEPT !.short = TRUE]

AtFile ==
    /\ pc = "rollout"
    /\ file \in names
    /\ scan.files < FilesPerScan

NextFile(found) ==
    /\ scan' = found
    /\ pc' = "rollout"
    /\ file' = file + 1
    /\ UNCHANGED <<worldVars, names, before>>

(* not among the names, *)
Unlisted ==
    /\ pc = "rollout"
    /\ file <= Sessions /\ file \notin names
    /\ NextFile(scan)
    /\ UNCHANGED faults

(* or not written since the window began, *)
PassOver ==
    /\ AtFile
    /\ file \notin Fresh
    /\ NextFile(scan)
    /\ UNCHANGED faults

(* or statSync fails: none of these is one of the files of the scan *)
StatError ==
    /\ AtFile
    /\ file \in Fresh
    /\ NextFile([scan EXCEPT !.short = TRUE])
    /\ Fault

(* A file that is not parsed is one of the scan's all the same, but the    *)
(* session in its name is not noted.                                       *)
Unparsed == NextFile([scan EXCEPT !.files = @ + 1, !.short = TRUE])

SkipLarge ==
    /\ AtFile
    /\ file \in Fresh /\ Size(file) > MaxLines
    /\ Unparsed
    /\ UNCHANGED faults

(* statSync: the file may still grow until readFileSync *)
Stat ==
    /\ AtFile
    /\ file \in Fresh /\ Size(file) <= MaxLines
    /\ pc' = "read"
    /\ UNCHANGED <<worldVars, names, file, scan, before, faults>>

ReadError ==
    /\ pc = "read"
    /\ Unparsed
    /\ Fault

(* The session in the name is noted whatever the lines are. *)
ReadFile ==
    /\ pc = "read"
    /\ LET c == Counted(lines[file]) IN
           NextFile([scan EXCEPT !.files = @ + 1,
                                 !.requests = @ + c.requests,
                                 !.responses = @ + c.responses,
                                 !.empty = @ + c.empty,
                                 !.sessions =
                                     IF Cardinality(@) < SessionsPerScan
                                     THEN @ \cup {file} ELSE @])
    /\ UNCHANGED faults

(* the scan has reached its bound: the other files are left out *)
Truncate ==
    /\ pc = "rollout"
    /\ file \in names
    /\ scan.files >= FilesPerScan
    /\ scan' = [scan EXCEPT !.short = TRUE]
    /\ file' = Sessions + 1
    /\ UNCHANGED <<worldVars, pc, names, before, faults>>

----------------------------------------------------------------------------
(* The scan of the session log, and the counts of the snapshot *)

Conclude(found) ==
    /\ pc' = "done"
    /\ scan' = [scan EXCEPT !.session = Attributed(scan.sessions),
                            !.nonEmpty = AsCount(scan.responses - scan.empty),
                            !.calls = found]
    /\ UNCHANGED <<worldVars, names, file, before>>

EndRollout ==
    /\ pc = "rollout"
    /\ file > Sessions
    /\ pc' = "log"
    /\ UNCHANGED <<worldVars, names, file, scan, before, faults>>

ReadLog ==
    /\ pc = "log"
    /\ Conclude(SumOver(calls, Narrowed(scan.sessions)))
    /\ UNCHANGED faults

(* no session log, or one too large or not readable *)
LogError ==
    /\ pc = "log"
    /\ Conclude(0)
    /\ Fault

(* The snapshot is handed over; the next observation scans anew. *)
Return ==
    /\ pc = "done"
    /\ pc' = "idle"
    /\ names' = {}
    /\ file' = 1
    /\ scan' = NoScan
    /\ before' = NothingBefore
    /\ UNCHANGED <<worldVars, faults>>

----------------------------------------------------------------------------
(* The CLI: some session, this run's or another's, appends a line *)

Append ==
    /\ SumOver(Written, Files) < MaxEntries
    /\ \E s \in Files, k \in Kinds :
           lines' = [lines EXCEPT ![s][k] = @ + 1]
    /\ UNCHANGED <<calls, pc, names, file, scan, before, faults>>

Call ==
    /\ SumOver(calls, Files) < MaxCalls
    /\ \E s \in Files : calls' = [calls EXCEPT ![s] = @ + 1]
    /\ UNCHANGED <<lines, pc, names, file, scan, before, faults>>

Next ==
    \/ Begin \/ BeginError
    \/ Unlisted \/ PassOver \/ StatError \/ SkipLarge
    \/ Stat \/ ReadError \/ ReadFile \/ Truncate
    \/ EndRollout \/ ReadLog \/ LogError \/ Return
    \/ Append \/ Call

Spec == Init /\ [][Next]_vars

----------------------------------------------------------------------------
(* Properties *)

(* The requests a snapshot counts lie between those in the window when the *)
(* scan began and those there now, unless the scan left files out: none is *)
(* counted twice, and no line from before the window.  It counts no more   *)
(* non-empty responses than there are; it may count fewer, for a request   *)
(* without a response is taken off the responses of the others.            *)
CountsAreCurrent ==
    pc = "done" =>
        /\ scan.requests <= SumOver(InWindow, Files)
        /\ scan.short \/ before.requests <= scan.requests
        /\ scan.nonEmpty <= SumOver(Answered, Files)

(* A session is attributed to the run only if no other was active in the   *)
(* window when the scan began, unless the scan left files out.             *)
SessionIsAlone ==
    pc = "done" /\ ~scan.short /\ scan.session # NoSession =>
        before.active \subseteq {scan.session}

(* The tool calls of a session that is attributed are all its own, however *)
(* much the other sessions log meanwhile: the second scan counts only for  *)
(* the sessions the first one found, even those that began in between.     *)
CallsAreItsOwn ==
    pc = "done" /\ scan.session # NoSession =>
        scan.calls <= calls[scan.session]

(* "ambiguous sessions in the window leave sessionId unattributed"         *)
(* (zcode-adapter.test.mjs:138), also if one of their files is too large.  *)
AmbiguityIsSeen ==
    pc = "done" /\ scan.session # NoSession =>
        before.active \subseteq {scan.session}
=============================================================================
