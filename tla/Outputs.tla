------------------------------ MODULE Outputs ------------------------------
(***************************************************************************)
(* The outputs of a tool's runs.  main and run of czconsole-runtool write  *)
(* <id>-<second>.output.  The results page shows what Latest of            *)
(* internal/tool/runner.go picks by mtime, the history of                  *)
(* internal/lcd/history.go sorts by the second in the name, both of the    *)
(* files that end in the spec's results.file: runtool's .output, or, with  *)
(* most tools, a file that the tool writes beside it, when it comes to     *)
(* that.  One run at a time: it has the tool's unit.                       *)
(***************************************************************************)
EXTENDS Integers, Sequences

CONSTANTS
  MaxRuns,      \* bound: runs
  MaxInstant,   \* bound: the clock
  PerSecond,    \* instants of the clock in a second
  OutEnvSets,   \* the environments to consider: sets of Vagaries
  ResultsFiles  \* the specs to consider, by whose file results.file is

(*   quick  a run may begin in the second of the one before, or at the     *)
(*          very instant of its last write                                 *)
(*   step   the clock may be set back                                      *)
Vagaries == {"quick", "step"}

ASSUME OutputsAssumption ==
  /\ {MaxRuns, MaxInstant} \subseteq Nat /\ PerSecond \in Nat \ {0}
  /\ OutEnvSets \subseteq SUBSET Vagaries
  /\ ResultsFiles \subseteq {"runtool's", "tool's"}

VARIABLES
  outEnv,    \* the environment of this behaviour
  resultsFile, \* whose file the results page and the history look for
  instant,   \* the clock
  content,   \* what the .output named after a second holds
  written,   \* its mtime; NoTime: there is no such file
  made,      \* the mtime of the tool's own file named after a second
  run,       \* the run: its number, the second in its name, what it does
  parts,     \* history: what each run wrote
  begun      \* history: the second each run began in

outVars == <<outEnv, resultsFile, instant, content, written, made, run, parts, begun>>

NoTime  == -1
Runs    == 1 .. MaxRuns
Seconds == 0 .. MaxInstant \div PerSecond
Contents == Seq(Runs \X {"command", "post"})

OutputsTypeOK ==
  /\ outEnv \in OutEnvSets /\ resultsFile \in ResultsFiles /\ instant \in 0 .. MaxInstant
  /\ content \in [Seconds -> Contents]
  /\ written \in [Seconds -> NoTime .. MaxInstant] /\ made \in [Seconds -> NoTime .. MaxInstant]
  /\ run \in [number : 0 .. MaxRuns, second : Seconds, does : {"nothing", "command", "post"}]
  /\ parts \in [Runs -> Contents] /\ begun \in [Runs -> Seconds]

OutputsInit ==
  /\ outEnv \in OutEnvSets /\ resultsFile \in ResultsFiles /\ instant = 0
  /\ content = [s \in Seconds |-> <<>>]
  /\ written = [s \in Seconds |-> NoTime] /\ made = written
  /\ run = [number |-> 0, second |-> 0, does |-> "nothing"]
  /\ parts = [r \in Runs |-> <<>>] /\ begun = [r \in Runs |-> 0]

----------------------------------------------------------------------------

Clock == /\ instant < MaxInstant /\ instant' = instant + 1
         /\ UNCHANGED <<outEnv, resultsFile, content, written, made, run, parts, begun>>

ClockStepsBack == /\ "step" \in outEnv /\ instant >= PerSecond
                  /\ instant' = instant - PerSecond
                  /\ UNCHANGED <<outEnv, resultsFile, content, written, made, run, parts, begun>>

\* The second in the file's name.
Stamp == instant \div PerSecond

\* Mutant: the post step opens the output as the command does.
OpenedByAny(step, file) == <<>>

\* run opens the file: O_TRUNC for the command, O_APPEND for the post step.
OpenedBy(step, file) == IF step = "command" THEN <<>> ELSE file

OpensOutput(step, second) ==
  /\ content' = [content EXCEPT ![second] = OpenedBy(step, @)]
  /\ written' = [written EXCEPT ![second] = IF step = "command" THEN instant ELSE @]

RunBegins ==
  /\ run.does = "nothing" /\ run.number < MaxRuns
  /\ \/ "quick" \in outEnv \/ run.number = 0
     \/ /\ Stamp # run.second
        /\ written[run.second] < instant /\ made[run.second] < instant
  /\ run' = [number |-> run.number + 1, second |-> Stamp, does |-> "command"]
  /\ begun' = [begun EXCEPT ![run.number + 1] = Stamp]
  /\ OpensOutput("command", Stamp)
  /\ UNCHANGED <<outEnv, resultsFile, instant, made, parts>>

\* What runs writes to the file; once is enough.
RunWrites ==
  LET part == <<run.number, run.does>> IN
    /\ run.does # "nothing" /\ part \notin {parts[run.number][i] : i \in DOMAIN parts[run.number]}
    /\ content' = [content EXCEPT ![run.second] = Append(@, part)]
    /\ written' = [written EXCEPT ![run.second] = instant]
    /\ parts' = [parts EXCEPT ![run.number] = Append(@, part)]
    /\ UNCHANGED <<outEnv, resultsFile, instant, made, run, begun>>

\* The tool writes to its own file, soon, late, again or never.
ToolSaves ==
  /\ run.does # "nothing" /\ resultsFile = "tool's"
  /\ made' = [made EXCEPT ![run.second] = instant]
  /\ UNCHANGED <<outEnv, resultsFile, instant, content, written, run, parts, begun>>

\* The command ends, whatever its code, and the spec has a post step to do.
PostBegins == /\ run.does = "command" /\ run' = [run EXCEPT !.does = "post"]
              /\ OpensOutput("post", run.second)
              /\ UNCHANGED <<outEnv, resultsFile, instant, made, parts, begun>>

\* It has none, the post step ends, or the unit is stopped.
RunEnds == /\ run.does # "nothing" /\ run' = [run EXCEPT !.does = "nothing"]
           /\ UNCHANGED <<outEnv, resultsFile, instant, content, written, made, parts, begun>>

OutputsNext ==
  Clock \/ ClockStepsBack \/ RunBegins \/ RunWrites \/ ToolSaves \/ PostBegins \/ RunEnds

OutputsSpec == OutputsInit /\ [][OutputsNext]_outVars

----------------------------------------------------------------------------
(* Properties.                                                             *)

\* The mtime of the results file of a second, and the seconds that have one.
ResultsTime(s) == IF resultsFile = "runtool's" THEN written[s] ELSE made[s]
There == {s \in Seconds : ResultsTime(s) # NoTime}

\* Runner.Latest: of the files, in the order of their names, the first of the
\* greatest mtime.
LatestOutput == CHOOSE s \in There :
  \A t \in There : \/ ResultsTime(t) < ResultsTime(s)
                   \/ ResultsTime(t) = ResultsTime(s) /\ s <= t

\* HistoryScreen.load: the names in descending order; the first row.
TopOfHistory == CHOOSE s \in There : \A t \in There : t <= s

HasResults(r) == begun[r] \in There

\* Of the runs that have come to a results file, the last.
LastWithResults(r) ==
  HasResults(r) /\ \A q \in 1 .. run.number : HasResults(q) => q <= r

\* If the clock is not set back, and a run begins in another second than the
\* one before: a run's .output is what it wrote and stays so, and the last run
\* that has a results file is what the results page shows and the history has
\* on top.  Every run has one if that file is the .output.
RunsKept ==
  outEnv = {} =>
    \A r \in 1 .. run.number :
      /\ content[begun[r]] = parts[r]
      /\ resultsFile = "runtool's" => HasResults(r)
      /\ LastWithResults(r) => LatestOutput = begun[r] /\ TopOfHistory = begun[r]
============================================================================
