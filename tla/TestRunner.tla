------------------------------ MODULE TestRunner ------------------------------
(* node:test (builtin/test.js): describe() collects tests and nested suites,  *)
(* executeSuite runs them one after the other or all at once, and the harness *)
(* awaits what is pending (_awaitPendingTests) after the file has run.  A     *)
(* skipped or todo test counts as one that passes.  Bound: a test's body      *)
(* calls neither test() nor describe(), and every test and suite is           *)
(* registered once.                                                           *)
EXTENDS Naturals, FiniteSets, Sequences, SequencesExt

CONSTANTS Tests, Suites, None

VARIABLES
    concurrent,     \* the suites with { concurrency: true }
    file,           \* the test file: running, then what the harness does
    stack,          \* runSuite and executeSuite calls under way, outermost first
    currentSuite,
    tests,          \* the tests and suites registered in each suite
    idx,            \* number of them that runNext has started
    waits,          \* the promise that a suite's runNext awaits
    outcome,        \* of every test and suite; of its promise, if it returned one
    failures,       \* the suites with failures > 0
    finalized,      \* the suites whose after hooks have run
    pending,        \* _pendingTestPromises
    batch           \* those that _awaitPendingTests awaits

vars == <<concurrent, file, stack, currentSuite, tests, idx, waits, outcome, failures,
          finalized, pending, batch>>
suiteVars == <<tests, idx, waits, failures, finalized>>
harnessVars == <<file, batch>>

Entries == Tests \cup Suites
Settled == {"pass", "fail", "rejected"}

Top == Last(stack)
Running(at) == stack # <<>> /\ Top.at = at
Becomes(at) == [stack EXCEPT ![Len(stack)].at = at]

TypeOK ==
    /\ concurrent \subseteq Suites
    /\ file \in {"running", "awaiting", "passed", "failed"}
    /\ stack \in Seq([at : {"discover", "before", "run", "async", "pass", "fail"},
                      of : Suites, prev : Suites \cup {None}])
    /\ currentSuite \in Suites \cup {None}
    /\ tests \in [Suites -> Seq(Entries)] /\ \A s \in Suites : idx[s] \in 0 .. Len(tests[s])
    /\ waits \in [Suites -> Entries \cup {None}]
    /\ outcome \in [Entries -> {"none", "registered", "discovering", "pending"} \cup Settled]
    /\ failures \subseteq Suites /\ finalized \subseteq Suites
    /\ pending \subseteq Entries /\ batch \subseteq Entries

Init ==
    /\ concurrent \in SUBSET Suites
    /\ file = "running" /\ stack = <<>> /\ currentSuite = None
    /\ tests = [s \in Suites |-> <<>>] /\ idx = [s \in Suites |-> 0]
    /\ waits = [s \in Suites |-> None] /\ outcome = [x \in Entries |-> "none"]
    /\ failures = {} /\ finalized = {} /\ pending = {} /\ batch = {}

-----------------------------------------------------------------------------
(* test() and describe(), called by the file, by the callback of describe()   *)
(* or, after an await, by what is left of an async callback.                  *)

CodeRuns ==
    \/ Running("discover")
    \/ stack = <<>> /\ (file = "running" \/ \E s \in Suites : outcome[s] = "discovering")

\* Inside a suite, a test or a nested suite is registered for later.
Register(x) ==
    /\ CodeRuns /\ outcome[x] = "none" /\ currentSuite # None
    /\ tests' = [tests EXCEPT ![currentSuite] = Append(@, x)]
    /\ outcome' = [outcome EXCEPT ![x] = "registered"]
    /\ UNCHANGED <<concurrent, harnessVars, stack, currentSuite, idx, waits, failures,
                   finalized, pending>>

\* runTest: the body, its hooks and its plan; r is "async" for a body that
\* returned a promise or takes a done callback.
TestReturns(t, r) == outcome' = [outcome EXCEPT ![t] = IF r = "async" THEN "pending" ELSE r]

\* A test at the top of the file runs at once, and test() throws if it fails.
TestNow(t) ==
    /\ file = "running" /\ stack = <<>> /\ outcome[t] = "none" /\ currentSuite = None
    /\ \E r \in {"pass", "fail", "async"} :
        /\ TestReturns(t, r)
        /\ pending' = IF r = "async" THEN pending \cup {t} ELSE pending
        /\ file' = IF r = "fail" THEN "failed" ELSE file
    /\ UNCHANGED <<concurrent, batch, stack, currentSuite, suiteVars>>

RunSuite(s) ==
    /\ stack' = Append(stack, [at |-> "discover", of |-> s, prev |-> currentSuite])
    /\ currentSuite' = s

SuiteNow(s) ==
    /\ file = "running" /\ stack = <<>> /\ outcome[s] = "none" /\ currentSuite = None
    /\ RunSuite(s)
    /\ outcome' = [outcome EXCEPT ![s] = "registered"]
    /\ UNCHANGED <<concurrent, harnessVars, suiteVars, pending>>

-----------------------------------------------------------------------------
(* runSuite: the callback of describe() returns, throws or returns a promise. *)

CallbackReturns ==
    /\ Running("discover")
    /\ currentSuite' = Top.prev
    /\ \E at \in {"before", "fail"} : stack' = Becomes(at)
    /\ UNCHANGED <<concurrent, harnessVars, suiteVars, outcome, pending>>

\* The suite is not executed, and currentSuite is not restored.
CallbackReturnsPromise ==
    /\ Running("discover")
    /\ outcome' = [outcome EXCEPT ![Top.of] = "discovering"]
    /\ stack' = Becomes("async")
    /\ UNCHANGED <<concurrent, harnessVars, currentSuite, suiteVars, pending>>

AsyncCallbackEnds(s) ==
    /\ stack = <<>> /\ outcome[s] = "discovering"
    /\ \E r \in {"pass", "rejected"} : outcome' = [outcome EXCEPT ![s] = r]
    /\ UNCHANGED <<concurrent, harnessVars, stack, currentSuite, suiteVars, pending>>

-----------------------------------------------------------------------------
(* executeSuite.                                                              *)

BeforeHooks ==
    /\ Running("before")
    /\ \E at \in {"run", "fail"} : stack' = Becomes(at)
    /\ UNCHANGED <<concurrent, harnessVars, currentSuite, suiteVars, outcome, pending>>

\* Faulty variant: an awaited promise does not suspend the suite.
ResultWithoutAwait(p, x, r, calls) ==
    /\ failures' = IF r = "fail" THEN failures \cup {p} ELSE failures
    /\ pending' = IF r = "async" THEN pending \cup {x} ELSE pending
    /\ stack' = calls /\ UNCHANGED waits

\* runNext of suite p, on top of calls, gets the result of its entry x.
Result(p, x, r, calls) ==
    LET suspends == r = "async" /\ p \notin concurrent
    IN  /\ failures' = IF r = "fail" THEN failures \cup {p} ELSE failures
        /\ pending' = IF r = "async" /\ ~suspends THEN pending \cup {x} ELSE pending
        /\ waits' = IF suspends THEN [waits EXCEPT ![p] = x] ELSE waits
        /\ stack' = IF suspends THEN [calls EXCEPT ![Len(calls)].at = "async"] ELSE calls

StartEntry ==
    /\ Running("run")
    /\ idx[Top.of] < Len(tests[Top.of])
    /\ idx' = [idx EXCEPT ![Top.of] = @ + 1]

RunNextTest ==
    /\ StartEntry
    /\ LET t == tests[Top.of][idx'[Top.of]]
       IN  /\ t \in Tests
           /\ \E r \in {"pass", "fail", "async"} :
                TestReturns(t, r) /\ Result(Top.of, t, r, stack)
    /\ UNCHANGED <<concurrent, harnessVars, currentSuite, tests, finalized>>

RunNextSuite ==
    /\ StartEntry
    /\ LET s == tests[Top.of][idx'[Top.of]] IN s \in Suites /\ RunSuite(s)
    /\ UNCHANGED <<concurrent, harnessVars, tests, waits, outcome, failures, finalized, pending>>

\* finalize(): the after hooks, which may throw too.
Finalize ==
    /\ Running("run")
    /\ idx[Top.of] = Len(tests[Top.of])
    /\ finalized' = finalized \cup {Top.of}
    /\ \E threw \in BOOLEAN :
        stack' = Becomes(IF threw \/ Top.of \in failures THEN "fail" ELSE "pass")
    /\ UNCHANGED <<concurrent, harnessVars, currentSuite, tests, idx, waits, outcome, failures,
                   pending>>

\* What runNext, executeSuite or runSuite returns settles the promise of a suite
\* that was suspended, or goes to describe() or to the runNext of the parent.
Returns ==
    /\ \E at \in {"async", "pass", "fail"} : Running(at)
    /\ LET s == Top.of
           r == Top.at
           calls == Front(stack)
           suspended == outcome[s] = "pending"
       IN  /\ outcome' = [outcome EXCEPT ![s] =
                    IF r # "async" THEN r ELSE IF @ = "discovering" THEN @ ELSE "pending"]
           /\ IF suspended \/ calls = <<>>
              THEN /\ stack' = calls /\ UNCHANGED <<waits, failures>>
                   /\ pending' = IF r = "async" /\ ~suspended THEN pending \cup {s} ELSE pending
                   /\ file' = IF r = "fail" /\ ~suspended THEN "failed" ELSE file
              ELSE Result(Last(calls).of, s, r, calls) /\ UNCHANGED file
    /\ UNCHANGED <<concurrent, batch, currentSuite, tests, idx, finalized>>

-----------------------------------------------------------------------------
(* Promises: a pending test ends, and the runNext that awaits it goes on.     *)

\* It is rejected when the body succeeded but its plan or an afterEach hook fails.
TestSettles(t) ==
    /\ stack = <<>> /\ outcome[t] = "pending"
    /\ \E r \in Settled : outcome' = [outcome EXCEPT ![t] = r]
    /\ UNCHANGED <<concurrent, harnessVars, stack, currentSuite, suiteVars, pending>>

\* Faulty variant: a test that failed ends its suite.
SuiteGoesOnAfterPass(p) ==
    /\ stack = <<>> /\ waits[p] # None /\ outcome[waits[p]] = "pass"
    /\ waits' = [waits EXCEPT ![p] = None]
    /\ stack' = <<[at |-> "run", of |-> p, prev |-> None]>>
    /\ UNCHANGED <<concurrent, harnessVars, currentSuite, tests, idx, outcome, failures,
                   finalized, pending>>

SuiteGoesOn(p) ==
    /\ stack = <<>> /\ waits[p] # None /\ outcome[waits[p]] \in {"pass", "fail"}
    /\ failures' = IF outcome[waits[p]] = "fail" THEN failures \cup {p} ELSE failures
    /\ waits' = [waits EXCEPT ![p] = None]
    /\ stack' = <<[at |-> "run", of |-> p, prev |-> None]>>
    /\ UNCHANGED <<concurrent, harnessVars, currentSuite, tests, idx, outcome, finalized, pending>>

\* The chain has no handler for a rejection.
SuiteBreaks(p) ==
    /\ stack = <<>> /\ waits[p] # None /\ outcome[waits[p]] = "rejected"
    /\ waits' = [waits EXCEPT ![p] = None]
    /\ outcome' = [outcome EXCEPT ![p] = "rejected"]
    /\ UNCHANGED <<concurrent, harnessVars, stack, currentSuite, tests, idx, failures, finalized,
                   pending>>

-----------------------------------------------------------------------------
(* The harness: _awaitPendingTests, once the file has run.                    *)

FileEnds ==
    /\ file = "running" /\ stack = <<>>
    /\ file' = "awaiting"
    /\ UNCHANGED <<concurrent, batch, stack, currentSuite, suiteVars, outcome, pending>>

BatchPassed == \A x \in batch : outcome[x] = "pass"

\* Faulty variant: what became pending meanwhile is not awaited.
AwaitsOnce ==
    /\ file = "awaiting" /\ stack = <<>> /\ BatchPassed
    /\ batch' = pending /\ pending' = {}
    /\ file' = IF batch # {} \/ pending = {} THEN "passed" ELSE file
    /\ UNCHANGED <<concurrent, stack, currentSuite, suiteVars, outcome>>

AwaitsNext ==
    /\ file = "awaiting" /\ stack = <<>> /\ BatchPassed
    /\ batch' = pending /\ pending' = {}
    /\ file' = IF pending = {} THEN "passed" ELSE file
    /\ UNCHANGED <<concurrent, stack, currentSuite, suiteVars, outcome>>

AwaitFails ==
    /\ file = "awaiting" /\ stack = <<>>
    /\ \E x \in batch : outcome[x] \in {"fail", "rejected"}
    /\ file' = "failed"
    /\ UNCHANGED <<concurrent, batch, stack, currentSuite, suiteVars, outcome, pending>>

Calls == CallbackReturns \/ BeforeHooks \/ RunNextTest \/ RunNextSuite \/ Finalize \/ Returns

\* What goes on by itself.
Job ==
    \/ Calls \/ FileEnds \/ AwaitsNext \/ AwaitFails
    \/ \E t \in Tests : TestSettles(t)
    \/ \E s \in Suites : AsyncCallbackEnds(s) \/ SuiteGoesOn(s) \/ SuiteBreaks(s)

Next ==
    \/ \E x \in Entries : Register(x)
    \/ \E t \in Tests : TestNow(t)
    \/ \E s \in Suites : SuiteNow(s)
    \/ CallbackReturnsPromise \/ Job

Spec == Init /\ [][Next]_vars

\* The file, its callbacks and its tests end, and the jobs of the promises run: as long
\* as there is one, some job does.
FairSpec == Spec /\ WF_vars(Job)

-----------------------------------------------------------------------------
\* The harness passes a file only when no test or suite of it that was started
\* has failed or has not ended, whoever awaited it, and however late it began.
PassMeansPassed ==
    file = "passed" => \A x \in Entries : outcome[x] \in {"none", "registered", "pass"}

\* A sequential suite runs its tests and suites one at a time, in the order of
\* their registration, and its after hooks when the last of them has ended.
SequentialInOrder ==
    /\ TypeOK
    /\ \A s \in Suites \ concurrent :
        \A i \in 1 .. Len(tests[s]) :
            /\ i < idx[s] \/ s \in finalized => outcome[tests[s][i]] \in Settled
            /\ i > idx[s] => outcome[tests[s][i]] = "registered"

\* What passes has passed, and in order.
TestsPassInOrder == PassMeansPassed /\ SequentialInOrder

\* The harness gives its answer: no chain of promises that it awaits gets stuck.
HarnessAnswers == file = "awaiting" ~> file \in {"passed", "failed"}

\* "Run after hooks (always, even on failure)": the after hooks of a suite that
\* started its tests have run when its promise is settled.
AfterHooksAlwaysRun ==
    \A s \in Suites : idx[s] > 0 /\ outcome[s] \in Settled => s \in finalized
=============================================================================
