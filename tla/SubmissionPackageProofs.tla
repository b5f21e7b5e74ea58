---------------------- MODULE SubmissionPackageProofs ----------------------
(***************************************************************************)
(* Theorems about SubmissionPackage: however many runs there are, however  *)
(* many executions overlap and wherever they fail, the database names only *)
(* what is there, and a submission is made once and stands.                *)
(***************************************************************************)
EXTENDS SubmissionPackage, TLAPS

\* The package with this id was made for run r.
Made(id, r) == \E p \in packages : p.id = id /\ p.request = r

\* What an outcome says of the tables.
Told(outcome) ==
    /\ outcome \in Outcome
    /\ outcome = "SUCCESS" => \E a \in attempts : a.outcome = "SUCCESS"
    /\ outcome = "UNSUPPORTED_WORKFLOW" => fallbacks # {}

Live(x) == execution[x].step \notin {"unused", "done"}

\* What an execution has done already, and what it is about to answer.
ExecutionIsSound(x) ==
    /\ At(x, "package", "put_manifest") => DocumentOf(x) \in objects
    /\ At(x, "package", "insert") => DocumentOf(x) \in objects /\ ManifestOf(x) \in objects
    /\ At(x, "package", "answer") => Made(execution[x].package, execution[x].run)
    /\ Live(x) /\ execution[x].activity = "submit" =>
          Made(execution[x].package, execution[x].run)
    /\ At(x, "submit", "commit") /\ ~fallback => ReceiptOf(x) \in objects
    /\ At(x, "submit", "answer") => Told(execution[x].outcome)

ExecutionsAreSound == \A x \in Execution : ExecutionIsSound(x)

Holds(x) == \E step \in {"put_receipt", "commit"} : At(x, "submit", step)

\* One execution at a time has inserted its attempt and not committed, and only
\* while there is none.
LockExcludes ==
    /\ \A x, y \in Execution : Holds(x) /\ Holds(y) => x = y
    /\ Locked => attempts = {}

AttemptsAreSound ==
    /\ \A a, b \in attempts : a = b
    /\ \A a \in attempts : a.outcome = "SUCCESS" => a.receipt \in evidence
    /\ \A a \in attempts : a.outcome = "UNSUPPORTED_WORKFLOW" => fallbacks # {}

\* What the run knows, and that the execution awaited is its own.
RunIsSound ==
    /\ stage = "submit" => Made(package_id, run)
    /\ stage = "SUBMITTED" => \E a \in attempts : a.outcome = "SUCCESS"
    /\ stage = "MANUAL_SUBMISSION_REQUIRED" => fallbacks # {}
    /\ \A x \in Execution : x = awaited =>
          /\ Asks
          /\ Live(x) => execution[x].activity = stage /\ execution[x].run = run

Inductive ==
    /\ TypeOK
    /\ NothingDangles
    /\ MovedCasesAreProven
    /\ ExecutionsAreSound
    /\ LockExcludes
    /\ AttemptsAreSound
    /\ RunIsSound

-----------------------------------------------------------------------------
(***************************************************************************)
(* How an execution changes.                                               *)
(***************************************************************************)
Steps == {"find", "put_document", "put_manifest", "insert", "lock", "put_receipt",
          "commit", "reload", "record_failure", "answer"}

Working ==
    [step : Steps, activity : {"package", "submit"}, run : Nat,
     package : Execution \cup {None}, outcome : Outcome \cup {None}]

\* An execution under way is at work on a run.
LEMMA LiveType ==
    ASSUME TypeOK, NEW x \in Execution, Live(x)
    PROVE  execution[x] \in Working
<1>1. execution[x] \in ExecutionState /\ execution[x] \notin {Unused, Done}
  BY DEF TypeOK, Live, Unused, Done
<1> QED
  BY <1>1 DEF ExecutionState, Working, Steps

\* And stays so with what it is given.
LEMMA WorkType ==
    ASSUME TypeOK, NEW x \in Execution, NEW w \in Working,
           execution' = [execution EXCEPT ![x] = w]
    PROVE  /\ execution' \in [Execution -> ExecutionState]
           /\ execution'[x] = w
           /\ \A y \in Execution \ {x} : execution'[y] = execution[y]
<1>1. w \in ExecutionState
  BY DEF ExecutionState, Working, Steps
<1> QED
  BY <1>1 DEF TypeOK

\* An execution goes on to another step.
LEMMA GoType ==
    ASSUME TypeOK, NEW x \in Execution, Live(x), NEW step \in Steps, Go(x, step)
    PROVE  /\ execution' \in [Execution -> ExecutionState]
           /\ execution'[x].step = step
           /\ execution'[x].activity = execution[x].activity
           /\ execution'[x].run = execution[x].run
           /\ execution'[x].package = execution[x].package
           /\ \A y \in Execution \ {x} : execution'[y] = execution[y]
<1>1. execution[x] \in Working
  BY LiveType
<1>2. [execution[x] EXCEPT !.step = step] \in Working
  BY <1>1 DEF Working
<1>3. execution' = [execution EXCEPT ![x] = [execution[x] EXCEPT !.step = step]]
  BY DEF Go
<1> QED
  BY <1>1, <1>2, <1>3, WorkType DEF Working

\* An execution of the package activity has its answer.
LEMMA AnswerPackageType ==
    ASSUME TypeOK, NEW x \in Execution, Live(x), NEW id \in Execution,
           AnswerPackage(x, id)
    PROVE  /\ execution' \in [Execution -> ExecutionState]
           /\ execution'[x].step = "answer"
           /\ execution'[x].activity = execution[x].activity
           /\ execution'[x].run = execution[x].run
           /\ execution'[x].package = id
           /\ \A y \in Execution \ {x} : execution'[y] = execution[y]
<1> DEFINE w == [execution[x] EXCEPT !.step = "answer", !.package = id]
<1>1. execution[x] \in Working
  BY LiveType
<1>2. w \in Working
  BY <1>1 DEF Working, Steps
<1>3. execution' = [execution EXCEPT ![x] = w]
  BY DEF AnswerPackage
<1> QED
  BY <1>1, <1>2, <1>3, WorkType DEF Working

\* And one of the adapter.
LEMMA AnswerOutcomeType ==
    ASSUME TypeOK, NEW x \in Execution, Live(x), NEW outcome \in Outcome,
           AnswerOutcome(x, outcome)
    PROVE  /\ execution' \in [Execution -> ExecutionState]
           /\ execution'[x].step = "answer"
           /\ execution'[x].activity = execution[x].activity
           /\ execution'[x].run = execution[x].run
           /\ execution'[x].package = execution[x].package
           /\ execution'[x].outcome = outcome
           /\ \A y \in Execution \ {x} : execution'[y] = execution[y]
<1> DEFINE w == [execution[x] EXCEPT !.step = "answer", !.outcome = outcome]
<1>1. execution[x] \in Working
  BY LiveType
<1>2. w \in Working
  BY <1>1 DEF Working, Steps
<1>3. execution' = [execution EXCEPT ![x] = w]
  BY DEF AnswerOutcome
<1> QED
  BY <1>1, <1>2, <1>3, WorkType DEF Working

\* An execution ends.
LEMMA EndType ==
    ASSUME TypeOK, NEW x \in Execution, execution' = [execution EXCEPT ![x] = Done]
    PROVE  /\ execution' \in [Execution -> ExecutionState]
           /\ execution'[x].step = "done"
           /\ \A y \in Execution \ {x} : execution'[y] = execution[y]
BY DEF TypeOK, ExecutionState, Done

-----------------------------------------------------------------------------
(***************************************************************************)
(* What one execution does leaves the others sound.                        *)
(***************************************************************************)
TablesGrow ==
    /\ packages \subseteq packages'
    /\ evidence \subseteq evidence'
    /\ objects \subseteq objects'
    /\ fallbacks \subseteq fallbacks'
    /\ \A a \in attempts : a.outcome = "SUCCESS" => a \in attempts'

\* What was true of the tables for an execution that did nothing still is.
LEMMA OthersStaySound ==
    ASSUME TablesGrow, fallback' = fallback, NEW y \in Execution,
           execution'[y] = execution[y], ExecutionIsSound(y)
    PROVE  ExecutionIsSound(y)'
BY DEF TablesGrow, ExecutionIsSound, At, Live, Made, Told

\* A submission is an attempt with outcome SUCCESS.
LEMMA StatusOfSuccess ==
    ASSUME NEW o \in Outcome
    PROVE  StatusOf[o] = "SUBMITTED" <=> o = "SUCCESS"
BY DEF StatusOf, Outcome

\* A step of execution x that keeps its own facts keeps the invariant.
LEMMA StepPreserves ==
    ASSUME Inductive, TypeOK', NothingDangles', AttemptsAreSound', TablesGrow,
           NEW x \in Execution,
           \A y \in Execution \ {x} : execution'[y] = execution[y],
           ExecutionIsSound(x)',
           Live(x)' => /\ Live(x)
                       /\ execution'[x].activity = execution[x].activity
                       /\ execution'[x].run = execution[x].run,
           Holds(x)' => Holds(x) \/ (~Locked /\ attempts = {}),
           attempts' # {} => attempts # {} \/ (Holds(x) /\ ~Holds(x)'),
           case_state' \in {case_state, "DOCUMENT_COMPLETE"},
           UNCHANGED <<fallback, runVars, awaited>>
    PROVE  Inductive'
<1> USE DEF Inductive
<1>1. MovedCasesAreProven'
  BY StatusOfSuccess DEF MovedCasesAreProven, TablesGrow, AttemptsAreSound, TypeOK, Attempt
<1>2. ExecutionsAreSound'
  BY OthersStaySound DEF ExecutionsAreSound
<1>3. \A y \in Execution \ {x} : Holds(y)' <=> Holds(y)
  BY DEF Holds, At
<1>4. Locked <=> \E y \in Execution : Holds(y)
  BY DEF Locked, Holds
<1>5. Locked' <=> \E y \in Execution : Holds(y)'
  BY DEF Locked, Holds
<1>6. LockExcludes'
  <2>1. \A y, z \in Execution : Holds(y)' /\ Holds(z)' => y = z
    BY <1>3, <1>4 DEF LockExcludes
  <2>2. ASSUME NEW y \in Execution, Holds(y)' PROVE attempts' = {}
    <3>1. CASE y = x
      BY <2>2, <3>1, <1>4 DEF LockExcludes
    <3>2. CASE y # x
      BY <2>2, <3>2, <1>3, <1>4 DEF LockExcludes
    <3> QED
      BY <3>1, <3>2
  <2> QED
    BY <2>1, <2>2, <1>5 DEF LockExcludes
<1>7. RunIsSound'
  <2>1. stage = "submit" => Made(package_id, run)'
    BY DEF RunIsSound, Made, TablesGrow, runVars
  <2>2. stage = "SUBMITTED" => \E a \in attempts' : a.outcome = "SUCCESS"
    BY DEF RunIsSound, TablesGrow
  <2>3. stage = "MANUAL_SUBMISSION_REQUIRED" => fallbacks' # {}
    BY DEF RunIsSound, TablesGrow
  <2>4. ASSUME NEW y \in Execution, y = awaited
        PROVE  Asks /\ (Live(y)' => execution'[y].activity = stage /\ execution'[y].run = run)
    BY <2>4 DEF RunIsSound, Live
  <2> QED
    BY <2>1, <2>2, <2>3, <2>4 DEF RunIsSound, Asks, runVars
<1> QED
  BY <1>1, <1>2, <1>6, <1>7

\* A step that writes nothing.
LEMMA QuietPreserves ==
    ASSUME Inductive, NEW x \in Execution,
           execution' \in [Execution -> ExecutionState],
           \A y \in Execution \ {x} : execution'[y] = execution[y],
           ExecutionIsSound(x)',
           Live(x)' => /\ Live(x)
                       /\ execution'[x].activity = execution[x].activity
                       /\ execution'[x].run = execution[x].run,
           Holds(x)' => Holds(x) \/ (~Locked /\ attempts = {}),
           failures' \in Nat, UNCHANGED <<caseVars, runVars, awaited, tableVars>>
    PROVE  Inductive'
<1>1. TypeOK'
  BY DEF Inductive, TypeOK, caseVars, runVars, tableVars
<1>2. NothingDangles' /\ AttemptsAreSound' /\ TablesGrow
  BY DEF Inductive, NothingDangles, AttemptsAreSound, TablesGrow, tableVars, caseVars
<1>3. case_state' = case_state /\ fallback' = fallback /\ attempts' = attempts
  BY DEF caseVars, tableVars
<1> QED
  BY <1>1, <1>2, <1>3, StepPreserves

\* An object is stored.
LEMMA PutPreserves ==
    ASSUME Inductive, NEW x \in Execution, Live(x), NEW step \in Steps, Go(x, step),
           NEW object \in Artifact, objects' = objects \cup {object},
           ExecutionIsSound(x)', Holds(x)' => Holds(x),
           UNCHANGED <<caseVars, runVars, awaited, failures, packageTables, evidence,
                       attempts, fallbacks>>
    PROVE  Inductive'
<1>1. /\ execution' \in [Execution -> ExecutionState]
      /\ execution'[x].activity = execution[x].activity
      /\ execution'[x].run = execution[x].run
      /\ \A y \in Execution \ {x} : execution'[y] = execution[y]
  BY GoType DEF Inductive
<1>2. TypeOK'
  BY <1>1 DEF Inductive, TypeOK, caseVars, runVars, packageTables
<1>3. NothingDangles' /\ AttemptsAreSound' /\ TablesGrow
  BY DEF Inductive, NothingDangles, AttemptsAreSound, TablesGrow, packageTables, caseVars
<1>4. case_state' = case_state /\ fallback' = fallback
  BY DEF caseVars
<1> QED
  BY <1>1, <1>2, <1>3, <1>4, StepPreserves

-----------------------------------------------------------------------------
(***************************************************************************)
(* persist_submission_package.                                             *)
(***************************************************************************)
\* The answer of a package activity that finds one is a package of its run.
LEMMA FindPackagePreserves ==
    ASSUME Inductive, NEW x \in Execution, FindPackage(x)
    PROVE  Inductive'
<1>1. Live(x) /\ execution[x].activity = "package"
  BY DEF FindPackage, At, Live
<1>2. CASE PackagesOf(execution[x].run) = {}
  <2>1. Go(x, "put_document")
    BY <1>2 DEF FindPackage
  <2>2. /\ execution' \in [Execution -> ExecutionState]
        /\ execution'[x].step = "put_document"
        /\ execution'[x].activity = execution[x].activity
        /\ execution'[x].run = execution[x].run
        /\ \A y \in Execution \ {x} : execution'[y] = execution[y]
    BY <1>1, <2>1, GoType DEF Inductive, Steps
  <2>3. ExecutionIsSound(x)' /\ ~Holds(x)'
    BY <1>1, <2>2 DEF ExecutionIsSound, Holds, At
  <2> QED
    BY <1>1, <2>2, <2>3, QuietPreserves DEF FindPackage, Inductive, TypeOK
<1>3. CASE PackagesOf(execution[x].run) # {}
  <2>1. PICK p \in PackagesOf(execution[x].run) : AnswerPackage(x, p.id)
    BY <1>3 DEF FindPackage
  <2>2. p \in packages /\ p.request = execution[x].run /\ p.id \in Execution
    BY DEF PackagesOf, Inductive, TypeOK, Package
  <2>3. /\ execution' \in [Execution -> ExecutionState]
        /\ execution'[x].step = "answer"
        /\ execution'[x].activity = execution[x].activity
        /\ execution'[x].run = execution[x].run
        /\ execution'[x].package = p.id
        /\ \A y \in Execution \ {x} : execution'[y] = execution[y]
    BY <1>1, <2>1, <2>2, AnswerPackageType DEF Inductive
  <2>4. ExecutionIsSound(x)' /\ ~Holds(x)'
    BY <1>1, <2>2, <2>3 DEF ExecutionIsSound, Holds, At, Made, FindPackage, tableVars
  <2> QED
    BY <1>1, <2>3, <2>4, QuietPreserves DEF FindPackage, Inductive, TypeOK
<1> QED
  BY <1>2, <1>3

\* The document is stored before the manifest.
LEMMA PutDocumentPreserves ==
    ASSUME Inductive, NEW x \in Execution, PutDocument(x)
    PROVE  Inductive'
<1>1. Live(x) /\ execution[x].activity = "package" /\ Go(x, "put_manifest")
  BY DEF PutDocument, At, Live
<1>2. execution'[x].step = "put_manifest" /\ execution'[x].activity = "package"
  BY <1>1, GoType DEF Inductive, Steps
<1>3. ExecutionIsSound(x)' /\ ~Holds(x)'
  BY <1>2 DEF ExecutionIsSound, Holds, At, PutDocument
<1> QED
  BY <1>1, <1>3, PutPreserves DEF PutDocument, DocumentOf, Artifact, Steps

\* And both before the rows that name them.
LEMMA PutManifestPreserves ==
    ASSUME Inductive, NEW x \in Execution, PutManifest(x)
    PROVE  Inductive'
<1>1. Live(x) /\ execution[x].activity = "package" /\ Go(x, "insert")
  BY DEF PutManifest, At, Live
<1>2. execution'[x].step = "insert" /\ execution'[x].activity = "package"
  BY <1>1, GoType DEF Inductive, Steps
<1>3. DocumentOf(x) \in objects
  BY DEF Inductive, ExecutionsAreSound, ExecutionIsSound, PutManifest
<1>4. ExecutionIsSound(x)' /\ ~Holds(x)'
  BY <1>2, <1>3 DEF ExecutionIsSound, Holds, At, PutManifest
<1> QED
  BY <1>1, <1>4, PutPreserves DEF PutManifest, ManifestOf, Artifact, Steps

\* The rows a package's transaction adds name each other and stored objects.
LEMMA InsertPackagePreserves ==
    ASSUME Inductive, NEW x \in Execution, InsertPackage(x)
    PROVE  Inductive'
<1> DEFINE p == [id |-> x, request |-> execution[x].run, manifest |-> ManifestOf(x)]
<1>1. Live(x) /\ execution[x].activity = "package" /\ AnswerPackage(x, x)
  BY DEF InsertPackage, At, Live
<1>2. /\ execution' \in [Execution -> ExecutionState]
      /\ execution'[x].step = "answer"
      /\ execution'[x].activity = execution[x].activity
      /\ execution'[x].run = execution[x].run
      /\ execution'[x].package = x
      /\ \A y \in Execution \ {x} : execution'[y] = execution[y]
  BY <1>1, AnswerPackageType DEF Inductive
<1>3. /\ packages' = packages \cup {p}
      /\ documents' = documents \cup {<<x, DocumentOf(x)>>}
      /\ evidence' = evidence \cup {ManifestOf(x), DocumentOf(x)}
      /\ current_package' = x
      /\ UNCHANGED <<fallback, runVars, awaited, failures, objects, attempts, fallbacks>>
  BY DEF InsertPackage, InsertRows
<1>4. p \in packages' /\ p.id = x /\ p.request = execution[x].run
  BY <1>3
<1>5. DocumentOf(x) \in objects /\ ManifestOf(x) \in objects
  BY DEF Inductive, ExecutionsAreSound, ExecutionIsSound, InsertPackage
<1>6. p \in Package /\ ManifestOf(x) \in Artifact /\ DocumentOf(x) \in Artifact
  BY <1>1, LiveType DEF Inductive, Working, Package, ManifestOf, DocumentOf, Artifact
<1>7. case_state' \in {case_state, "DOCUMENT_COMPLETE"}
  BY DEF InsertPackage
<1>8. TypeOK'
  BY <1>2, <1>3, <1>6, <1>7 DEF Inductive, TypeOK, CaseState, runVars
<1>9. NothingDangles'
  <2>1. evidence' \subseteq objects'
    BY <1>3, <1>5 DEF Inductive, NothingDangles
  <2>2. ASSUME NEW q \in packages'
        PROVE  q.manifest \in evidence' /\ \E d \in documents' : d[1] = q.id /\ d[2] \in evidence'
    <3>1. CASE q \in packages
      BY <1>3, <3>1 DEF Inductive, NothingDangles
    <3>2. CASE q = p
      <4>1. <<x, DocumentOf(x)>> \in documents' /\ DocumentOf(x) \in evidence'
        BY <1>3
      <4> QED
        BY <1>3, <3>2, <4>1
    <3> QED
      BY <1>3, <3>1, <3>2
  <2>3. \A a \in attempts' :
            /\ \E q \in packages' : q.id = a.package /\ q.request = a.id
            /\ a.receipt # None => a.receipt \in evidence'
    BY <1>3 DEF Inductive, NothingDangles
  <2>4. \E q \in packages' : q.id = current_package'
    BY <1>3, <1>4
  <2> QED
    BY <2>1, <2>2, <2>3, <2>4 DEF NothingDangles
<1>10. AttemptsAreSound' /\ TablesGrow
  BY <1>3 DEF Inductive, AttemptsAreSound, TablesGrow
<1>11. ExecutionIsSound(x)' /\ ~Holds(x)'
  <2>1. Made(x, execution[x].run)'
    BY <1>2, <1>4 DEF Made
  <2> QED
    BY <1>1, <1>2, <2>1 DEF ExecutionIsSound, Holds, At, Made
<1> QED
  BY <1>1, <1>2, <1>3, <1>7, <1>8, <1>9, <1>10, <1>11, StepPreserves

-----------------------------------------------------------------------------
(***************************************************************************)
(* deterministic_submission_adapter.                                       *)
(***************************************************************************)
\* An execution of the adapter is for a package of its run.
LEMMA SubmitsItsPackage ==
    ASSUME Inductive, NEW x \in Execution, Live(x), execution[x].activity = "submit"
    PROVE  Made(execution[x].package, execution[x].run) /\ execution[x].package \in Execution
BY DEF Inductive, ExecutionsAreSound, ExecutionIsSound, Made, TypeOK, Package

\* The adapter goes on to a step of which nothing but its package is known.
LEMMA SubmitGoes ==
    ASSUME Inductive, NEW x \in Execution, Live(x), execution[x].activity = "submit",
           NEW step \in {"lock", "reload", "record_failure", "put_receipt", "commit"},
           Go(x, step), step = "commit" => fallback,
           step \in {"put_receipt", "commit"} => ~Locked /\ attempts = {},
           failures' \in Nat, UNCHANGED <<caseVars, runVars, awaited, tableVars>>
    PROVE  Inductive'
<1>1. /\ execution' \in [Execution -> ExecutionState]
      /\ execution'[x].step = step
      /\ execution'[x].activity = execution[x].activity
      /\ execution'[x].run = execution[x].run
      /\ execution'[x].package = execution[x].package
      /\ \A y \in Execution \ {x} : execution'[y] = execution[y]
  BY GoType DEF Inductive, Steps
<1>2. Made(execution[x].package, execution[x].run)'
  BY <1>1, SubmitsItsPackage DEF Made, tableVars
<1>3. ExecutionIsSound(x)'
  BY <1>1, <1>2 DEF ExecutionIsSound, At, Made, caseVars
<1>4. Holds(x)' => ~Locked /\ attempts = {}
  BY <1>1 DEF Holds, At
<1> QED
  BY <1>1, <1>3, <1>4, QuietPreserves

\* The adapter is answered with the outcome of an attempt.
LEMMA SubmitAnswers ==
    ASSUME Inductive, NEW x \in Execution, Live(x), execution[x].activity = "submit",
           NEW a \in attempts, AnswerOutcome(x, a.outcome),
           UNCHANGED <<caseVars, runVars, awaited, failures, tableVars>>
    PROVE  Inductive'
<1>1. a.outcome \in Outcome
  BY DEF Inductive, TypeOK, Attempt
<1>2. /\ execution' \in [Execution -> ExecutionState]
      /\ execution'[x].step = "answer"
      /\ execution'[x].activity = execution[x].activity
      /\ execution'[x].run = execution[x].run
      /\ execution'[x].package = execution[x].package
      /\ execution'[x].outcome = a.outcome
      /\ \A y \in Execution \ {x} : execution'[y] = execution[y]
  BY <1>1, AnswerOutcomeType DEF Inductive
<1>3. Made(execution[x].package, execution[x].run)'
  BY <1>2, SubmitsItsPackage DEF Made, tableVars
<1>4. Told(execution[x].outcome)'
  BY <1>1, <1>2 DEF Told, Inductive, AttemptsAreSound, tableVars
<1>5. ExecutionIsSound(x)' /\ ~Holds(x)'
  BY <1>2, <1>3, <1>4 DEF ExecutionIsSound, Holds, At
<1> QED
  BY <1>2, <1>5, QuietPreserves DEF Inductive, TypeOK

\* All attempts have the one key, so there is none where none is in the way.
LEMMA CollisionsAreAll ==
    ASSUME TypeOK, NEW r
    PROVE  Collisions(r) = attempts
BY DEF Collisions, TypeOK, Attempt

\* An adapter that finds its attempt answers with its outcome.
LEMMA FindAttemptPreserves ==
    ASSUME Inductive, NEW x \in Execution, FindAttempt(x)
    PROVE  Inductive'
<1>1. Live(x) /\ execution[x].activity = "submit" /\ failures' \in Nat
  BY DEF FindAttempt, At, Live, Inductive, TypeOK
<1>2. CASE AttemptOf(execution[x].run) = {}
  BY <1>1, <1>2, SubmitGoes DEF FindAttempt
<1>3. CASE AttemptOf(execution[x].run) # {}
  BY <1>1, <1>3, SubmitAnswers DEF FindAttempt, AttemptOf
<1> QED
  BY <1>2, <1>3

\* An execution gets the lock when no other has it, and goes on with it only when
\* no attempt is in the way.
LEMMA LockCasePreserves ==
    ASSUME Inductive, NEW x \in Execution, LockCase(x)
    PROVE  Inductive'
<1>1. Live(x) /\ execution[x].activity = "submit" /\ failures' \in Nat /\ ~Locked
  BY DEF LockCase, At, Live, Inductive, TypeOK
<1>2. Collisions(execution[x].run) = attempts
  BY CollisionsAreAll DEF Inductive
<1>3. CASE attempts # {}
  <2>1. Go(x, "reload")
    BY <1>2, <1>3 DEF LockCase
  <2> QED
    BY <1>1, <2>1, SubmitGoes DEF LockCase
<1>4. CASE attempts = {} /\ fallback
  <2>1. Go(x, "commit")
    BY <1>2, <1>4 DEF LockCase
  <2> QED
    BY <1>1, <1>4, <2>1, SubmitGoes DEF LockCase
<1>5. CASE attempts = {} /\ ~fallback
  <2>1. Go(x, "put_receipt")
    BY <1>2, <1>5 DEF LockCase
  <2> QED
    BY <1>1, <1>5, <2>1, SubmitGoes DEF LockCase
<1> QED
  BY <1>3, <1>4, <1>5

\* After a collision the attempt in the way is the answer.
LEMMA ReloadPreserves ==
    ASSUME Inductive, NEW x \in Execution, Reload(x)
    PROVE  Inductive'
<1>1. Live(x) /\ execution[x].activity = "submit"
  BY DEF Reload, At, Live
<1>2. PICK a \in attempts : AnswerOutcome(x, a.outcome)
  BY DEF Reload, Collisions
<1> QED
  BY <1>1, <1>2, SubmitAnswers DEF Reload

\* The count of failures stays a number.
LEMMA FailuresType ==
    ASSUME TypeOK, failures' = failures + 1
    PROVE  failures' \in Nat
BY DEF TypeOK

\* An adapter that raises has its failure to record next.
LEMMA RaisePreserves ==
    ASSUME Inductive, NEW x \in Execution, Raise(x)
    PROVE  Inductive'
<1>1. Live(x) /\ execution[x].activity = "submit"
  BY DEF Raise, At, Live
<1>2. /\ Go(x, "record_failure")
      /\ failures' = failures + 1
      /\ UNCHANGED <<caseVars, runVars, awaited, tableVars>>
  BY DEF Raise
<1>3. failures' \in Nat
  BY <1>2, FailuresType DEF Inductive
<1> QED
  BY <1>1, <1>2, <1>3, SubmitGoes

\* The receipt is stored while the case is locked.
LEMMA PutReceiptPreserves ==
    ASSUME Inductive, NEW x \in Execution, PutReceipt(x)
    PROVE  Inductive'
<1>1. Live(x) /\ execution[x].activity = "submit" /\ Go(x, "commit") /\ Holds(x)
  BY DEF PutReceipt, At, Live, Holds
<1>2. /\ execution'[x].step = "commit"
      /\ execution'[x].activity = "submit"
      /\ execution'[x].run = execution[x].run
      /\ execution'[x].package = execution[x].package
  BY <1>1, GoType DEF Inductive, Steps
<1>3. Made(execution[x].package, execution[x].run)'
  BY <1>1, <1>2, SubmitsItsPackage DEF Made, PutReceipt, packageTables
<1>4. ExecutionIsSound(x)'
  BY <1>2, <1>3 DEF ExecutionIsSound, At, PutReceipt
<1> QED
  BY <1>1, <1>4, PutPreserves DEF PutReceipt, ReceiptOf, Artifact, Steps

\* The attempt that is committed is the only one: its execution has the lock.
LEMMA CommitAttemptPreserves ==
    ASSUME Inductive, NEW x \in Execution, CommitAttempt(x)
    PROVE  Inductive'
<1> DEFINE outcome == IF fallback THEN "UNSUPPORTED_WORKFLOW" ELSE "SUCCESS"
           receipt == IF fallback THEN None ELSE ReceiptOf(x)
           a == NewAttempt(x, outcome, receipt)
<1>1. Live(x) /\ execution[x].activity = "submit" /\ Holds(x)
  BY DEF CommitAttempt, At, Live, Holds
<1>2. attempts = {}
  BY <1>1 DEF Inductive, LockExcludes, Locked, Holds
<1>3. /\ attempts' = {a}
      /\ AnswerOutcome(x, outcome)
      /\ evidence' = IF fallback THEN evidence ELSE evidence \cup {ReceiptOf(x)}
      /\ fallbacks' = IF ~fallback THEN fallbacks ELSE fallbacks \cup
            {[attempt |-> execution[x].run, package |-> execution[x].package]}
      /\ UNCHANGED <<caseVars, runVars, awaited, failures, packageTables, objects>>
  BY <1>2 DEF CommitAttempt, CommitReceipt, CommitFallback
<1>4. /\ execution' \in [Execution -> ExecutionState]
      /\ execution'[x].step = "answer"
      /\ execution'[x].activity = execution[x].activity
      /\ execution'[x].run = execution[x].run
      /\ execution'[x].package = execution[x].package
      /\ execution'[x].outcome = outcome
      /\ \A y \in Execution \ {x} : execution'[y] = execution[y]
  BY <1>1, <1>3, AnswerOutcomeType DEF Inductive, Outcome
<1>5. Made(execution[x].package, execution[x].run) /\ execution[x].package \in Execution
  BY <1>1, SubmitsItsPackage
<1>6. execution[x].run \in Nat
  BY <1>1, LiveType DEF Inductive, Working
<1>7. /\ a.id = execution[x].run
      /\ a.package = execution[x].package
      /\ a.outcome = outcome
      /\ a.receipt = receipt
  BY DEF NewAttempt
<1>8. a \in Attempt /\ ReceiptOf(x) \in Artifact
  BY <1>5, <1>6 DEF NewAttempt, Attempt, Outcome, ReceiptOf, Artifact
<1>9. ~fallback => ReceiptOf(x) \in objects
  BY DEF Inductive, ExecutionsAreSound, ExecutionIsSound, CommitAttempt
<1>10. TypeOK'
  BY <1>3, <1>4, <1>5, <1>6, <1>8 DEF Inductive, TypeOK, caseVars, runVars, packageTables
<1>11. NothingDangles'
  <2>1. evidence \subseteq evidence' /\ evidence' \subseteq objects'
    BY <1>3, <1>9 DEF Inductive, NothingDangles
  <2>2. \E p \in packages : p.id = a.package /\ p.request = a.id
    BY <1>5, <1>7 DEF Made
  <2>3. a.receipt # None => a.receipt \in evidence'
    BY <1>3, <1>7
  <2> QED
    BY <1>3, <2>1, <2>2, <2>3 DEF Inductive, NothingDangles, packageTables, caseVars
<1>12. AttemptsAreSound'
  BY <1>3, <1>7 DEF AttemptsAreSound
<1>13. TablesGrow
  BY <1>2, <1>3 DEF TablesGrow, packageTables
<1>14. ExecutionIsSound(x)' /\ ~Holds(x)'
  <2>1. Made(execution[x].package, execution[x].run)'
    BY <1>3, <1>4, <1>5 DEF Made, packageTables
  <2>2. Told(execution[x].outcome)'
    BY <1>3, <1>4, <1>7 DEF Told, Outcome
  <2> QED
    BY <1>1, <1>4, <2>1, <2>2 DEF ExecutionIsSound, Holds, At
<1> QED
  BY <1>1, <1>3, <1>4, <1>10, <1>11, <1>12, <1>13, <1>14, StepPreserves DEF caseVars

\* The failure handler fails an attempt that was not submitted; its package and
\* the lack of a receipt stay.
LEMMA RecordFailurePreserves ==
    ASSUME Inductive, NEW x \in Execution, RecordFailure(x)
    PROVE  Inductive'
<1> DEFINE Failed(a) == IF a.id = execution[x].run /\ StatusOf[a.outcome] # "SUBMITTED"
                        THEN [a EXCEPT !.outcome = "FAILED"] ELSE a
<1>1. /\ attempts' = {Failed(a) : a \in attempts}
      /\ execution' = [execution EXCEPT ![x] = Done]
      /\ UNCHANGED <<caseVars, runVars, awaited, failures, packageTables, evidence,
                     objects, fallbacks>>
  BY DEF RecordFailure
<1>2. /\ execution' \in [Execution -> ExecutionState]
      /\ execution'[x].step = "done"
      /\ \A y \in Execution \ {x} : execution'[y] = execution[y]
  BY <1>1, EndType DEF Inductive
<1>3. ASSUME NEW a \in attempts
      PROVE  /\ Failed(a) \in Attempt
             /\ Failed(a).id = a.id /\ Failed(a).package = a.package
             /\ Failed(a).receipt = a.receipt
             /\ Failed(a).outcome \in {a.outcome, "FAILED"}
             /\ a.outcome = "SUCCESS" => Failed(a) = a
  <2>1. a \in Attempt
    BY DEF Inductive, TypeOK
  <2>2. a.outcome \in Outcome
    BY <2>1 DEF Attempt
  <2> QED
    BY <2>1, <2>2, StatusOfSuccess DEF Attempt, Outcome
<1>4. TypeOK'
  BY <1>1, <1>2, <1>3 DEF Inductive, TypeOK, caseVars, runVars, packageTables
<1>5. NothingDangles'
  <2>1. \A a \in attempts :
            /\ \E p \in packages : p.id = Failed(a).package /\ p.request = Failed(a).id
            /\ Failed(a).receipt # None => Failed(a).receipt \in evidence
    BY <1>3 DEF Inductive, NothingDangles
  <2> HIDE DEF Failed
  <2>2. \A b \in attempts' :
            /\ \E p \in packages : p.id = b.package /\ p.request = b.id
            /\ b.receipt # None => b.receipt \in evidence
    BY <1>1, <2>1
  <2> QED
    BY <1>1, <2>2 DEF Inductive, NothingDangles, packageTables, caseVars
<1>6. AttemptsAreSound'
  <2>1. \A a, b \in attempts : Failed(a) = Failed(b)
    BY DEF Inductive, AttemptsAreSound
  <2>2. \A a \in attempts :
            /\ Failed(a).outcome = "SUCCESS" => Failed(a).receipt \in evidence
            /\ Failed(a).outcome = "UNSUPPORTED_WORKFLOW" => fallbacks # {}
    BY <1>3 DEF Inductive, AttemptsAreSound
  <2> HIDE DEF Failed
  <2> QED
    BY <1>1, <2>1, <2>2 DEF AttemptsAreSound
<1>7. TablesGrow
  BY <1>1, <1>3 DEF TablesGrow, packageTables
<1>8. ExecutionIsSound(x)' /\ ~Holds(x)' /\ ~Live(x)'
  BY <1>2 DEF ExecutionIsSound, Holds, At, Live
<1>9. attempts' # {} => attempts # {}
  BY <1>1
<1> QED
  BY <1>1, <1>2, <1>4, <1>5, <1>6, <1>7, <1>8, <1>9, StepPreserves DEF caseVars

\* A worker dies.
LEMMA CrashPreserves ==
    ASSUME Inductive, NEW x \in Execution, Crash(x)
    PROVE  Inductive'
<1>1. /\ execution' = [execution EXCEPT ![x] = Done]
      /\ failures' = failures + 1
      /\ UNCHANGED <<caseVars, runVars, awaited, tableVars>>
  BY DEF Crash
<1>2. /\ execution' \in [Execution -> ExecutionState]
      /\ execution'[x].step = "done"
      /\ \A y \in Execution \ {x} : execution'[y] = execution[y]
  BY <1>1, EndType DEF Inductive
<1>3. ExecutionIsSound(x)' /\ ~Holds(x)' /\ ~Live(x)'
  BY <1>2 DEF ExecutionIsSound, Holds, At, Live
<1>4. failures' \in Nat
  BY <1>1 DEF Inductive, TypeOK
<1> QED
  BY <1>1, <1>2, <1>3, <1>4, QuietPreserves

-----------------------------------------------------------------------------
(***************************************************************************)
(* The workflow and Temporal: no table changes.                            *)
(***************************************************************************)
\* A new execution is given what the run has.
LEMMA StartPreserves ==
    ASSUME Inductive, NEW x \in Execution, Start(x), failures' \in Nat
    PROVE  Inductive'
<1> USE DEF Inductive
<1> DEFINE w == Under(stage, run, IF stage = "submit" THEN package_id ELSE None)
<1>1. /\ Asks
      /\ execution[x] = Unused
      /\ awaited' = x
      /\ execution' = [execution EXCEPT ![x] = w]
      /\ UNCHANGED <<caseVars, runVars, tableVars>>
  BY DEF Start
<1>2. w \in Working
  BY <1>1 DEF Under, Working, Steps, Asks, TypeOK
<1>3. /\ execution' \in [Execution -> ExecutionState]
      /\ execution'[x] = w
      /\ \A y \in Execution \ {x} : execution'[y] = execution[y]
  BY <1>1, <1>2, WorkType
<1>4. /\ w.step = "find" /\ w.activity = stage /\ w.run = run
      /\ stage = "submit" => w.package = package_id
  BY DEF Under
<1>5. TypeOK'
  BY <1>1, <1>3 DEF TypeOK, caseVars, runVars, tableVars
<1>6. NothingDangles' /\ MovedCasesAreProven' /\ AttemptsAreSound' /\ TablesGrow
  BY <1>1 DEF NothingDangles, MovedCasesAreProven, AttemptsAreSound, TablesGrow, caseVars,
              tableVars
<1>7. ExecutionsAreSound'
  <2>1. ExecutionIsSound(x)'
    BY <1>1, <1>3, <1>4 DEF ExecutionIsSound, At, Live, Made, RunIsSound, tableVars
  <2> QED
    BY <1>1, <1>3, <1>6, <2>1, OthersStaySound DEF ExecutionsAreSound, caseVars
<1>8. LockExcludes'
  <2>1. \A y \in Execution : Holds(y)' => Holds(y)
    BY <1>3, <1>4 DEF Holds, At
  <2>2. Locked' => Locked
    BY <2>1 DEF Locked, Holds
  <2> QED
    BY <1>1, <2>1, <2>2 DEF LockExcludes, tableVars
<1>9. RunIsSound'
  BY <1>1, <1>3, <1>4 DEF RunIsSound, Asks, Made, runVars, tableVars
<1> QED
  BY <1>5, <1>6, <1>7, <1>8, <1>9

\* Steps of the workflow that change neither an execution nor a table.
LEMMA RunPreserves ==
    ASSUME Inductive, TypeOK', MovedCasesAreProven', RunIsSound',
           UNCHANGED <<current_package, fallback, temporalVars, tableVars>>
    PROVE  Inductive'
<1> USE DEF Inductive
<1>1. NothingDangles' /\ AttemptsAreSound' /\ TablesGrow
  BY DEF NothingDangles, AttemptsAreSound, TablesGrow, tableVars
<1>2. ExecutionsAreSound'
  BY <1>1, OthersStaySound DEF ExecutionsAreSound, temporalVars
<1>3. LockExcludes'
  BY DEF LockExcludes, Holds, Locked, At, temporalVars, tableVars
<1> QED
  BY <1>1, <1>2, <1>3

\* A run begins when none awaits an execution.
LEMMA StartRunPreserves ==
    ASSUME Inductive, StartRun
    PROVE  Inductive'
<1> USE DEF Inductive
<1>1. TypeOK'
  BY DEF TypeOK, StartRun, temporalVars, tableVars, CaseState
<1>2. MovedCasesAreProven'
  BY DEF MovedCasesAreProven, StartRun, tableVars
<1>3. \A x \in Execution : x # awaited
  BY DEF RunIsSound, StartRun, Asks
<1>4. RunIsSound'
  BY <1>3 DEF RunIsSound, StartRun, temporalVars
<1> QED
  BY <1>1, <1>2, <1>4, RunPreserves DEF StartRun

\* What the case is moved to was told by the adapter.
LEMMA MoveCasePreserves ==
    ASSUME Inductive, MoveCase
    PROVE  Inductive'
<1> USE DEF Inductive
<1>1. /\ stage \in {"SUBMITTED", "MANUAL_SUBMISSION_REQUIRED"}
      /\ \/ case_state' = stage /\ stage' = "closed"
         \/ case_state' = case_state /\ stage' = "wedged"
      /\ UNCHANGED <<current_package, fallback, run, package_id, temporalVars, tableVars>>
  BY DEF MoveCase
<1>2. TypeOK'
  BY <1>1 DEF TypeOK, temporalVars, tableVars, CaseState
<1>3. MovedCasesAreProven'
  BY <1>1, StatusOfSuccess
  DEF MovedCasesAreProven, RunIsSound, AttemptsAreSound, TypeOK, Attempt, tableVars
<1>4. \A x \in Execution : x # awaited
  BY <1>1 DEF RunIsSound, Asks
<1>5. RunIsSound'
  BY <1>1, <1>4 DEF RunIsSound, temporalVars
<1> QED
  BY <1>1, <1>2, <1>3, <1>5, RunPreserves

\* A request for resubmission takes the case off SUBMITTED and touches no table.
LEMMA RequestResubmissionPreserves ==
    ASSUME Inductive, RequestResubmission
    PROVE  Inductive'
<1> USE DEF Inductive
<1>1. TypeOK'
  BY DEF TypeOK, RequestResubmission, runVars, temporalVars, tableVars, CaseState
<1>2. MovedCasesAreProven'
  BY DEF MovedCasesAreProven, RequestResubmission
<1>3. RunIsSound'
  BY DEF RunIsSound, RequestResubmission, runVars, temporalVars, tableVars, Made, Asks, Live
<1> QED
  BY <1>1, <1>2, <1>3, RunPreserves DEF RequestResubmission

\* An execution returns: the run goes on with the package that was made for it, or
\* to the state the outcome tells it.
LEMMA ReturnPreserves ==
    ASSUME Inductive, NEW x \in Execution, Return(x)
    PROVE  Inductive'
<1>1. /\ execution[x].step = "answer"
      /\ execution' = [execution EXCEPT ![x] = Done]
      /\ UNCHANGED <<caseVars, run, failures, tableVars>>
  BY DEF Return
<1>2. /\ execution' \in [Execution -> ExecutionState]
      /\ execution'[x].step = "done"
      /\ \A y \in Execution \ {x} : execution'[y] = execution[y]
  BY <1>1, EndType DEF Inductive
<1>3. ExecutionIsSound(x)' /\ ~Holds(x)' /\ ~Live(x)'
  BY <1>2 DEF ExecutionIsSound, Holds, At, Live
<1>4. CASE x # awaited
  <2>1. UNCHANGED <<awaited, runVars>>
    BY <1>1, <1>4 DEF Return, runVars
  <2>2. failures' \in Nat
    BY <1>1 DEF Inductive, TypeOK
  <2> QED
    BY <1>1, <1>2, <1>3, <2>1, <2>2, QuietPreserves
<1>5. CASE x = awaited
  <2>1. awaited' = None
    BY <1>5 DEF Return
  <2>2. \/ stage = "package" /\ stage' = "submit" /\ package_id' = execution[x].package
        \/ /\ stage = "submit" /\ stage' = StageAfter[execution[x].outcome]
           /\ package_id' = package_id
    BY <1>5 DEF Return, Inductive, RunIsSound, Asks
  <2>3. /\ Live(x)
        /\ execution[x].activity = stage
        /\ execution[x].run = run
    BY <1>1, <1>5 DEF Live, Inductive, RunIsSound
  <2>4. stage = "package" => Made(execution[x].package, run)
    BY <1>1, <2>3 DEF Inductive, ExecutionsAreSound, ExecutionIsSound, At
  <2>5. stage = "submit" => Told(execution[x].outcome)
    BY <1>1, <2>3 DEF Inductive, ExecutionsAreSound, ExecutionIsSound, At
  <2>6. execution[x].package \in Execution \cup {None}
    BY <2>3, LiveType DEF Inductive, Working
  <2>7. TypeOK'
    BY <1>1, <1>2, <2>1, <2>2, <2>5, <2>6
    DEF Inductive, TypeOK, caseVars, tableVars, StageAfter, Told, Outcome
  <2>8. NothingDangles' /\ MovedCasesAreProven' /\ AttemptsAreSound' /\ TablesGrow
    BY <1>1 DEF Inductive, NothingDangles, MovedCasesAreProven, AttemptsAreSound,
                TablesGrow, caseVars, tableVars
  <2>9. ExecutionsAreSound'
    BY <1>1, <1>2, <1>3, <2>8, OthersStaySound DEF Inductive, ExecutionsAreSound, caseVars
  <2>10. LockExcludes'
    <3>1. \A y \in Execution : Holds(y)' => Holds(y)
      BY <1>2, <1>3 DEF Holds, At
    <3>2. Locked' => Locked
      BY <3>1 DEF Locked, Holds
    <3> QED
      BY <1>1, <3>1, <3>2 DEF Inductive, LockExcludes, tableVars
  <2>11. RunIsSound'
    <3>1. \A y \in Execution : y # awaited'
      BY <2>1, NoneAssumption
    <3>2. CASE stage = "package"
      BY <1>1, <2>2, <2>4, <3>1, <3>2 DEF RunIsSound, Made, tableVars
    <3>3. CASE stage = "submit"
      BY <1>1, <2>2, <2>5, <3>1, <3>3 DEF RunIsSound, StageAfter, Told, Outcome, tableVars
    <3> QED
      BY <2>2, <3>2, <3>3
  <2> QED
    BY <2>7, <2>8, <2>9, <2>10, <2>11 DEF Inductive
<1> QED
  BY <1>4, <1>5

-----------------------------------------------------------------------------
\* There is nothing at first that could dangle.
LEMMA InitInductive == Init => Inductive
<1> SUFFICES ASSUME Init PROVE Inductive
  OBVIOUS
<1>1. \A x \in Execution : execution[x] = Unused
  BY DEF Init
<1>2. TypeOK
  BY DEF Init, TypeOK, CaseState, ExecutionState
<1>3. NothingDangles /\ MovedCasesAreProven /\ AttemptsAreSound
  BY DEF Init, NothingDangles, MovedCasesAreProven, AttemptsAreSound
<1>4. ExecutionsAreSound
  BY <1>1 DEF ExecutionsAreSound, ExecutionIsSound, At, Live, Unused
<1>5. LockExcludes
  BY <1>1 DEF Init, LockExcludes, Holds, Locked, At, Unused
<1>6. RunIsSound
  BY <1>1, NoneAssumption DEF Init, RunIsSound, Live, Unused
<1> QED
  BY <1>2, <1>3, <1>4, <1>5, <1>6 DEF Inductive

\* A new execution, of an activity that was not under way or of one that is not
\* waited for any longer.
LEMMA TemporalPreserves ==
    ASSUME Inductive, Schedule \/ TimeOut
    PROVE  Inductive'
<1>1. CASE Schedule
  <2>1. failures' \in Nat
    BY <1>1 DEF Schedule, Inductive, TypeOK
  <2>2. PICK x \in Execution : Start(x)
    BY <1>1 DEF Schedule
  <2> QED
    BY <2>1, <2>2, StartPreserves
<1>2. CASE TimeOut
  <2>1. failures' = failures + 1
    BY <1>2 DEF TimeOut
  <2>2. failures' \in Nat
    BY <2>1, FailuresType DEF Inductive
  <2>3. PICK x \in Execution : Start(x)
    BY <1>2 DEF TimeOut
  <2> QED
    BY <2>2, <2>3, StartPreserves
<1> QED
  BY <1>1, <1>2

\* What an execution does, in either activity.
LEMMA ExecutePreserves ==
    ASSUME Inductive, NEW x \in Execution, Execute(x)
    PROVE  Inductive'
<1>1. CASE FindPackage(x)
  BY <1>1, FindPackagePreserves
<1>2. CASE PutDocument(x)
  BY <1>2, PutDocumentPreserves
<1>3. CASE PutManifest(x)
  BY <1>3, PutManifestPreserves
<1>4. CASE InsertPackage(x)
  BY <1>4, InsertPackagePreserves
<1>5. CASE FindAttempt(x)
  BY <1>5, FindAttemptPreserves
<1>6. CASE LockCase(x)
  BY <1>6, LockCasePreserves
<1>7. CASE PutReceipt(x)
  BY <1>7, PutReceiptPreserves
<1>8. CASE CommitAttempt(x)
  BY <1>8, CommitAttemptPreserves
<1>9. CASE Reload(x)
  BY <1>9, ReloadPreserves
<1>10. CASE RecordFailure(x)
  BY <1>10, RecordFailurePreserves
<1>11. CASE Return(x)
  BY <1>11, ReturnPreserves
<1> QED
  BY <1>1, <1>2, <1>3, <1>4, <1>5, <1>6, <1>7, <1>8, <1>9, <1>10, <1>11 DEF Execute

\* The invariant is about the variables only.
LEMMA StutterPreserves ==
    ASSUME Inductive, UNCHANGED vars
    PROVE  Inductive'
<1>1. /\ UNCHANGED <<current_package, fallback, temporalVars, tableVars>>
      /\ UNCHANGED <<case_state, runVars>>
  BY DEF vars, caseVars
<1>2. TypeOK' /\ MovedCasesAreProven'
  BY <1>1 DEF Inductive, TypeOK, MovedCasesAreProven, runVars, temporalVars, tableVars
<1>3. RunIsSound'
  BY <1>1 DEF Inductive, RunIsSound, runVars, temporalVars, tableVars, Made, Asks, Live
<1> QED
  BY <1>1, <1>2, <1>3, RunPreserves

\* A worker may die and Temporal may start an execution at any step of any other:
\* the tables stay sound, what an execution answers was committed, and the lock on
\* the case lets one adapter at a time insert an attempt.
THEOREM SubmissionInductive == Spec => []Inductive
<1>1. Inductive /\ [Next]_vars => Inductive'
  <2> SUFFICES ASSUME Inductive, [Next]_vars PROVE Inductive'
    OBVIOUS
  <2>1. CASE Schedule \/ TimeOut
    BY <2>1, TemporalPreserves
  <2>2. ASSUME NEW x \in Execution, Execute(x) PROVE Inductive'
    BY <2>2, ExecutePreserves
  <2>3. ASSUME NEW x \in Execution, Crash(x) PROVE Inductive'
    BY <2>3, CrashPreserves
  <2>4. ASSUME NEW x \in Execution, Raise(x) PROVE Inductive'
    BY <2>4, RaisePreserves
  <2>5. CASE StartRun
    BY <2>5, StartRunPreserves
  <2>6. CASE MoveCase
    BY <2>6, MoveCasePreserves
  <2>7. CASE RequestResubmission
    BY <2>7, RequestResubmissionPreserves
  <2>8. CASE UNCHANGED vars
    BY <2>8, StutterPreserves
  <2> QED
    BY <2>1, <2>2, <2>3, <2>4, <2>5, <2>6, <2>7, <2>8, Zenon DEF Next
<1> QED
  BY <1>1, InitInductive, PTL DEF Spec

\* Every variable keeps its type.
THEOREM SubmissionTypeCorrect == Spec => []TypeOK
<1>1. Inductive => TypeOK
  BY DEF Inductive
<1> QED
  BY <1>1, SubmissionInductive, PTL

\* Wherever an execution of persist_submission_package or of the adapter stops, the
\* database names no object, artifact or package that is not there.
THEOREM SubmissionDanglesNothing == Spec => []NothingDangles
<1>1. Inductive => NothingDangles
  BY DEF Inductive
<1> QED
  BY <1>1, SubmissionInductive, PTL

\* A case that was moved after a submission has the receipt, or the fallback
\* package, that the move claims.
THEOREM SubmissionProvesMoves == Spec => []MovedCasesAreProven
<1>1. Inductive => MovedCasesAreProven
  BY DEF Inductive
<1> QED
  BY <1>1, SubmissionInductive, PTL

\* An attempt is added only where there is none, and the failure handler spares
\* one that was submitted.
LEMMA StepsKeepSubmitted ==
    ASSUME Inductive, [Next]_vars, NEW a \in attempts, StatusOf[a.outcome] = "SUBMITTED"
    PROVE  attempts' = {a}
<1>1. attempts = {a}
  BY DEF Inductive, AttemptsAreSound
<1>2. ASSUME NEW x \in Execution, CommitAttempt(x) PROVE FALSE
  BY <1>1, <1>2 DEF CommitAttempt, At, Inductive, LockExcludes, Locked
<1>3. ASSUME NEW x \in Execution, RecordFailure(x) PROVE attempts' = attempts
  BY <1>1, <1>3 DEF RecordFailure
<1>4. ASSUME ~\E x \in Execution : CommitAttempt(x) \/ RecordFailure(x)
      PROVE  attempts' = attempts
  <2>1. ASSUME NEW x \in Execution, Execute(x) PROVE attempts' = attempts
    BY <1>4, <2>1 DEF Execute, FindPackage, PutDocument, PutManifest, InsertPackage,
                      FindAttempt, LockCase, PutReceipt, Reload, Return, tableVars
  <2>2. ASSUME NEW x \in Execution, Crash(x) \/ Raise(x) PROVE attempts' = attempts
    BY <2>2 DEF Crash, Raise, tableVars
  <2>3. CASE Schedule \/ TimeOut
    BY <2>3 DEF Schedule, TimeOut, Start, tableVars
  <2>4. CASE StartRun \/ MoveCase \/ RequestResubmission
    BY <2>4 DEF StartRun, MoveCase, RequestResubmission, tableVars
  <2>5. CASE UNCHANGED vars
    BY <2>5 DEF vars, tableVars
  <2> QED
    BY <2>1, <2>2, <2>3, <2>4, <2>5, Zenon DEF Next
<1> QED
  BY <1>1, <1>2, <1>3, <1>4

\* An attempt recorded as submitted stays as it is and stays the only one.
THEOREM SubmissionStands == Spec => SubmittedStands
<1>1. Inductive /\ [Next]_vars =>
          [\A a \in attempts : StatusOf[a.outcome] = "SUBMITTED" => attempts' = {a}]_vars
  BY StepsKeepSubmitted
<1> QED
  BY <1>1, SubmissionInductive, PTL DEF Spec, SubmittedStands

\* The steps that write the case's state.
LEMMA StepsKeepCase ==
    ASSUME [Next]_vars, case_state = "SUBMITTED", case_state' # case_state
    PROVE  case_state' = "RESUBMISSION_PENDING" /\ stage = "closed"
<1>1. ASSUME NEW x \in Execution, Execute(x) PROVE FALSE
  BY <1>1 DEF Execute, FindPackage, PutDocument, PutManifest, InsertPackage, FindAttempt,
              LockCase, PutReceipt, CommitAttempt, Reload, RecordFailure, Return, caseVars
<1>2. ASSUME NEW x \in Execution, Crash(x) \/ Raise(x) PROVE FALSE
  BY <1>2 DEF Crash, Raise, caseVars
<1>3. CASE Schedule \/ TimeOut
  BY <1>3 DEF Schedule, TimeOut, Start, caseVars
<1>4. CASE StartRun \/ MoveCase
  BY <1>4 DEF StartRun, MoveCase, SubmissionIsGuarded
<1>5. CASE RequestResubmission
  BY <1>5 DEF RequestResubmission
<1>6. CASE UNCHANGED vars
  BY <1>6 DEF vars, caseVars
<1> QED
  BY <1>1, <1>2, <1>3, <1>4, <1>5, <1>6, Zenon DEF Next

\* No execution that comes late takes a submitted case off its state.
THEOREM SubmissionStaysDone == Spec => SubmissionIsNotUndone
<1>1. [Next]_vars =>
          [/\ case_state = "SUBMITTED"
           /\ case_state' # case_state
           => case_state' = "RESUBMISSION_PENDING" /\ stage = "closed"]_vars
  BY StepsKeepCase
<1> QED
  BY <1>1, PTL DEF Spec, SubmissionIsNotUndone

-----------------------------------------------------------------------------
(***************************************************************************)
(* Refinement: executions that overlap, fail and are run again leave what  *)
(* atomic steps would.  Beside the invariant this needs that the ids of    *)
(* packages are new and that every fallback belongs to an attempt.         *)
(***************************************************************************)
\* An execution makes one package, and has nothing to do then but to answer.
PackagesAreMade ==
    \A p \in packages : execution[p.id] = Done \/ At(p.id, "package", "answer")

\* A fallback package is inserted with its attempt, which is not a submitted one.
FallbacksAreBacked == fallbacks # {} => \E a \in attempts : a.outcome # "SUCCESS"

\* An execution that is at work on something else made no package yet, and one
\* that did is left alone or ends.
LEMMA PackagesStayMade ==
    ASSUME TypeOK, PackagesAreMade, NEW x \in Execution, NEW w,
           execution' = [execution EXCEPT ![x] = w],
           w = Done \/ (execution[x] # Done /\ ~At(x, "package", "answer")),
           packages' = packages
    PROVE  PackagesAreMade'
<1> SUFFICES ASSUME NEW p \in packages
             PROVE  execution'[p.id] = Done \/ At(p.id, "package", "answer")'
  BY DEF PackagesAreMade
<1>1. p.id \in Execution
  BY DEF TypeOK, Package
<1>2. execution[p.id] = Done \/ At(p.id, "package", "answer")
  BY DEF PackagesAreMade
<1>3. CASE p.id = x
  <2>1. w = Done
    BY <1>2, <1>3
  <2> QED
    BY <1>1, <1>3, <2>1 DEF TypeOK
<1>4. CASE p.id # x
  <2>1. execution'[p.id] = execution[p.id]
    BY <1>1, <1>4 DEF TypeOK
  <2> QED
    BY <1>2, <2>1 DEF At
<1> QED
  BY <1>3, <1>4

\* The steps of an execution that do not insert a package.
LEMMA StepsKeepPackagesMade ==
    ASSUME TypeOK, PackagesAreMade, NEW x \in Execution,
           Execute(x) \/ Crash(x) \/ Raise(x), ~InsertPackage(x)
    PROVE  PackagesAreMade'
<1>1. CASE Return(x) \/ Crash(x)
  <2>1. execution' = [execution EXCEPT ![x] = Done] /\ packages' = packages
    BY <1>1 DEF Return, Crash, tableVars
  <2> QED
    BY <2>1, PackagesStayMade
<1>2. CASE RecordFailure(x)
  <2>1. execution' = [execution EXCEPT ![x] = Done] /\ packages' = packages
    BY <1>2 DEF RecordFailure, packageTables
  <2> QED
    BY <2>1, PackagesStayMade
<1>3. CASE \/ FindPackage(x) \/ PutDocument(x) \/ PutManifest(x) \/ FindAttempt(x)
           \/ LockCase(x) \/ PutReceipt(x) \/ CommitAttempt(x) \/ Reload(x) \/ Raise(x)
  <2>1. /\ packages' = packages
        /\ execution[x] # Done /\ ~At(x, "package", "answer")
    BY <1>3 DEF FindPackage, PutDocument, PutManifest, FindAttempt, LockCase, PutReceipt,
                CommitAttempt, Reload, Raise, At, Done, tableVars, packageTables
  <2>2. \E w : execution' = [execution EXCEPT ![x] = w]
    <3>1. \A step : Go(x, step) =>
              execution' = [execution EXCEPT ![x] = [execution[x] EXCEPT !.step = step]]
      BY DEF Go
    <3>2. \A id : AnswerPackage(x, id) => execution' =
              [execution EXCEPT ![x] =
                  [execution[x] EXCEPT !.step = "answer", !.package = id]]
      BY DEF AnswerPackage
    <3>3. \A outcome : AnswerOutcome(x, outcome) => execution' =
              [execution EXCEPT ![x] =
                  [execution[x] EXCEPT !.step = "answer", !.outcome = outcome]]
      BY DEF AnswerOutcome
    <3>4. \/ \E step : Go(x, step)
          \/ \E id : AnswerPackage(x, id)
          \/ \E outcome : AnswerOutcome(x, outcome)
      BY <1>3 DEF FindPackage, PutDocument, PutManifest, FindAttempt, LockCase,
                  PutReceipt, CommitAttempt, CommitReceipt, CommitFallback, Reload, Raise
    <3> QED
      BY <3>1, <3>2, <3>3, <3>4
  <2> QED
    BY <2>1, <2>2, PackagesStayMade
<1> QED
  BY <1>1, <1>2, <1>3 DEF Execute

\* An id is that of one package.
LEMMA PackagesMadeOnce ==
    ASSUME Inductive, PackagesAreMade, [Next]_vars
    PROVE  PackagesAreMade'
<1>1. TypeOK
  BY DEF Inductive
<1>2. ASSUME NEW x \in Execution, InsertPackage(x) PROVE PackagesAreMade'
  <2>1. /\ Live(x) /\ AnswerPackage(x, x) /\ execution[x].activity = "package"
        /\ packages' = packages \cup
              {[id |-> x, request |-> execution[x].run, manifest |-> ManifestOf(x)]}
    BY <1>2 DEF InsertPackage, InsertRows, At, Live
  <2>2. /\ execution'[x].step = "answer" /\ execution'[x].activity = "package"
        /\ \A y \in Execution \ {x} : execution'[y] = execution[y]
    BY <1>1, <2>1, AnswerPackageType
  <2>3. ASSUME NEW p \in packages
        PROVE  execution'[p.id] = Done \/ At(p.id, "package", "answer")'
    BY <1>1, <2>2 DEF PackagesAreMade, TypeOK, Package, At
  <2>4. At(x, "package", "answer")'
    BY <2>2 DEF At
  <2> QED
    BY <2>1, <2>3, <2>4 DEF PackagesAreMade
<1>3. ASSUME NEW x \in Execution, Execute(x) \/ Crash(x) \/ Raise(x)
      PROVE  PackagesAreMade'
  BY <1>1, <1>2, <1>3, StepsKeepPackagesMade
<1>4. ASSUME NEW x \in Execution, Start(x) PROVE PackagesAreMade'
  <2>1. /\ packages' = packages /\ execution[x] = Unused
        /\ execution' = [execution EXCEPT ![x] =
              Under(stage, run, IF stage = "submit" THEN package_id ELSE None)]
    BY <1>4 DEF Start, tableVars
  <2>2. execution[x] # Done /\ ~At(x, "package", "answer")
    BY <2>1 DEF Unused, Done, At
  <2> QED
    BY <1>1, <2>1, <2>2, PackagesStayMade
<1>5. CASE StartRun \/ MoveCase \/ RequestResubmission \/ UNCHANGED vars
  <2>1. UNCHANGED <<packages, execution>>
    BY <1>5 DEF StartRun, MoveCase, RequestResubmission, vars, temporalVars, tableVars
  <2> QED
    BY <2>1 DEF PackagesAreMade, At
<1> QED
  BY <1>3, <1>4, <1>5, Zenon DEF Next, Schedule, TimeOut

\* The steps that write the tables of an attempt.
LEMMA AttemptsChange ==
    ASSUME [Next]_vars, ~\E x \in Execution : CommitAttempt(x) \/ RecordFailure(x)
    PROVE  UNCHANGED <<attempts, fallbacks>>
<1>1. ASSUME NEW x \in Execution, Execute(x) PROVE UNCHANGED <<attempts, fallbacks>>
  BY <1>1 DEF Execute, FindPackage, PutDocument, PutManifest, InsertPackage, FindAttempt,
              LockCase, PutReceipt, Reload, Return, tableVars
<1>2. ASSUME NEW x \in Execution, Crash(x) \/ Raise(x) \/ Start(x)
      PROVE  UNCHANGED <<attempts, fallbacks>>
  BY <1>2 DEF Crash, Raise, Start, tableVars
<1>3. CASE StartRun \/ MoveCase \/ RequestResubmission \/ UNCHANGED vars
  BY <1>3 DEF StartRun, MoveCase, RequestResubmission, vars, tableVars
<1> QED
  BY <1>1, <1>2, <1>3, Zenon DEF Next, Schedule, TimeOut

\* The attempt an execution commits, where there was none.
LEMMA CommitsOne ==
    ASSUME Inductive, NEW x \in Execution, CommitAttempt(x)
    PROVE  /\ attempts = {}
           /\ \E receipt : attempts' = {NewAttempt(x,
                  IF fallback THEN "UNSUPPORTED_WORKFLOW" ELSE "SUCCESS", receipt)}
           /\ fallback \/ fallbacks' = fallbacks
<1>1. attempts = {}
  BY DEF Inductive, LockExcludes, Locked, CommitAttempt
<1> QED
  BY <1>1 DEF CommitAttempt, CommitReceipt, CommitFallback

\* The failure handler finds no attempt, leaves the one there is, or fails it.
LEMMA FailsOne ==
    ASSUME Inductive, NEW x \in Execution, RecordFailure(x)
    PROVE  /\ fallbacks' = fallbacks
           /\ \/ attempts' = attempts
              \/ \E a \in attempts :
                    /\ attempts = {a}
                    /\ a.outcome # "SUCCESS"
                    /\ attempts' = {[a EXCEPT !.outcome = "FAILED"]}
<1>1. CASE attempts = {}
  BY <1>1 DEF RecordFailure
<1>2. ASSUME NEW a \in attempts
      PROVE  attempts' = attempts \/ (/\ a.outcome # "SUCCESS"
                                      /\ attempts' = {[a EXCEPT !.outcome = "FAILED"]})
  <2>1. attempts = {a} /\ a.outcome \in Outcome
    BY DEF Inductive, AttemptsAreSound, TypeOK, Attempt
  <2>2. CASE a.id = execution[x].run /\ StatusOf[a.outcome] # "SUBMITTED"
    BY <2>1, <2>2, StatusOfSuccess DEF RecordFailure
  <2>3. CASE ~(a.id = execution[x].run /\ StatusOf[a.outcome] # "SUBMITTED")
    BY <2>1, <2>3 DEF RecordFailure
  <2> QED
    BY <2>2, <2>3
<1>3. \A a \in attempts : attempts = {a}
  BY DEF Inductive, AttemptsAreSound
<1>4. fallbacks' = fallbacks
  BY DEF RecordFailure
<1> QED
  BY <1>1, <1>2, <1>3, <1>4

\* A fallback is never left without an attempt, nor beside a submitted one.
LEMMA FallbacksStayBacked ==
    ASSUME Inductive, FallbacksAreBacked, [Next]_vars
    PROVE  FallbacksAreBacked'
<1>1. ASSUME NEW x \in Execution, CommitAttempt(x) PROVE FallbacksAreBacked'
  <2>1. PICK receipt : attempts' = {NewAttempt(x,
            IF fallback THEN "UNSUPPORTED_WORKFLOW" ELSE "SUCCESS", receipt)}
    BY <1>1, CommitsOne
  <2>2. CASE fallback
    BY <2>1, <2>2 DEF FallbacksAreBacked, NewAttempt
  <2>3. CASE ~fallback
    BY <1>1, <2>3, CommitsOne DEF FallbacksAreBacked
  <2> QED
    BY <2>2, <2>3
<1>2. ASSUME NEW x \in Execution, RecordFailure(x) PROVE FallbacksAreBacked'
  <2>1. CASE attempts' = attempts
    BY <1>2, <2>1, FailsOne DEF FallbacksAreBacked
  <2>2. ASSUME NEW a \in attempts, attempts' = {[a EXCEPT !.outcome = "FAILED"]}
        PROVE  FallbacksAreBacked'
    <3>1. [a EXCEPT !.outcome = "FAILED"].outcome # "SUCCESS"
      BY DEF Inductive, TypeOK, Attempt
    <3> QED
      BY <2>2, <3>1 DEF FallbacksAreBacked
  <2> QED
    BY <1>2, <2>1, <2>2, FailsOne
<1>3. CASE ~\E x \in Execution : CommitAttempt(x) \/ RecordFailure(x)
  BY <1>3, AttemptsChange DEF FallbacksAreBacked
<1> QED
  BY <1>1, <1>2, <1>3

\* What the refinement rests on.
THEOREM SubmissionRows ==
    Spec => [](Inductive /\ PackagesAreMade /\ FallbacksAreBacked)
<1>1. Init => PackagesAreMade /\ FallbacksAreBacked
  BY DEF Init, PackagesAreMade, FallbacksAreBacked
<1>2. Inductive /\ PackagesAreMade /\ FallbacksAreBacked /\ [Next]_vars
      => PackagesAreMade' /\ FallbacksAreBacked'
  BY PackagesMadeOnce, FallbacksStayBacked
<1> QED
  BY <1>1, <1>2, SubmissionInductive, PTL DEF Spec

\* Steps that leave the case and the tables alone are none of CaseSubmission's.
LEMMA Stutters ==
    ASSUME UNCHANGED <<caseVars, packages, attempts>>
    PROVE  UNCHANGED Submission!vars
BY DEF caseVars, PackageRows, AttemptRows, Submission!vars

\* The transaction of a package makes it at once.
LEMMA InsertRefines ==
    ASSUME Inductive, PackagesAreMade, NEW x \in Execution, InsertPackage(x)
    PROVE  Submission!Next
<1> DEFINE row == [id |-> x, request |-> execution[x].run]
<1>1. /\ At(x, "package", "insert")
      /\ packages' = packages \cup
            {[id |-> x, request |-> execution[x].run, manifest |-> ManifestOf(x)]}
      /\ UNCHANGED <<fallback, attempts>>
      /\ current_package' = x
      /\ case_state' = IF case_state = "INCENTIVES_COMPLETE" THEN "DOCUMENT_COMPLETE"
                       ELSE case_state
  BY DEF InsertPackage, InsertRows
<1>2. row \in Submission!Package
  BY <1>1, LiveType DEF At, Live, Inductive, Working, Submission!Package
<1>3. \A p \in packages : p.id # x
  BY <1>1 DEF PackagesAreMade, At, Done
<1>4. ~\E q \in PackageRows : q.id = x
  BY <1>3 DEF PackageRows
<1>5. PackageRows' = PackageRows \cup {row}
  <2> DEFINE new == [id |-> x, request |-> execution[x].run, manifest |-> ManifestOf(x)]
             View(p) == [id |-> p.id, request |-> p.request]
  <2>1. View(new) = row /\ packages' = packages \cup {new}
    BY <1>1
  <2>2. PackageRows = {View(p) : p \in packages} /\ PackageRows' = {View(p) : p \in packages'}
    BY DEF PackageRows
  <2> HIDE DEF new, View, row
  <2> QED
    BY <2>1, <2>2
<1>6. AttemptRows' = AttemptRows
  BY <1>1 DEF AttemptRows
<1>7. Submission!MakePackage(row)
  BY <1>1, <1>2, <1>4, <1>5, <1>6 DEF Submission!MakePackage
<1> QED
  BY <1>5, <1>7 DEF Submission!Next

\* The commit of an attempt is the submission, of a package of the attempt's run.
LEMMA CommitRefines ==
    ASSUME Inductive, NEW x \in Execution, CommitAttempt(x)
    PROVE  Submission!Next
<1>1. /\ Live(x) /\ execution[x].activity = "submit"
      /\ UNCHANGED <<case_state, current_package, fallback, packages>>
  BY DEF CommitAttempt, At, Live, caseVars, packageTables
<1>2. PICK p \in packages : p.id = execution[x].package /\ p.request = execution[x].run
  BY <1>1, SubmitsItsPackage DEF Made
<1> DEFINE row == [id |-> p.id, request |-> p.request]
<1>3. row \in PackageRows
  BY DEF PackageRows
<1>4. AttemptRows = {} /\ PackageRows' = PackageRows
  BY <1>1, CommitsOne DEF AttemptRows, PackageRows
<1>5. AttemptRows' = {[run |-> row.request, package |-> row.id,
                       outcome |-> Submission!OutcomeOf(fallback)]}
  <2>1. PICK receipt : attempts' = {NewAttempt(x,
            IF fallback THEN "UNSUPPORTED_WORKFLOW" ELSE "SUCCESS", receipt)}
    BY CommitsOne
  <2> DEFINE a == NewAttempt(x, IF fallback THEN "UNSUPPORTED_WORKFLOW" ELSE "SUCCESS",
                             receipt)
  <2>2. AttemptRows' = {[run |-> a.id, package |-> a.package, outcome |-> a.outcome]}
    <3> HIDE DEF a
    <3> QED
      BY <2>1 DEF AttemptRows, a
  <2>3. /\ a.id = row.request /\ a.package = row.id
        /\ a.outcome = Submission!OutcomeOf(fallback)
    BY <1>2 DEF NewAttempt, Submission!OutcomeOf
  <2> QED
    BY <2>2, <2>3
<1>6. Submission!Submit(row)
  BY <1>1, <1>4, <1>5 DEF Submission!Submit
<1> QED
  BY <1>3, <1>6 DEF Submission!Next

\* The failure handler gives a fallback up, or does nothing that shows.
LEMMA FailureRefines ==
    ASSUME Inductive, NEW x \in Execution, RecordFailure(x)
    PROVE  [Submission!Next]_(Submission!vars)
<1>1. UNCHANGED <<caseVars, packages>>
  BY DEF RecordFailure, packageTables
<1>2. CASE attempts' = attempts
  BY <1>1, <1>2, Stutters
<1>3. ASSUME NEW a \in attempts, attempts = {a}, a.outcome # "SUCCESS",
             attempts' = {[a EXCEPT !.outcome = "FAILED"]}
      PROVE  [Submission!Next]_(Submission!vars)
  <2> DEFINE row == [run |-> a.id, package |-> a.package, outcome |-> a.outcome]
  <2>1. a \in Attempt /\ a.outcome \in {"UNSUPPORTED_WORKFLOW", "FAILED"}
    BY <1>3 DEF Inductive, TypeOK, Attempt, Outcome
  <2>2. AttemptRows = {row} /\ AttemptRows' = {[row EXCEPT !.outcome = "FAILED"]}
    BY <1>3, <2>1 DEF AttemptRows, Attempt
  <2>3. PackageRows' = PackageRows
    BY <1>1 DEF PackageRows
  <2>4. CASE a.outcome = "FAILED"
    BY <1>1, <2>2, <2>3, <2>4 DEF caseVars, Submission!vars
  <2>5. CASE a.outcome = "UNSUPPORTED_WORKFLOW"
    <3>1. Submission!GiveUp(row)
      BY <1>1, <2>2, <2>3, <2>5 DEF caseVars, Submission!GiveUp
    <3> QED
      BY <2>2, <3>1 DEF Submission!Next
  <2> QED
    BY <2>1, <2>4, <2>5
<1> QED
  BY <1>2, <1>3, FailsOne

\* A move goes where the outcome of the one attempt says; a denial moves nothing.
LEMMA MoveRefines ==
    ASSUME Inductive, FallbacksAreBacked, MoveCase
    PROVE  [Submission!Next]_(Submission!vars)
<1>1. UNCHANGED <<current_package, fallback, packages, attempts>>
  BY DEF MoveCase, tableVars
<1>2. PackageRows' = PackageRows /\ AttemptRows' = AttemptRows
  BY <1>1 DEF PackageRows, AttemptRows
<1>3. CASE ~SubmissionIsGuarded
  <2>1. case_state' = case_state
    BY <1>3 DEF MoveCase
  <2> QED
    BY <1>1, <2>1, Stutters DEF caseVars
<1>4. CASE SubmissionIsGuarded
  <2>1. /\ stage \in {"SUBMITTED", "MANUAL_SUBMISSION_REQUIRED"}
        /\ case_state = "DOCUMENT_COMPLETE" /\ case_state' = stage
    BY <1>4 DEF MoveCase, SubmissionIsGuarded
  <2>2. PICK a \in attempts : stage = IF a.outcome = "SUCCESS" THEN "SUBMITTED"
                                      ELSE "MANUAL_SUBMISSION_REQUIRED"
    BY <2>1 DEF Inductive, RunIsSound, FallbacksAreBacked
  <2> DEFINE row == [run |-> a.id, package |-> a.package, outcome |-> a.outcome]
  <2>3. row \in AttemptRows
    BY DEF AttemptRows
  <2>4. Submission!Advance(row)
    BY <1>1, <1>2, <2>1, <2>2 DEF Submission!Advance
  <2> QED
    BY <2>3, <2>4 DEF Submission!Next
<1> QED
  BY <1>3, <1>4

\* A run after a correction resumes the case, and any other finds it as it is.
LEMMA RunRefines ==
    ASSUME StartRun \/ RequestResubmission
    PROVE  [Submission!Next]_(Submission!vars)
<1>1. UNCHANGED <<current_package, fallback, packages, attempts>>
  BY DEF StartRun, RequestResubmission, tableVars
<1>2. PackageRows' = PackageRows /\ AttemptRows' = AttemptRows
  BY <1>1 DEF PackageRows, AttemptRows
<1>3. CASE StartRun /\ case_state = "RESUBMISSION_PENDING"
  BY <1>1, <1>2, <1>3 DEF StartRun, Submission!Resume, Submission!Next
<1>4. CASE StartRun /\ case_state # "RESUBMISSION_PENDING"
  BY <1>1, <1>4, Stutters DEF StartRun, caseVars
<1>5. CASE RequestResubmission
  BY <1>1, <1>2, <1>5
  DEF RequestResubmission, Submission!RequestResubmission, Submission!Next
<1> QED
  BY <1>3, <1>4, <1>5

\* No other step of an execution or of Temporal shows.
LEMMA SubmissionNextRefines ==
    ASSUME Inductive, PackagesAreMade, FallbacksAreBacked, [Next]_vars
    PROVE  [Submission!Next]_(Submission!vars)
<1>1. ASSUME NEW x \in Execution, Execute(x)
      PROVE  [Submission!Next]_(Submission!vars)
  <2>1. CASE FindPackage(x) \/ FindAttempt(x) \/ LockCase(x) \/ Reload(x) \/ Return(x)
    BY <2>1, Stutters DEF FindPackage, FindAttempt, LockCase, Reload, Return, tableVars
  <2>2. CASE PutDocument(x) \/ PutManifest(x) \/ PutReceipt(x)
    BY <2>2, Stutters DEF PutDocument, PutManifest, PutReceipt, packageTables
  <2>3. CASE InsertPackage(x)
    BY <2>3, InsertRefines
  <2>4. CASE CommitAttempt(x)
    BY <2>4, CommitRefines
  <2>5. CASE RecordFailure(x)
    BY <2>5, FailureRefines
  <2> QED
    BY <1>1, <2>1, <2>2, <2>3, <2>4, <2>5, Zenon DEF Execute
<1>2. ASSUME NEW x \in Execution, Crash(x) \/ Raise(x) \/ Start(x)
      PROVE  UNCHANGED Submission!vars
  BY <1>2, Stutters DEF Crash, Raise, Start, tableVars
<1>3. CASE MoveCase
  BY <1>3, MoveRefines
<1>4. CASE StartRun \/ RequestResubmission
  BY <1>4, RunRefines
<1>5. CASE UNCHANGED vars
  BY <1>5, Stutters DEF vars, tableVars
<1> QED
  BY <1>1, <1>2, <1>3, <1>4, <1>5, Zenon DEF Next, Schedule, TimeOut

\* The activities and the run keep their promise: a case has one attempt at
\* submission, whatever overlaps and fails, and goes where its outcome says.
THEOREM SubmissionRefines == Spec => SubmittedOnce
<1>1. Init => Submission!Init
  BY DEF Init, PackageRows, AttemptRows, Submission!Init
<1>2. Inductive /\ PackagesAreMade /\ FallbacksAreBacked /\ [Next]_vars
      => [Submission!Next]_(Submission!vars)
  BY SubmissionNextRefines
<1> QED
  BY <1>1, <1>2, SubmissionRows, PTL DEF Spec, SubmittedOnce, Submission!Spec
=============================================================================
