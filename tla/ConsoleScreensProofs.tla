------------------------ MODULE ConsoleScreensProofs ------------------------
(***************************************************************************)
(* What the console's screens promise, for any questions, keys, calls,     *)
(* pages and screens: first each of them (AppWizardProofs has the wizard), *)
(* then all of them together, as MCConsoleScreens composes them.           *)
(***************************************************************************)
EXTENDS MCConsoleScreens, AppWizardProofs

----------------------------------------------------------------------------
(* A query and an action, however many questions, answers and clicks there *)
(* are, and in whatever order the answers come.                            *)

\* Every run has asked something.
RunsAsked == \A g \in Generations : run[g].state # "none" => run[g].answer # NoData

\* The latest run carries the answer to the question on screen, no older than what
\* is shown.
LatestRun ==
    /\ data.version <= now
    /\ run[generation].state # "none"
         => /\ run[generation].answer.of = {question}
            /\ data.version <= run[generation].answer.version
            /\ run[generation].answer.version <= now

\* The latch says whether the action runs.
Latched == actions = IF inFlight THEN 1 ELSE 0

QueryInv == TypeOK /\ RunsAsked /\ LatestRun /\ AnswersItsQuestion /\ Latched

----------------------------------------------------------------------------

LEMMA NowType == TypeOK => now \in Nat /\ now \in 0..MaxChanges
  BY BoundsAssumption DEF TypeOK

LEMMA VersionType ==
  ASSUME NEW d \in Data
  PROVE  d.version \in Int
  BY BoundsAssumption DEF Data, NoData

LEMMA NoRunType == NoRun \in Run /\ NoRun.state = "none"
  BY DEF NoRun, Run, Data

LEMMA AskedType ==
  ASSUME TypeOK, NEW q \in Questions, NEW spinner \in BOOLEAN
  PROVE  /\ Asked(q, spinner) \in Run
         /\ Asked(q, spinner).state = "asked"
         /\ Asked(q, spinner).answer.of = {q}
         /\ Asked(q, spinner).answer.version = now
<1>1. [of |-> {q}, version |-> now] \in Data
  BY NowType DEF Data
<1> QED
  BY <1>1 DEF Asked, Run

LEMMA AnswerType ==
  ASSUME TypeOK, NEW g \in Generations
  PROVE  run[g].answer \in Data /\ run[g].answer.version \in Int
  BY VersionType DEF TypeOK, Run

\* A run that the server answers keeps its question.
LEMMA ServedType ==
  ASSUME NEW r \in Run, NEW v \in 0..MaxChanges, r.answer # NoData
  PROVE  /\ [r EXCEPT !.state = "answered", !.answer.version = v] \in Run
         /\ [r EXCEPT !.state = "answered", !.answer.version = v].answer.of = r.answer.of
         /\ [r EXCEPT !.state = "answered", !.answer.version = v].answer.version = v
         /\ [r EXCEPT !.state = "answered", !.answer.version = v].answer # NoData
<1> DEFINE a == [r.answer EXCEPT !.version = v]
<1>1. r.answer \in Data
  BY DEF Run
<1>2. a \in Data /\ a.of = r.answer.of /\ a.version = v /\ a # NoData
  BY <1>1 DEF Data, NoData
<1>3. [r EXCEPT !.state = "answered", !.answer.version = v]
        = [r EXCEPT !.state = "answered", !.answer = a]
  BY DEF Run
<1> HIDE DEF a
<1> QED
  BY <1>2, <1>3 DEF Run

----------------------------------------------------------------------------

LEMMA QueryInit == Init => QueryInv
<1> SUFFICES ASSUME Init PROVE QueryInv
  OBVIOUS
<1>1. now = 0 /\ now \in 0..MaxChanges /\ question \in Questions
  BY BoundsAssumption DEF Init
<1>2. NoData \in Data /\ [of |-> {question}, version |-> now] \in Data
  BY <1>1 DEF Data
<1>3. Asked(question, TRUE) \in Run /\ Asked(question, TRUE).answer.of = {question}
        /\ Asked(question, TRUE).answer.version = 0
  BY <1>1, <1>2 DEF Asked, Run
<1>4. 1 \in Generations
  BY BoundsAssumption DEF Generations
<1>5. TypeOK
  BY <1>1, <1>2, <1>3, <1>4, NoRunType DEF Init, TypeOK
<1>6. run[generation] = Asked(question, TRUE)
  BY <1>4 DEF Init
<1>7. data.version = -1 /\ -1 <= 0
  BY DEF Init, NoData
<1>8. LatestRun
  <2>1. run[generation].answer.of = {question} /\ run[generation].answer.version = 0
    BY <1>3, <1>6
  <2> QED
    BY <1>1, <1>7, <2>1 DEF LatestRun
<1>9. RunsAsked
  <2> SUFFICES ASSUME NEW g \in Generations, run[g].state # "none"
               PROVE  run[g].answer # NoData
    BY DEF RunsAsked
  <2>1. g = 1
    BY NoRunType DEF Init
  <2>2. run[g].answer = [of |-> {question}, version |-> now]
    BY <2>1, <1>6 DEF Init, Asked
  <2> QED
    BY <2>2, <1>1 DEF NoData
<1> QED
  BY <1>5, <1>8, <1>9 DEF Init, QueryInv, AnswersItsQuestion, Latched

\* A run begins, of a new question or of the same.
LEMMA StartInv ==
  ASSUME QueryInv, NEW g, NEW q \in Questions, NEW spinner \in BOOLEAN,
         Start(g, q, spinner), question' = q, q # question => spinner,
         UNCHANGED <<now, data, error, action>>
  PROVE  QueryInv'
<1> USE DEF QueryInv
<1>1. g \in Generations /\ generation' = g /\ loading' = (spinner \/ loading)
      /\ run' = [run EXCEPT ![g] = Asked(q, spinner)]
  BY DEF Start
<1>2. /\ Asked(q, spinner) \in Run
      /\ Asked(q, spinner).answer.of = {q}
      /\ Asked(q, spinner).answer.version = now
  BY AskedType
<1>3. run'[g] = Asked(q, spinner) /\ run' \in [Generations -> Run]
      /\ \A h \in Generations \ {g} : run'[h] = run[h]
  BY <1>1, <1>2 DEF TypeOK
<1>4. TypeOK'
  BY <1>1, <1>3 DEF TypeOK, action
<1>5. Asked(q, spinner).answer # NoData
  BY <1>2 DEF NoData
<1>6. RunsAsked'
  BY <1>3, <1>5 DEF RunsAsked
<1>7. LatestRun'
  BY <1>1, <1>2, <1>3, NowType DEF LatestRun
<1>8. AnswersItsQuestion'
  BY <1>1 DEF AnswersItsQuestion
<1> QED
  BY <1>4, <1>6, <1>7, <1>8 DEF Latched, action

LEMMA ChangeQuestionInv ==
  ASSUME QueryInv, NEW q \in Questions, ChangeQuestion(q) PROVE QueryInv'
  BY StartInv DEF ChangeQuestion

LEMMA RefreshInv == ASSUME QueryInv, Refresh PROVE QueryInv'
<1>1. question \in Questions
  BY DEF QueryInv, TypeOK
<1>2. PICK q \in Questions : q = question
  BY <1>1
<1> QED
  BY <1>2, StartInv DEF Refresh

LEMMA ChangeInv == ASSUME QueryInv, Change PROVE QueryInv'
<1> USE DEF QueryInv
<1>1. TypeOK'
  BY NowType, BoundsAssumption DEF Change, TypeOK, query, action
<1>2. data.version \in Int /\ run[generation].answer.version \in Int /\ now \in Nat
  BY NowType, VersionType, AnswerType DEF TypeOK
<1>3. LatestRun'
  BY <1>2 DEF Change, query, LatestRun
<1> QED
  BY <1>1, <1>3 DEF Change, query, action, RunsAsked, AnswersItsQuestion, Latched

LEMMA ServeInv == ASSUME QueryInv, NEW g \in Generations, Serve(g) PROVE QueryInv'
<1> USE DEF QueryInv
<1>1. run[g] \in Run /\ run[g].state = "asked" /\ run[g].answer # NoData
      /\ now \in 0..MaxChanges
  BY DEF Serve, TypeOK, RunsAsked
<1>2. PICK v \in 0..MaxChanges : v = now
  BY <1>1
<1>3. PICK r \in Run : r = [run[g] EXCEPT !.state = "answered", !.answer.version = v]
                       /\ r.answer.of = run[g].answer.of /\ r.answer.version = v
                       /\ r.answer # NoData
  BY <1>1, ServedType
<1>4. run' = [run EXCEPT ![g] = r]
  BY <1>2, <1>3 DEF Serve
<1>5. run' \in [Generations -> Run] /\ run'[g] = r
      /\ \A h \in Generations \ {g} : run'[h] = run[h]
  BY <1>4 DEF TypeOK
<1>6. TypeOK'
  BY <1>5 DEF Serve, TypeOK, action
<1>7. RunsAsked'
  BY <1>3, <1>5 DEF RunsAsked
<1>8. LatestRun'
  BY <1>1, <1>2, <1>3, <1>5 DEF Serve, LatestRun, TypeOK
<1> QED
  BY <1>6, <1>7, <1>8 DEF Serve, AnswersItsQuestion, Latched, action

\* A run that has ended leaves the others as they are.
LEMMA FinishedType ==
  ASSUME QueryInv, NEW g \in Generations, Finished(g)
  PROVE  /\ run' \in [Generations -> Run]
         /\ run'[g].state = "none"
         /\ \A h \in Generations \ {g} : run'[h] = run[h]
  BY NoRunType DEF QueryInv, TypeOK, Finished

LEMMA ResolveInv == ASSUME QueryInv, NEW g \in Generations, Resolve(g) PROVE QueryInv'
<1> USE DEF QueryInv
<1>1. /\ run' \in [Generations -> Run]
      /\ run'[g].state = "none"
      /\ \A h \in Generations \ {g} : run'[h] = run[h]
  BY FinishedType DEF Resolve
<1>2. data' \in Data /\ error' \in BOOLEAN /\ loading' \in BOOLEAN
  BY AnswerType DEF Resolve, TypeOK
<1>3. TypeOK'
  BY <1>1, <1>2 DEF Resolve, TypeOK, action
<1>4. RunsAsked'
  BY <1>1 DEF RunsAsked
<1>5. g = generation =>
         run[g].answer.of = {question} /\ data.version <= run[g].answer.version
  BY DEF Resolve, LatestRun
<1>6. CASE g = generation
  <2>1. data' = run[g].answer /\ data'.of = {question}
    BY <1>5, <1>6 DEF Resolve
  <2>2. run[g].answer.version <= now
    BY <1>6 DEF Resolve, LatestRun
  <2> QED
    BY <1>1, <1>3, <1>4, <1>6, <2>1, <2>2
    DEF Resolve, LatestRun, AnswersItsQuestion, Latched, action, TypeOK
<1>7. CASE g # generation
  BY <1>1, <1>3, <1>4, <1>7
  DEF Resolve, LatestRun, AnswersItsQuestion, Latched, action, TypeOK
<1> QED
  BY <1>6, <1>7

LEMMA RejectInv == ASSUME QueryInv, NEW g \in Generations, Reject(g) PROVE QueryInv'
<1> USE DEF QueryInv
<1>1. /\ run' \in [Generations -> Run]
      /\ run'[g].state = "none"
      /\ \A h \in Generations \ {g} : run'[h] = run[h]
  BY FinishedType DEF Reject
<1>2. data' = data /\ error' \in BOOLEAN /\ loading' \in BOOLEAN
  BY DEF Reject, TypeOK
<1>3. TypeOK'
  BY <1>1, <1>2 DEF Reject, TypeOK, action
<1>4. RunsAsked' /\ LatestRun'
  BY <1>1, <1>2, <1>3 DEF Reject, RunsAsked, LatestRun, TypeOK
<1> QED
  BY <1>3, <1>4 DEF Reject, AnswersItsQuestion, Latched, action

LEMMA ActionInv == ASSUME QueryInv, Click \/ Render \/ Settle PROVE QueryInv'
<1> USE DEF QueryInv
<1>1. UNCHANGED <<now, query>>
  BY DEF Click, Render, Settle
<1>2. Latched' /\ inFlight' \in BOOLEAN /\ pending' \in BOOLEAN
  <2>1. ASSUME Click PROVE Latched' /\ inFlight' \in BOOLEAN /\ pending' \in BOOLEAN
    BY <2>1 DEF Click, Latched, TypeOK
  <2>2. ASSUME Render PROVE Latched' /\ inFlight' \in BOOLEAN /\ pending' \in BOOLEAN
    BY <2>2 DEF Render, Latched, TypeOK
  <2>3. ASSUME Settle PROVE Latched' /\ inFlight' \in BOOLEAN /\ pending' \in BOOLEAN
    <3>1. actions = 1 /\ actions' = 0
      BY <2>3 DEF Settle, Latched
    <3> QED
      BY <2>3, <3>1 DEF Settle, Latched, TypeOK
  <2> QED
    BY <2>1, <2>2, <2>3
<1>3. actions' \in Nat
  BY <1>2 DEF Latched
<1>4. TypeOK'
  BY <1>1, <1>2, <1>3 DEF TypeOK, query
<1> QED
  BY <1>1, <1>2, <1>4 DEF RunsAsked, LatestRun, AnswersItsQuestion, query

LEMMA QueryStutter == ASSUME QueryInv, UNCHANGED vars PROVE QueryInv'
  BY DEF QueryInv, TypeOK, RunsAsked, LatestRun, AnswersItsQuestion, Latched, vars, query, action

LEMMA QueryNext == ASSUME QueryInv, [Next]_vars PROVE QueryInv'
<1>1. ASSUME NEW g \in Generations, Answer(g) PROVE QueryInv'
  BY <1>1, ServeInv, ResolveInv, RejectInv DEF Answer
<1> QED
  BY <1>1, ChangeInv, ChangeQuestionInv, RefreshInv, ActionInv, QueryStutter DEF Next

THEOREM QueryInvariance == Spec => []QueryInv
  BY QueryInit, QueryNext, PTL DEF Spec

----------------------------------------------------------------------------
(* The properties.                                                         *)

\* Types of the query and of the action, whatever is asked (useQuery, useAction).
THEOREM QueryTypeCorrect == Spec => []TypeOK
  BY QueryInvariance, PTL DEF QueryInv

\* What is on screen answers the question asked now, unless the screen says that
\* it is loading or that it failed (useQuery's generation counter).
THEOREM RightAnswer == Spec => []AnswersItsQuestion
  BY QueryInvariance, PTL DEF QueryInv

\* A double click never runs an action twice at once (useAction's ref).
THEOREM SingleAction == Spec => []OneActionAtATime
<1>1. QueryInv => OneActionAtATime
  BY DEF QueryInv, Latched, OneActionAtATime
<1> QED
  BY <1>1, QueryInvariance, PTL

\* Only the answer to the latest run replaces what is shown.
LEMMA StepForward ==
  ASSUME QueryInv, [Next]_vars
  PROVE  [data.of = data'.of => data'.version >= data.version]_vars
<1>1. data.version \in Int
  BY VersionType DEF QueryInv, TypeOK
<1>2. ASSUME NEW g \in Generations, Resolve(g)
      PROVE  data'.version >= data.version
  <2>1. CASE g = generation
    BY <1>1, <1>2, <2>1, AnswerType DEF QueryInv, LatestRun, Resolve
  <2>2. CASE g # generation
    BY <1>1, <1>2, <2>2 DEF Resolve
  <2> QED
    BY <2>1, <2>2
<1>3. data' = data \/ \E g \in Generations : Resolve(g)
  BY DEF Next, Change, ChangeQuestion, Refresh, Answer, Serve, Reject, Click, Render,
         Settle, vars, query
<1> QED
  BY <1>1, <1>2, <1>3

\* A slow request never overwrites fresher data: only the latest run writes, and it
\* was asked after whatever is shown had been answered.
THEOREM Forward == Spec => NeverGoesBack
<1>1. QueryInv /\ [Next]_vars =>
        [data.of = data'.of => data'.version >= data.version]_vars
  BY StepForward
<1> QED
  BY <1>1, QueryInvariance, PTL DEF Spec, NeverGoesBack

----------------------------------------------------------------------------
(* A group's calls.  The inductive invariant: what a screen or a row shows *)
(* of a key comes after the group's first trust in it, and so does what a  *)
(* sync read; a call whose screen knew the manager is proved by the        *)
(* manager's account; a key is added by one call at most, so that none     *)
(* comes back once it was removed; and a trusted key whose row says        *)
(* removed, or that goes without proof, was misread.                       *)

Busy(q) == q.pc # "idle"

Proved(q) ==
    /\ q.pc \in {"sign", "wallet"} => q.tx = "none"
    /\ q.tx = "pending" => q.proof # "none"
    /\ q.steady => /\ (q.pc = "sign" \/ q.proof = "userop") => manager = "smart"
                   /\ (q.pc = "wallet" \/ q.proof = "wallet") => manager = "eoa"

Followed(q) ==
    /\ ~Busy(q) => q = Onchain!Idle
    /\ (Busy(q) /\ q.kind = "remove") =>
         /\ q.thing \in Things /\ trust[q.thing] # "never"
         /\ q.tx = "mined" => trust[q.thing] = "removed"
    /\ (Busy(q) /\ q.kind = "add") =>
         /\ q.thing \in Things
         /\ q.tx # "mined" => trust[q.thing] = "never"

Routed(q) ==
    /\ q.pc = "prove" => q.kind # "add"
    /\ q.pc = "drop" => q.kind = "remove" /\ (trust[q.thing] = "trusted" => q.misled)

RowsInv ==
    /\ row \in [Things -> Onchain!Row] /\ sync \in [Syncs -> Onchain!Sync]
    /\ misread \subseteq Things
    /\ \A x \in Things : (row[x] # "absent" \/ page.row[x] # "absent") => trust[x] # "never"
    /\ \A y \in Syncs, x \in Things : x \in sync[y].keys => trust[x] # "never"
    /\ \A x \in Things : (row[x] = "removed" /\ trust[x] = "trusted") => x \in misread

Apart(q, p) == (Busy(q) /\ q.kind = "add" /\ Busy(p) /\ p.kind = "add") => q.thing # p.thing

CallsInv ==
    /\ \A c \in Calls : Proved(call[c]) /\ Followed(call[c]) /\ Routed(call[c])
    /\ \A c, d \in Calls : c # d => Apart(call[c], call[d])

OnchainInv == Onchain!TypeOK /\ RowsInv /\ CallsInv

LEMMA IdleCall ==
  /\ Onchain!Idle \in Onchain!Call /\ ~Busy(Onchain!Idle)
  /\ Proved(Onchain!Idle) /\ Followed(Onchain!Idle)
  /\ Routed(Onchain!Idle) /\ Onchain!Idle.pc = "idle"
  /\ Proved(Onchain!Idle)' /\ Followed(Onchain!Idle)' /\ Routed(Onchain!Idle)'
  /\ \A q : Apart(Onchain!Idle, q) /\ Apart(q, Onchain!Idle)
  BY DEF Onchain!Idle, Onchain!Call, Onchain!Transports, Busy, Proved, Followed, Routed, Apart

LEMMA OnchainInit == Onchain!Init => OnchainInv
<1> SUFFICES ASSUME Onchain!Init
             PROVE  OnchainInv
  OBVIOUS
<1>0. \A c \in Calls : call[c] = Onchain!Idle
  BY DEF Onchain!Init
<1>1. row \in [Things -> Onchain!Row]
  BY DEF Onchain!Init, Onchain!Row
<1>s. ASSUME NEW y \in Syncs
      PROVE  sync[y] \in Onchain!Sync /\ sync[y].keys \subseteq Onchain!Trusted
  BY DEF Onchain!Init, Onchain!NoSync, Onchain!Sync, Onchain!Trusted
<1>2. Onchain!TypeOK
  <2>1. sync \in [Syncs -> Onchain!Sync]
    BY <1>s DEF Onchain!Init
  <2> QED
    BY <1>1, <2>1, IdleCall DEF Onchain!Init, Onchain!TypeOK, Onchain!Page
<1>3. RowsInv
  BY <1>2, <1>s DEF Onchain!Init, Onchain!TypeOK, Onchain!Trusted, RowsInv
<1>4. CallsInv
  BY <1>0, IdleCall DEF CallsInv
<1> QED
  BY <1>2, <1>3, <1>4 DEF OnchainInv

\* What stays of a call that goes on.
Kept(q, p) ==
    /\ q.kind = p.kind /\ q.thing = p.thing /\ q.proof = p.proof
    /\ q.steady = p.steady /\ q.misled = p.misled

\* The rows and the syncs stay as they are, and the screen shows what it showed or reads.
LEMMA RowsStay ==
  ASSUME OnchainInv, UNCHANGED <<trust, row, sync, misread>>,
         page'.row = page.row \/ page'.row = row
  PROVE  RowsInv'
  BY DEF OnchainInv, RowsInv

\* A step of one call, which the group does not see.
LEMMA CallStep ==
  ASSUME OnchainInv, NEW c \in Calls, NEW q \in Onchain!Call,
         call' = [call EXCEPT ![c] = q], UNCHANGED <<manager, trust>>,
         Proved(q), Followed(q), Routed(q),
         \A d \in Calls : d # c => Apart(q, call[d]) /\ Apart(call[d], q),
         session' \in BOOLEAN, page' \in Onchain!Page, pendingAction' \in BOOLEAN, RowsInv'
  PROVE  OnchainInv'
<1>1. Onchain!TypeOK'
  BY DEF OnchainInv, Onchain!TypeOK, RowsInv
<1>2. \A d \in Calls : call'[d] = IF d = c THEN q ELSE call[d]
  BY DEF OnchainInv, Onchain!TypeOK
<1>3. ASSUME NEW d \in Calls
      PROVE  Proved(call[d])' /\ Followed(call[d])' /\ Routed(call[d])'
  <2>1. /\ Proved(q) /\ Followed(q) /\ Routed(q)
        /\ Proved(call[d]) /\ Followed(call[d]) /\ Routed(call[d])
    BY DEF OnchainInv, CallsInv
  <2> QED
    BY <1>2, <2>1 DEF Proved, Followed, Routed
<1>4. ASSUME NEW d \in Calls, NEW e \in Calls, d # e
      PROVE  Apart(call[d], call[e])'
  BY <1>2, <1>4 DEF OnchainInv, CallsInv, Apart
<1> QED
  BY <1>1, <1>3, <1>4 DEF OnchainInv, CallsInv

\* A step of a call that goes on.
LEMMA GoesOn ==
  ASSUME OnchainInv, NEW c \in Calls, NEW q \in Onchain!Call,
         Busy(call[c]), Busy(q), q.kind = call[c].kind, q.thing = call[c].thing,
         q.tx = "mined" => call[c].tx = "mined",
         call[c].tx = "mined" => (q.tx = "mined" \/ q.kind # "add"),
         call' = [call EXCEPT ![c] = q], UNCHANGED <<manager, trust>>, Proved(q),
         Routed(q), session' \in BOOLEAN, page' \in Onchain!Page,
         pendingAction' \in BOOLEAN, RowsInv'
  PROVE  OnchainInv'
<1>1. Followed(q)
  BY DEF OnchainInv, CallsInv, Followed
<1>2. \A d \in Calls : d # c => Apart(q, call[d]) /\ Apart(call[d], q)
  BY DEF OnchainInv, CallsInv, Apart
<1> QED
  BY <1>1, <1>2, CallStep

\* A call that ends, or whose transaction nobody waits for any more.
LEMMA OverStep ==
  ASSUME OnchainInv, NEW c \in Calls, Onchain!Over(c), UNCHANGED <<manager, trust>>,
         session' \in BOOLEAN, page' \in Onchain!Page, RowsInv'
  PROVE  OnchainInv'
<1>0. /\ call \in [Calls -> Onchain!Call] /\ pendingAction' \in BOOLEAN
      /\ Proved(call[c])
  BY DEF OnchainInv, Onchain!TypeOK, Onchain!Over, CallsInv
<1>1. CASE call[c].tx = "pending"
  <2> DEFINE q == [call[c] EXCEPT !.pc = "gone"]
  <2>1. call' = [call EXCEPT ![c] = q]
    BY <1>0, <1>1 DEF Onchain!Over
  <2>2. /\ q \in Onchain!Call /\ q.pc = "gone" /\ q.kind = call[c].kind
        /\ q.thing = call[c].thing /\ q.tx = call[c].tx /\ q.proof = call[c].proof
        /\ q.steady = call[c].steady
    BY <1>0 DEF Onchain!Call
  <2> HIDE DEF q
  <2>3. Proved(q) /\ Busy(q) /\ Routed(q)
    BY <1>0, <2>2 DEF Proved, Busy, Routed
  <2>4. Busy(call[c])
    BY <1>1, IdleCall DEF OnchainInv, CallsInv, Followed, Onchain!Idle
  <2> QED
    BY <1>0, <1>1, <2>1, <2>2, <2>3, <2>4, GoesOn
<1>2. CASE call[c].tx # "pending"
  <2>1. call' = [call EXCEPT ![c] = Onchain!Idle]
    BY <1>0, <1>2 DEF Onchain!Over
  <2> QED
    BY <1>0, <2>1, IdleCall, CallStep
<1> QED
  BY <1>1, <1>2

\* A click: the page shows who signs, and the key that is to go.
LEMMA BeginStep ==
  ASSUME OnchainInv, NEW c \in Calls, NEW kind \in {"add", "remove", "change"},
         NEW x \in Things \cup {Nothing}, NEW at \in {"sign", "wallet", "request"},
         Onchain!Begin(c, kind, x, at), pendingAction' \in BOOLEAN,
         at = "sign" => page.manager = "smart", at = "wallet" => page.manager = "eoa",
         kind = "remove" => x \in Things /\ trust[x] # "never",
         kind = "add" => /\ x \in Things /\ trust[x] = "never"
                         /\ \A d \in Calls : call[d].thing # x
  PROVE  OnchainInv'
<1> DEFINE q == [pc |-> at, kind |-> kind, thing |-> x, proof |-> "none",
                 tx |-> "none", steady |-> page.manager = manager, misled |-> FALSE]
<1>1. /\ call' = [call EXCEPT ![c] = q]
      /\ UNCHANGED <<manager, trust, row, session, page, sync, misread>>
  BY DEF Onchain!Begin, Onchain!onChain, Onchain!platform
<1>2. (page.manager = manager) \in BOOLEAN
  OBVIOUS
<1>3. /\ q \in Onchain!Call /\ q.pc = at /\ q.kind = kind /\ q.thing = x /\ q.proof = "none"
      /\ q.tx = "none" /\ (q.steady => page.manager = manager)
  BY <1>2 DEF Onchain!Call, Onchain!Transports
<1> HIDE DEF q
<1>4. Proved(q) /\ Routed(q)
  BY <1>3 DEF Proved, Routed
<1>5. Followed(q)
  BY <1>3 DEF Followed, Busy
<1>6. \A d \in Calls : d # c => Apart(q, call[d]) /\ Apart(call[d], q)
  BY <1>3 DEF Apart
<1>7. RowsInv'
  BY <1>1, RowsStay
<1> QED
  BY <1>1, <1>3, <1>4, <1>5, <1>6, <1>7, CallStep DEF OnchainInv, Onchain!TypeOK

LEMMA ClickStep ==
  ASSUME OnchainInv, NEW c \in Calls, Onchain!ClickOn(c)
  PROVE  OnchainInv'
<1>0. /\ pendingAction' \in BOOLEAN
      /\ \A x \in Things : page.row[x] # "absent" => trust[x] # "never"
  BY DEF OnchainInv, RowsInv, Onchain!TypeOK, Onchain!ClickOn, Onchain!GenerateKey,
         Onchain!RevokeKey, Onchain!RevokeRow, Onchain!ChangeMembership, Onchain!Invite
<1>1. ASSUME NEW kind \in {"add", "remove", "change"}, NEW x \in Things \cup {Nothing},
             Onchain!Submit(c, kind, x),
             kind = "remove" => x \in Things /\ trust[x] # "never",
             kind = "add" => /\ x \in Things /\ trust[x] = "never"
                             /\ \A d \in Calls : call[d].thing # x
      PROVE  OnchainInv'
  <2> DEFINE at == IF Onchain!Transport(page) = "userop" THEN "sign" ELSE "wallet"
  <2>1. /\ at \in {"sign", "wallet", "request"} /\ Onchain!Begin(c, kind, x, at)
        /\ at = "sign" => page.manager = "smart"
        /\ at = "wallet" => page.manager = "eoa"
    <3>1. CASE page.manager = "smart" /\ page.ready
      BY <1>1, <3>1 DEF Onchain!Submit, Onchain!Transport
    <3>2. CASE page.manager = "eoa"
      BY <1>1, <3>2 DEF Onchain!Submit, Onchain!Transport
    <3>3. CASE ~(page.manager = "smart" /\ page.ready) /\ page.manager # "eoa"
      BY <1>1, <3>3 DEF Onchain!Submit, Onchain!Transport
    <3> QED
      BY <3>1, <3>2, <3>3
  <2> HIDE DEF at
  <2> QED
    BY <1>0, <1>1, <2>1, BeginStep
<1>2. ASSUME NEW x \in Things, Onchain!GenerateKey(c, x)
      PROVE  OnchainInv'
  BY <1>1, <1>2 DEF Onchain!GenerateKey
<1>3. ASSUME NEW x \in Things, Onchain!RevokeKey(c, x)
      PROVE  OnchainInv'
  BY <1>0, <1>1, <1>3 DEF Onchain!RevokeKey
<1>4. ASSUME NEW x \in Things, Onchain!RevokeRow(c, x)
      PROVE  OnchainInv'
  BY <1>0, <1>4, BeginStep DEF Onchain!RevokeRow
<1>5. CASE Onchain!ChangeMembership(c) \/ Onchain!Invite(c)
  BY <1>1, <1>5 DEF Onchain!ChangeMembership, Onchain!Invite
<1> QED
  BY <1>2, <1>3, <1>4, <1>5 DEF Onchain!ClickOn

\* The screen reads the manager and the rows again.
LEMMA ReadStep ==
  ASSUME OnchainInv, Onchain!Read
  PROVE  page' \in Onchain!Page /\ RowsInv'
<1>1. /\ page' = [page EXCEPT !.manager = manager, !.row = row]
      /\ UNCHANGED <<row, trust, sync, misread>>
      /\ manager \in Onchain!Managers /\ row \in [Things -> Onchain!Row]
      /\ page \in Onchain!Page
  BY DEF OnchainInv, Onchain!TypeOK, Onchain!Read, Onchain!onChain, Onchain!platform
<1>2. page' \in Onchain!Page /\ page'.row = row
  BY <1>1 DEF Onchain!Page
<1> QED
  BY <1>1, <1>2, RowsStay

LEMMA ProceedStep ==
  ASSUME OnchainInv, NEW c \in Calls, Onchain!Proceed(c)
  PROVE  OnchainInv'
<1>0. /\ Onchain!TypeOK /\ RowsInv /\ call \in [Calls -> Onchain!Call]
      /\ call[c] \in Onchain!Call /\ Proved(call[c]) /\ Followed(call[c])
      /\ Routed(call[c])
  BY DEF OnchainInv, CallsInv, Onchain!TypeOK
<1>1. CASE Onchain!Sign(c)
  <2> DEFINE q == [call[c] EXCEPT !.pc = "request", !.proof = "userop"]
  <2>1. /\ call' = [call EXCEPT ![c] = q] /\ call[c].pc = "sign"
        /\ UNCHANGED <<manager, trust, row, sync, misread, session, page, pendingAction>>
    BY <1>0, <1>1 DEF Onchain!Sign, Onchain!onChain, Onchain!platform,
        Onchain!tab
  <2>2. /\ q \in Onchain!Call /\ q.pc = "request" /\ q.proof = "userop"
        /\ q.kind = call[c].kind /\ q.thing = call[c].thing /\ q.tx = call[c].tx
        /\ q.steady = call[c].steady
    BY <1>0 DEF Onchain!Call, Onchain!Transports
  <2> HIDE DEF q
  <2>3. Busy(q) /\ Busy(call[c]) /\ Proved(q) /\ Routed(q)
    BY <1>0, <2>1, <2>2 DEF Busy, Proved, Routed
  <2>4. RowsInv'
    BY <2>1, RowsStay
  <2> QED
    BY <1>0, <2>1, <2>2, <2>3, <2>4, GoesOn DEF Onchain!TypeOK
<1>2. CASE Onchain!SendTransaction(c)
  <2> DEFINE q == [call[c] EXCEPT !.pc = "wait", !.proof = "wallet", !.tx = "pending"]
  <2>1. /\ call' = [call EXCEPT ![c] = q] /\ call[c].pc = "wallet"
        /\ UNCHANGED <<manager, trust, row, sync, misread, session, page, pendingAction>>
    BY <1>0, <1>2 DEF Onchain!SendTransaction, Onchain!onChain, Onchain!platform,
        Onchain!tab
  <2>2. /\ q \in Onchain!Call /\ q.pc = "wait" /\ q.proof = "wallet"
        /\ q.kind = call[c].kind /\ q.thing = call[c].thing /\ q.tx = "pending"
        /\ q.steady = call[c].steady
    BY <1>0 DEF Onchain!Call, Onchain!Transports
  <2> HIDE DEF q
  <2>3. Busy(q) /\ Busy(call[c]) /\ Proved(q) /\ Routed(q)
    BY <1>0, <2>1, <2>2 DEF Busy, Proved, Routed
  <2>4. RowsInv'
    BY <2>1, RowsStay
  <2>5. call[c].tx # "mined"
    BY <1>0, <2>1 DEF Proved
  <2> QED
    BY <1>0, <2>1, <2>2, <2>3, <2>4, <2>5, GoesOn DEF Onchain!TypeOK
<1>3. CASE Onchain!FindReceipt(c)
  <2> DEFINE q == [call[c] EXCEPT !.pc = "request"]
  <2>1. /\ call' = [call EXCEPT ![c] = q] /\ call[c].pc = "wait"
        /\ UNCHANGED <<manager, trust, row, sync, misread, session, page, pendingAction>>
    BY <1>0, <1>3 DEF Onchain!FindReceipt, Onchain!Goto, Onchain!onChain, Onchain!platform,
        Onchain!tab
  <2>2. q \in Onchain!Call /\ q.pc = "request" /\ Kept(q, call[c]) /\ q.tx = call[c].tx
    BY <1>0 DEF Onchain!Call, Kept
  <2> HIDE DEF q
  <2>3. Busy(q) /\ Busy(call[c]) /\ Proved(q) /\ Routed(q)
    BY <1>0, <2>1, <2>2 DEF Busy, Proved, Routed, Kept
  <2>4. RowsInv'
    BY <2>1, RowsStay
  <2> QED
    BY <1>0, <2>1, <2>2, <2>3, <2>4, GoesOn DEF Onchain!TypeOK, Kept
<1>4. CASE Onchain!Relay(c)
  <2> DEFINE q == [call[c] EXCEPT !.pc = "submitted", !.tx = "pending"]
  <2>1. /\ call' = [call EXCEPT ![c] = q] /\ call[c].pc = "prove"
        /\ call[c].proof = "userop" /\ call[c].kind # "add"
        /\ UNCHANGED <<manager, trust, row, sync, misread, session, page, pendingAction>>
    BY <1>0, <1>4 DEF Routed, Onchain!Relay, Onchain!onChain, Onchain!platform,
        Onchain!tab
  <2>2. q \in Onchain!Call /\ q.pc = "submitted" /\ Kept(q, call[c]) /\ q.tx = "pending"
    BY <1>0 DEF Onchain!Call, Kept
  <2> HIDE DEF q
  <2>3. Busy(q) /\ Busy(call[c]) /\ Proved(q) /\ Routed(q)
    BY <1>0, <2>1, <2>2 DEF Busy, Proved, Routed, Kept
  <2>4. RowsInv'
    BY <2>1, RowsStay
  <2> QED
    BY <1>0, <2>1, <2>2, <2>3, <2>4, GoesOn DEF Onchain!TypeOK, Kept
<1>5. CASE Onchain!Confirm(c) \/ Onchain!DropRow(c)
  <2> DEFINE q == [call[c] EXCEPT !.pc = "refresh"]
  <2>1. /\ call' = [call EXCEPT ![c] = q] /\ call[c].pc \in {"submitted", "prove", "drop"}
        /\ UNCHANGED <<manager, trust, sync, misread, session, page, pendingAction>>
        /\ \/ row' = row
           \/ call[c].kind = "remove" /\ row' = [row EXCEPT ![call[c].thing] = "revoked"]
    BY <1>0, <1>5
    DEF Onchain!Confirm, Onchain!DropRow, Onchain!Record, Onchain!Goto, Onchain!onChain,
        Onchain!tab
  <2>2. q \in Onchain!Call /\ q.pc = "refresh" /\ Kept(q, call[c]) /\ q.tx = call[c].tx
    BY <1>0 DEF Onchain!Call, Kept
  <2> HIDE DEF q
  <2>3. Busy(q) /\ Busy(call[c]) /\ Proved(q) /\ Routed(q)
    BY <1>0, <2>1, <2>2 DEF Busy, Proved, Routed, Kept
  <2>4. RowsInv'
    <3>1. CASE row' = row
      BY <2>1, <3>1, RowsStay
    <3>2. CASE call[c].kind = "remove" /\ row' = [row EXCEPT ![call[c].thing] = "revoked"]
      <4>1. call[c].thing \in Things /\ trust[call[c].thing] # "never"
        BY <1>0, <2>3, <3>2 DEF Followed
      <4>2. row' \in [Things -> Onchain!Row]
        BY <1>0, <3>2 DEF RowsInv, Onchain!Row
      <4> QED
        BY <1>0, <2>1, <3>2, <4>1, <4>2 DEF RowsInv
    <3> QED
      BY <2>1, <3>1, <3>2
  <2> QED
    BY <1>0, <2>1, <2>2, <2>3, <2>4, GoesOn DEF Onchain!TypeOK, Kept
<1>r. CASE Onchain!ReadRow(c)
  <2> DEFINE q == [call[c] EXCEPT !.pc = IF Onchain!NeedsProof(c) THEN "prove" ELSE "drop",
                                  !.misled = call[c].thing \in misread]
  <2>1. /\ call' = [call EXCEPT ![c] = q] /\ call[c].pc = "request" /\ call[c].kind # "add"
        /\ call[c].kind = "remove" => row[call[c].thing] \in {"active", "removed"}
        /\ UNCHANGED <<manager, trust, row, sync, misread, session, page, pendingAction>>
    BY <1>r DEF Onchain!ReadRow, Onchain!onChain, Onchain!platform, Onchain!tab
  <2>2. /\ q \in Onchain!Call /\ q.kind = call[c].kind /\ q.thing = call[c].thing
        /\ q.proof = call[c].proof /\ q.steady = call[c].steady /\ q.tx = call[c].tx
        /\ q.pc = IF Onchain!NeedsProof(c) THEN "prove" ELSE "drop"
        /\ q.misled = (call[c].thing \in misread)
    <3>1. (call[c].thing \in misread) \in BOOLEAN
      OBVIOUS
    <3> HIDE DEF Onchain!NeedsProof
    <3> QED
      BY <1>0, <3>1 DEF Onchain!Call
  <2> HIDE DEF q
  <2>3. Busy(q) /\ Busy(call[c]) /\ Proved(q)
    BY <1>0, <2>1, <2>2 DEF Busy, Proved
  <2>4. RowsInv'
    BY <2>1, RowsStay
  <2>5. Routed(q)
    <3> SUFFICES ASSUME q.pc = "drop"
                 PROVE  q.kind = "remove" /\ (trust[q.thing] = "trusted" => q.misled)
      BY <2>1, <2>2 DEF Routed
    <3>1. call[c].kind = "remove" /\ row[call[c].thing] # "active"
      BY <2>2 DEF Onchain!NeedsProof
    <3>2. call[c].thing \in Things
      BY <1>0, <2>3, <3>1 DEF Followed
    <3> QED
      BY <1>0, <2>1, <2>2, <3>1, <3>2 DEF RowsInv
  <2> QED
    BY <1>0, <2>1, <2>2, <2>3, <2>4, <2>5, GoesOn DEF Onchain!TypeOK
<1>6. CASE Onchain!FindRevert(c) \/ Onchain!GiveUp(c) \/ Onchain!RefuseKey(c) \/ Onchain!Fail(c)
  <2>1. Onchain!Over(c) /\ UNCHANGED <<manager, trust, row, sync, misread, session, page>>
    BY <1>6
    DEF Onchain!FindRevert, Onchain!GiveUp, Onchain!RefuseKey, Onchain!Fail, Onchain!onChain,
        Onchain!platform
  <2>2. RowsInv'
    BY <2>1, RowsStay
  <2> QED
    BY <1>0, <2>1, <2>2, OverStep DEF Onchain!TypeOK
<1>7. CASE Onchain!Refresh(c)
  <2>1. Onchain!Over(c) /\ Onchain!Read
    BY <1>7 DEF Onchain!Refresh
  <2> QED
    BY <1>0, <2>1, ReadStep, OverStep DEF Onchain!TypeOK, Onchain!Read, Onchain!onChain
<1> QED
  BY <1>1, <1>2, <1>3, <1>4, <1>5, <1>r, <1>6, <1>7 DEF Onchain!Proceed

\* The group takes or refuses a transaction: no other call of the same key's is
\* an addition, so that what the others follow still stands.
LEMMA IncludeStep ==
  ASSUME OnchainInv, NEW c \in Calls, Onchain!Include(c)
  PROVE  OnchainInv'
<1>0. /\ Onchain!TypeOK /\ RowsInv /\ call \in [Calls -> Onchain!Call]
      /\ call[c] \in Onchain!Call /\ Proved(call[c]) /\ Followed(call[c])
      /\ call[c].tx = "pending" /\ Busy(call[c])
  BY IdleCall
  DEF OnchainInv, CallsInv, Onchain!TypeOK, Onchain!Include, Followed, Onchain!Idle
<1> DEFINE takes == Onchain!Takes(c)
           moved == takes /\ call[c].kind # "change"
           to == IF call[c].kind = "add" THEN "trusted" ELSE "removed"
           q == IF call[c].pc = "gone" THEN Onchain!Idle
                ELSE [call[c] EXCEPT !.tx = IF takes THEN "mined" ELSE "reverted"]
<1>1. /\ trust' = IF moved THEN [trust EXCEPT ![call[c].thing] = to] ELSE trust
      /\ call' = [call EXCEPT ![c] = q]
      /\ UNCHANGED <<manager, row, sync, misread, session, page, pendingAction>>
  BY <1>0 DEF Onchain!Include, Onchain!platform, Onchain!tab
<1>2. /\ q \in Onchain!Call
      /\ \/ q = Onchain!Idle
         \/ /\ Kept(q, call[c]) /\ q.pc = call[c].pc
            /\ q.tx = IF takes THEN "mined" ELSE "reverted"
  BY <1>0, IdleCall DEF Onchain!Call, Kept
<1>3. takes /\ call[c].kind = "remove" => trust[call[c].thing] = "trusted"
  BY DEF Onchain!Takes
<1> HIDE DEF q, takes
<1>q. PICK p \in Onchain!Call :
        /\ call' = [call EXCEPT ![c] = p]
        /\ \/ p = Onchain!Idle
           \/ /\ Kept(p, call[c]) /\ p.pc = call[c].pc
              /\ p.tx = IF takes THEN "mined" ELSE "reverted"
  BY <1>1, <1>2
<1>4. call[c].kind \in {"add", "remove", "change"}
  BY <1>0 DEF Onchain!Call
<1>5. \/ trust' = trust /\ (takes => call[c].kind = "change")
      \/ /\ takes /\ call[c].kind = "add" /\ trust[call[c].thing] = "never"
         /\ call[c].thing \in Things
         /\ trust' = [trust EXCEPT ![call[c].thing] = "trusted"]
      \/ /\ takes /\ call[c].kind = "remove" /\ trust[call[c].thing] = "trusted"
         /\ call[c].thing \in Things
         /\ trust' = [trust EXCEPT ![call[c].thing] = "removed"]
  BY <1>0, <1>1, <1>3, <1>4 DEF Followed
<1>6. /\ trust' \in [Things -> {"never", "trusted", "removed"}]
      /\ \A x \in Things : trust[x] # "never" => trust'[x] # "never"
      /\ \A x \in Things : trust[x] = "removed" => trust'[x] = "removed"
      /\ \A x \in Things : trust'[x] # trust[x] => x = call[c].thing
      /\ \A x \in Things : trust'[x] = "trusted" => trust[x] \in {"never", "trusted"}
  BY <1>0, <1>5 DEF Onchain!TypeOK
<1>7. Onchain!TypeOK' /\ RowsInv'
  BY <1>0, <1>1, <1>q, <1>6 DEF Onchain!TypeOK, RowsInv
<1>8. \A d \in Calls : call'[d] = IF d = c THEN p ELSE call[d]
  BY <1>0, <1>q
<1>9. Proved(p)' /\ Followed(p)' /\ Routed(p)'
  <2>1. CASE p = Onchain!Idle
    BY <2>1, IdleCall
  <2>2. CASE /\ Kept(p, call[c]) /\ p.pc = call[c].pc
             /\ p.tx = IF takes THEN "mined" ELSE "reverted"
    <3>1. Proved(p)'
      BY <1>0, <1>1, <2>2 DEF Proved, Kept
    <3>2. Followed(p)'
      BY <1>0, <1>5, <1>6, <2>2 DEF Followed, Kept, Busy, Onchain!TypeOK
    <3>3. Routed(p)'
      <4> SUFFICES ASSUME p.pc = "drop"
                   PROVE  p.kind = "remove" /\ (trust'[p.thing] = "trusted" => p.misled)
        BY <2>2 DEF OnchainInv, CallsInv, Routed, Kept
      <4>1. Routed(call[c]) /\ call[c].pc = "drop"
        BY <2>2 DEF OnchainInv, CallsInv
      <4>2. call[c].thing \in Things /\ trust[call[c].thing] # "never"
        BY <1>0, <4>1 DEF Followed, Routed
      <4> QED
        BY <1>6, <2>2, <4>1, <4>2 DEF Routed, Kept
    <3> QED
      BY <3>1, <3>2, <3>3
  <2> QED
    BY <1>q, <2>1, <2>2
<1>10. ASSUME NEW d \in Calls, d # c
       PROVE  Proved(call[d])' /\ Followed(call[d])' /\ Routed(call[d])'
  <2>1. /\ Proved(call[d]) /\ Followed(call[d]) /\ Routed(call[d])
        /\ Apart(call[d], call[c]) /\ call'[d] = call[d]
    BY <1>8, <1>10 DEF OnchainInv, CallsInv
  <2>2. Proved(call[d])'
    BY <1>1, <2>1 DEF Proved
  <2>3. (Busy(call[d]) /\ call[d].kind = "add") => trust'[call[d].thing] = trust[call[d].thing]
                                                    \/ call[d].tx = "mined"
    BY <1>0, <1>5, <1>6, <2>1 DEF Followed, Apart
  <2>4. Followed(call[d])'
    BY <1>6, <2>1, <2>3 DEF Followed, Busy
  <2>5. Routed(call[d])'
    BY <1>6, <2>1 DEF Followed, Busy, Routed
  <2> QED
    BY <2>2, <2>4, <2>5
<1>11. ASSUME NEW d \in Calls, NEW e \in Calls, d # e
       PROVE  Apart(call[d], call[e])'
  <2>1. Apart(call[d], call[e])
    BY <1>11 DEF OnchainInv, CallsInv
  <2>2. \A g \in Calls : Busy(call'[g]) /\ call'[g].kind = "add" =>
          Busy(call[g]) /\ call[g].kind = "add" /\ call'[g].thing = call[g].thing
    BY <1>0, <1>q, <1>8, IdleCall DEF Kept
  <2> QED
    BY <2>1, <2>2 DEF Apart, Busy
<1> QED
  BY <1>7, <1>8, <1>9, <1>10, <1>11 DEF OnchainInv, CallsInv, Proved, Followed, Routed

LEMMA NetworkStep ==
  ASSUME OnchainInv, Onchain!Network
  PROVE  OnchainInv'
<1>0. /\ Onchain!TypeOK /\ RowsInv /\ call \in [Calls -> Onchain!Call]
      /\ \A c \in Calls : /\ call[c] \in Onchain!Call /\ Proved(call[c]) /\ Followed(call[c])
                         /\ Routed(call[c])
  BY DEF OnchainInv, CallsInv, Onchain!TypeOK
<1>1. ASSUME NEW c \in Calls, Onchain!Lose(c)
      PROVE  OnchainInv'
  <2>1. /\ call[c].tx = "pending"
        /\ UNCHANGED <<manager, trust, row, sync, misread, session, page, pendingAction>>
    BY <1>1 DEF Onchain!Lose, Onchain!onChain, Onchain!platform, Onchain!tab
  <2>2. RowsInv'
    BY <2>1, RowsStay
  <2>3. CASE call[c].pc = "gone"
    <3>1. call' = [call EXCEPT ![c] = Onchain!Idle]
      BY <1>0, <1>1, <2>3 DEF Onchain!Lose
    <3> QED
      BY <1>0, <2>1, <2>2, <3>1, IdleCall, CallStep DEF Onchain!TypeOK
  <2>4. CASE call[c].pc # "gone"
    <3> DEFINE q == [call[c] EXCEPT !.tx = "none"]
    <3>1. call' = [call EXCEPT ![c] = q]
      BY <1>0, <1>1, <2>4 DEF Onchain!Lose
    <3>2. q \in Onchain!Call /\ Kept(q, call[c]) /\ q.pc = call[c].pc /\ q.tx = "none"
      BY <1>0 DEF Onchain!Call, Kept
    <3> HIDE DEF q
    <3>3. Busy(call[c])
      BY <1>0, <2>1, IdleCall DEF Followed, Onchain!Idle
    <3>4. Busy(q) /\ Proved(q) /\ Routed(q)
      BY <1>0, <2>1, <3>2, <3>3 DEF Busy, Proved, Routed, Kept
    <3> QED
      BY <1>0, <2>1, <2>2, <3>1, <3>2, <3>3, <3>4, GoesOn DEF Onchain!TypeOK, Kept
  <2> QED
    BY <2>3, <2>4
<1>2. ASSUME NEW m \in Onchain!Managers, Onchain!TransferManager(m)
      PROVE  OnchainInv'
  <2>1. ASSUME NEW c \in Calls
        PROVE  /\ call'[c] \in Onchain!Call
               /\ \/ call'[c] = call[c] /\ ~Busy(call[c])
                  \/ /\ call'[c].pc = call[c].pc /\ call'[c].kind = call[c].kind
                     /\ call'[c].thing = call[c].thing /\ call'[c].tx = call[c].tx
                     /\ call'[c].proof = call[c].proof /\ ~call'[c].steady
                     /\ call'[c].misled = call[c].misled
    BY <1>0, <1>2 DEF Onchain!TransferManager, Onchain!Call, Busy
  <2>2. call' = [c \in Calls |-> call'[c]]
    BY <1>2 DEF Onchain!TransferManager
  <2>3. UNCHANGED <<trust, row, sync, misread, session, page, pendingAction>> /\ manager' = m
    BY <1>2 DEF Onchain!TransferManager, Onchain!platform, Onchain!tab
  <2>4. call' \in [Calls -> Onchain!Call]
    BY <2>1, <2>2
  <2>5. Onchain!TypeOK' /\ RowsInv'
    BY <1>0, <2>3, <2>4, RowsStay DEF Onchain!TypeOK
  <2>6. ASSUME NEW c \in Calls
        PROVE  Proved(call[c])' /\ Followed(call[c])' /\ Routed(call[c])'
    <3>1. CASE call'[c] = call[c] /\ ~Busy(call[c])
      <4>1. call[c] = Onchain!Idle
        BY <1>0, <3>1 DEF Followed
      <4> QED
        BY <3>1, <4>1, IdleCall DEF Proved, Followed, Routed
    <3>2. CASE /\ call'[c].pc = call[c].pc /\ call'[c].kind = call[c].kind
               /\ call'[c].thing = call[c].thing /\ call'[c].tx = call[c].tx
               /\ call'[c].proof = call[c].proof /\ ~call'[c].steady /\ Busy(call[c])
               /\ call'[c].misled = call[c].misled
      BY <1>0, <2>3, <3>2 DEF Proved, Followed, Routed, Busy
    <3>3. ~Busy(call[c]) => call'[c] = call[c]
      BY <1>0, <1>2 DEF Onchain!TransferManager, Busy
    <3> QED
      BY <2>1, <3>1, <3>2, <3>3
  <2>7. ASSUME NEW c \in Calls, NEW d \in Calls, c # d
        PROVE  Apart(call[c], call[d])'
    <3>1. Apart(call[c], call[d])
      BY <2>7 DEF OnchainInv, CallsInv
    <3> QED
      BY <2>1, <3>1 DEF Apart, Busy
  <2> QED
    BY <2>5, <2>6, <2>7 DEF OnchainInv, CallsInv
<1> QED
  BY <1>1, <1>2, IncludeStep DEF Onchain!Network

\* A sync of the group: what it read, the group trusted once, and a trusted key that it
\* marks removed is misread.
LEMMA SyncStep ==
  ASSUME OnchainInv, NEW y \in Syncs, Onchain!SyncGroup(y)
  PROVE  OnchainInv'
<1>0. /\ Onchain!TypeOK /\ RowsInv
      /\ trust \in [Things -> {"never", "trusted", "removed"}]
      /\ row \in [Things -> Onchain!Row] /\ sync \in [Syncs -> Onchain!Sync]
      /\ misread \subseteq Things
  BY DEF OnchainInv, Onchain!TypeOK
<1>1. UNCHANGED <<manager, trust, session, page, pendingAction, call>>
  BY DEF Onchain!SyncGroup, Onchain!ReadGroup, Onchain!AdoptAuthKey,
         Onchain!SyncAuthKeyStatuses, Onchain!FailSync, Onchain!onChain, Onchain!tab
<1>2. ASSUME RowsInv'
      PROVE  OnchainInv'
  BY <1>0, <1>1, <1>2
  DEF OnchainInv, CallsInv, Onchain!TypeOK, RowsInv, Proved, Followed, Routed, Apart
<1>3. CASE Onchain!ReadGroup(y)
  <2> DEFINE q == [pc |-> "write", keys |-> Onchain!Trusted]
  <2>1. q \in Onchain!Sync /\ q.keys = Onchain!Trusted
    BY DEF Onchain!Sync, Onchain!Trusted
  <2>2. sync' = [sync EXCEPT ![y] = q] /\ UNCHANGED <<row, misread>>
    BY <1>3 DEF Onchain!ReadGroup
  <2> HIDE DEF q
  <2>3. \A x \in q.keys : trust[x] # "never"
    BY <2>1 DEF Onchain!Trusted
  <2> QED
    BY <1>0, <1>1, <1>2, <2>1, <2>2, <2>3 DEF RowsInv
<1>4. CASE \E x \in Things : Onchain!AdoptAuthKey(y, x)
  <2>1. PICK x \in Things : Onchain!AdoptAuthKey(y, x)
    BY <1>4
  <2>2. /\ x \in sync[y].keys /\ row' = [row EXCEPT ![x] = "active"]
        /\ UNCHANGED <<sync, misread>>
    BY <2>1 DEF Onchain!AdoptAuthKey
  <2>3. row' \in [Things -> Onchain!Row]
    BY <1>0, <2>2 DEF Onchain!Row
  <2> QED
    BY <1>0, <1>1, <1>2, <2>2, <2>3 DEF RowsInv
<1>5. CASE Onchain!SyncAuthKeyStatuses(y)
  <2>1. /\ row' = [x \in Things |-> IF row[x] \in {"absent", "revoked"} THEN row[x]
                                    ELSE IF x \in sync[y].keys THEN "active" ELSE "removed"]
        /\ misread' = {x \in Onchain!Trusted : row'[x] = "removed"}
        /\ sync' = [sync EXCEPT ![y] = Onchain!NoSync]
    BY <1>5 DEF Onchain!SyncAuthKeyStatuses
  <2>2. row' \in [Things -> Onchain!Row] /\ misread' \subseteq Things
    BY <1>0, <2>1 DEF Onchain!Row, Onchain!Trusted
  <2>3. Onchain!NoSync \in Onchain!Sync /\ Onchain!NoSync.keys = {}
    BY DEF Onchain!NoSync, Onchain!Sync
  <2>4. sync' \in [Syncs -> Onchain!Sync] /\ \A z \in Syncs : sync'[z].keys \subseteq sync[z].keys
    BY <1>0, <2>1, <2>3
  <2>5. \A x \in Things : (row'[x] = "removed" /\ trust[x] = "trusted") => x \in misread'
    BY <2>1 DEF Onchain!Trusted
  <2>6. \A x \in Things : row'[x] # "absent" => row[x] # "absent"
    BY <2>1
  <2> QED
    BY <1>0, <1>1, <1>2, <2>2, <2>4, <2>5, <2>6 DEF RowsInv
<1>6. CASE Onchain!FailSync(y)
  <2>1. sync' = [sync EXCEPT ![y] = Onchain!NoSync] /\ UNCHANGED <<row, misread>>
    BY <1>6 DEF Onchain!FailSync
  <2>2. Onchain!NoSync \in Onchain!Sync /\ Onchain!NoSync.keys = {}
    BY DEF Onchain!NoSync, Onchain!Sync
  <2>3. sync' \in [Syncs -> Onchain!Sync] /\ \A z \in Syncs : sync'[z].keys \subseteq sync[z].keys
    BY <1>0, <2>1, <2>2
  <2> QED
    BY <1>0, <1>1, <1>2, <2>1, <2>3 DEF RowsInv
<1> QED
  BY <1>3, <1>4, <1>5, <1>6 DEF Onchain!SyncGroup

LEMMA OnchainNext == OnchainInv /\ [Onchain!Next]_(Onchain!vars) => OnchainInv'
<1> SUFFICES ASSUME OnchainInv, [Onchain!Next]_(Onchain!vars)
             PROVE  OnchainInv'
  OBVIOUS
<1>1. CASE \/ Onchain!UserChanged \/ Onchain!DropSession \/ Onchain!RestoreSession
           \/ Onchain!Reload \/ UNCHANGED Onchain!vars
  <2>1. UNCHANGED <<manager, trust, row, sync, misread, pendingAction, call>>
    BY <1>1
    DEF Onchain!UserChanged, Onchain!DropSession, Onchain!RestoreSession, Onchain!Reload,
        Onchain!Read, Onchain!onChain, Onchain!platform, Onchain!vars
  <2>2. session' \in BOOLEAN /\ page' \in Onchain!Page /\ RowsInv'
    <3>1. CASE Onchain!Reload
      BY <3>1, ReadStep DEF OnchainInv, Onchain!TypeOK, Onchain!Reload, Onchain!Read
    <3>2. CASE UNCHANGED Onchain!vars
      BY <2>1, <3>2, RowsStay DEF OnchainInv, Onchain!TypeOK, Onchain!vars
    <3>3. CASE Onchain!UserChanged \/ Onchain!DropSession \/ Onchain!RestoreSession
      <4>1. /\ session' \in BOOLEAN
            /\ \/ page' = page
               \/ page' = [page EXCEPT !.ready = session]
               \/ page' = [page EXCEPT !.ready = TRUE]
        BY <3>3
        DEF OnchainInv, Onchain!TypeOK, Onchain!UserChanged, Onchain!DropSession,
            Onchain!RestoreSession
      <4>2. page' \in Onchain!Page /\ page'.row = page.row
        BY <4>1 DEF OnchainInv, Onchain!TypeOK, Onchain!Page
      <4> QED
        BY <2>1, <4>1, <4>2, RowsStay
    <3> QED
      BY <1>1, <3>1, <3>2, <3>3
  <2> QED
    BY <2>1, <2>2
    DEF OnchainInv, CallsInv, Onchain!TypeOK, Proved, Followed, Routed, Apart
<1> QED
  BY <1>1, ClickStep, ProceedStep, NetworkStep, SyncStep DEF Onchain!Next

\* Only the group's answer to a transaction turns it down.
LEMMA StepReverted ==
  ASSUME OnchainInv, [Onchain!Next]_(Onchain!vars), NEW c \in Calls,
         call'[c].tx = "reverted", call[c].tx # "reverted"
  PROVE  ~call[c].steady \/ (call[c].kind = "remove" /\ trust[call[c].thing] # "trusted")
<1>0. /\ call \in [Calls -> Onchain!Call] /\ call[c] \in Onchain!Call /\ Proved(call[c])
      /\ Onchain!Idle.tx = "none"
  BY DEF OnchainInv, CallsInv, Onchain!TypeOK, Onchain!Idle
<1>1. ASSUME NEW d \in Calls, Onchain!ClickOn(d)
      PROVE  FALSE
  BY <1>0, <1>1
  DEF Onchain!ClickOn, Onchain!GenerateKey, Onchain!RevokeKey, Onchain!RevokeRow,
      Onchain!ChangeMembership, Onchain!Invite, Onchain!Submit, Onchain!Begin
<1>2. ASSUME NEW d \in Calls, Onchain!Over(d)
      PROVE  FALSE
  BY <1>0, <1>2 DEF Onchain!Over
<1>3. ASSUME NEW d \in Calls, Onchain!Proceed(d)
      PROVE  FALSE
  <2>1. \/ Onchain!Sign(d) \/ Onchain!SendTransaction(d) \/ Onchain!FindReceipt(d)
        \/ Onchain!ReadRow(d) \/ Onchain!Relay(d) \/ Onchain!Confirm(d)
        \/ Onchain!DropRow(d)
    BY <1>2, <1>3
    DEF Onchain!Proceed, Onchain!FindRevert, Onchain!GiveUp, Onchain!RefuseKey,
        Onchain!Refresh, Onchain!Fail
  <2>2. call[d] \in Onchain!Call
    BY <1>0
  <2>3. CASE \/ Onchain!Sign(d) \/ Onchain!FindReceipt(d) \/ Onchain!ReadRow(d)
             \/ Onchain!Confirm(d) \/ Onchain!DropRow(d)
    <3>1. call'[c].tx = call[c].tx
      BY <1>0, <2>2, <2>3
      DEF Onchain!Sign, Onchain!FindReceipt, Onchain!ReadRow, Onchain!Confirm, Onchain!DropRow,
          Onchain!Record, Onchain!Goto, Onchain!Call
    <3> QED
      BY <3>1
  <2>4. CASE Onchain!SendTransaction(d) \/ Onchain!Relay(d)
    <3>1. call'[c].tx \in {call[c].tx, "pending"}
      BY <1>0, <2>2, <2>4 DEF Onchain!SendTransaction, Onchain!Relay, Onchain!Call
    <3> QED
      BY <3>1
  <2> QED
    BY <2>1, <2>3, <2>4
<1>4. ASSUME NEW d \in Calls, Onchain!Lose(d)
      PROVE  FALSE
  BY <1>0, <1>4 DEF Onchain!Lose
<1>5. ASSUME NEW m \in Onchain!Managers, Onchain!TransferManager(m)
      PROVE  FALSE
  <2>1. call'[c].tx = call[c].tx
    BY <1>0, <1>5 DEF Onchain!TransferManager, Onchain!Call
  <2> QED
    BY <2>1
<1>s. ASSUME NEW y \in Syncs, Onchain!SyncGroup(y)
      PROVE  FALSE
  BY <1>s
  DEF Onchain!SyncGroup, Onchain!ReadGroup, Onchain!AdoptAuthKey,
      Onchain!SyncAuthKeyStatuses, Onchain!FailSync
<1>6. PICK d \in Calls : Onchain!Include(d)
  BY <1>1, <1>3, <1>4, <1>5, <1>s
  DEF Onchain!Next, Onchain!Network, Onchain!UserChanged, Onchain!DropSession,
      Onchain!RestoreSession, Onchain!Reload, Onchain!vars
<1>7. d = c /\ call[c].tx = "pending" /\ ~Onchain!Takes(c)
  BY <1>0, <1>6 DEF Onchain!Include
<1>8. call[c].proof \in {"userop", "wallet"}
  BY <1>0, <1>7 DEF Proved, Onchain!Call, Onchain!Transports
<1> QED
  BY <1>0, <1>7, <1>8 DEF Proved, Onchain!Takes, Onchain!From

\* Only a removal that was confirmed, or of a key that the platform took to be out, takes
\* a key off the console.
LEMMA StepGone ==
  ASSUME OnchainInv, [Onchain!Next]_(Onchain!vars), NEW x \in Things,
         row[x] # "revoked", row'[x] = "revoked", trust[x] = "trusted"
  PROVE  \E c \in Calls : call[c].pc = "drop" /\ call[c].thing = x /\ call[c].misled
<1>0. /\ row \in [Things -> Onchain!Row]
      /\ \A c \in Calls : Followed(call[c]) /\ Routed(call[c])
  BY DEF OnchainInv, CallsInv, Onchain!TypeOK
<1>1. ASSUME NEW y \in Syncs, Onchain!SyncGroup(y)
      PROVE  FALSE
  BY <1>0, <1>1
  DEF Onchain!SyncGroup, Onchain!ReadGroup, Onchain!AdoptAuthKey,
      Onchain!SyncAuthKeyStatuses, Onchain!FailSync
<1>2. PICK c \in Calls : Onchain!Confirm(c) \/ Onchain!DropRow(c)
  BY <1>1
  DEF Onchain!Next, Onchain!ClickOn, Onchain!GenerateKey, Onchain!RevokeKey,
      Onchain!RevokeRow, Onchain!ChangeMembership, Onchain!Invite, Onchain!Submit,
      Onchain!Begin, Onchain!Proceed, Onchain!Sign, Onchain!SendTransaction,
      Onchain!FindReceipt, Onchain!FindRevert, Onchain!GiveUp, Onchain!RefuseKey,
      Onchain!ReadRow, Onchain!Relay, Onchain!Refresh, Onchain!Fail, Onchain!Network,
      Onchain!Include, Onchain!Lose, Onchain!TransferManager, Onchain!UserChanged,
      Onchain!DropSession, Onchain!RestoreSession, Onchain!Reload, Onchain!Read,
      Onchain!platform, Onchain!vars
<1>3. call[c].kind = "remove" /\ call[c].thing = x /\ Busy(call[c])
  BY <1>0, <1>2 DEF Onchain!Confirm, Onchain!DropRow, Onchain!Record, Busy
<1>4. ~Onchain!Confirm(c)
  BY <1>0, <1>3 DEF Onchain!Confirm, Followed
<1> QED
  BY <1>0, <1>2, <1>3, <1>4 DEF Onchain!DropRow, Routed

\* The calls, the rows and what a screen shows of them keep their types.
THEOREM OnchainTypeCorrect == Onchain!Spec => []Onchain!TypeOK
<1>1. OnchainInv => Onchain!TypeOK
  BY DEF OnchainInv
<1> QED
  BY OnchainInit, OnchainNext, <1>1, PTL DEF Onchain!Spec

\* A call that the console sends from the account it was drawn for reverts only
\* when the group changed hands, or the key was gone (chooseTransport).
THEOREM Reverts == Onchain!Spec => RevertsOnlyAfterHandover
<1>1. OnchainInv /\ [Onchain!Next]_(Onchain!vars) =>
        [\A c \in Calls :
            (call'[c].tx = "reverted" /\ call[c].tx # "reverted")
               => ~call[c].steady
                    \/ (call[c].kind = "remove" /\ trust[call[c].thing] # "trusted")]_(Onchain!vars)
  BY StepReverted
<1> QED
  BY OnchainInit, OnchainNext, <1>1, PTL
  DEF Onchain!Spec, RevertsOnlyAfterHandover, Onchain!RevertsOnlyAfterHandover

\* A key that the operators still accept goes from the console only by a request that
\* read a row which a sync had misread (RemoveCredential asks for proof of any other).
THEOREM Gone == Onchain!Spec => GoneFromBoth
<1>1. OnchainInv /\ [Onchain!Next]_(Onchain!vars) =>
        [\A x \in Things :
            (row[x] # "revoked" /\ row'[x] = "revoked" /\ trust[x] = "trusted") =>
               \E c \in Calls : call[c].pc = "drop" /\ call[c].thing = x
                                /\ call[c].misled]_(Onchain!vars)
  BY StepGone
<1> QED
  BY OnchainInit, OnchainNext, <1>1, PTL
  DEF Onchain!Spec, GoneFromBoth, Onchain!GoneFromBoth

----------------------------------------------------------------------------
(* A form.  The inductive invariant: what the developer has not touched is *)
(* as the screen loaded it, in the form and in the document being saved.   *)

FormsInv ==
    /\ Forms!TypeOK
    /\ read.state = "served" => read.doc \in Forms!Docs
    /\ save.pc = "put" => save.doc \in Forms!Docs
    /\ formData # Forms!NoDoc =>
         \A f \in Forms!Fields \ touched : value[f] = Forms!Merge(formData)[f]
    /\ (save.pc = "put" /\ save.seen # Forms!NoDoc) =>
         \A f \in Forms!Fields \ save.touched : save.doc[f] = Forms!Merge(save.seen)[f]

\* The blank read and the blank save.
LEMMA Blanks ==
  /\ Forms!NoRead \in Forms!Read /\ Forms!NoRead.state = "none"
  /\ Forms!NoSave \in Forms!Save /\ Forms!NoSave.pc = "idle"
  /\ \A b \in BOOLEAN : Forms!Asked(b) \in Forms!Read /\ Forms!Asked(b).state = "asked"
  BY DEF Forms!NoRead, Forms!Read, Forms!NoSave, Forms!Save, Forms!Asked, Forms!NoDoc

LEMMA PageShape ==
  ASSUME formPage \in FormPages
  PROVE  /\ formPage.shown \in [Forms!Fields -> {"none", "default"}]
         /\ \A f \in Forms!Fields : formPage.shown[f] \in Forms!Values
         /\ formPage.section \in BOOLEAN
         /\ formPage.section => formPage.givesUp
         /\ formPage.shown \in Forms!Docs
<1>1. /\ formPage.shown \in [Forms!Fields -> {"none", "default"}]
      /\ formPage.section \in BOOLEAN
      /\ formPage.section => formPage.givesUp
  BY FormPagesAssumption DEF Forms!Fields
<1>2. /\ \A f \in Forms!Fields : formPage.shown[f] \in Forms!Values
      /\ formPage.shown \in Forms!Docs
  BY <1>1 DEF Forms!Values, Forms!Docs
<1> QED
  BY <1>1, <1>2

LEMMA Merged ==
  ASSUME formPage \in FormPages, NEW doc \in Forms!Docs
  PROVE  Forms!Merge(doc) \in Forms!Docs
  BY PageShape DEF Forms!Merge, Forms!Docs

LEMMA FormsInit == Forms!Init => FormsInv
<1> SUFFICES ASSUME Forms!Init
             PROVE  FormsInv
  OBVIOUS
<1>1. formPage \in FormPages /\ formPage.shown \in Forms!Docs
  BY PageShape DEF Forms!Init
<1>2. Forms!TypeOK
  BY <1>1, Blanks DEF Forms!Init, Forms!TypeOK
<1> QED
  BY <1>2, Blanks DEF Forms!Init, FormsInv

\* The developer's typing and an upload touch what they change.
LEMMA TouchStep ==
  ASSUME FormsInv, NEW f \in Forms!Fields, NEW v \in Forms!Values,
         value' = [value EXCEPT ![f] = v], dirty' = TRUE, touched' = touched \cup {f},
         UNCHANGED <<formPage, stored, formData, formError, read, save>>
  PROVE  FormsInv'
<1>1. UNCHANGED <<Forms!Fields, Forms!Docs, Forms!Read, Forms!Save>>
  BY DEF Forms!Fields, Forms!Docs, Forms!Read, Forms!Save, Forms!Values
<1>2. value' \in Forms!Docs
  BY DEF FormsInv, Forms!TypeOK, Forms!Docs
<1>3. Forms!TypeOK'
  BY <1>1, <1>2 DEF FormsInv, Forms!TypeOK
<1>4. \A g \in Forms!Fields \ touched' : value'[g] = value[g] /\ g \notin touched
  BY DEF FormsInv, Forms!TypeOK, Forms!Docs
<1>5. \A doc : Forms!Merge(doc)' = Forms!Merge(doc)
  BY DEF Forms!Merge, Forms!Fields
<1> QED
  BY <1>1, <1>3, <1>4, <1>5 DEF FormsInv

\* A step that leaves the form as it is.
LEMMA FormKept ==
  ASSUME FormsInv, UNCHANGED <<formPage, value, touched, formData>>,
         stored' \in Forms!Docs, dirty' \in BOOLEAN, formError' \in BOOLEAN,
         read' \in Forms!Read, read'.state = "served" => read'.doc \in Forms!Docs,
         save' \in Forms!Save, save'.pc = "put" => save' = save
  PROVE  FormsInv'
<1>1. UNCHANGED <<Forms!Fields, Forms!Docs, Forms!Read, Forms!Save>>
  BY DEF Forms!Fields, Forms!Docs, Forms!Read, Forms!Save, Forms!Values
<1>2. \A doc : Forms!Merge(doc)' = Forms!Merge(doc)
  BY DEF Forms!Merge, Forms!Fields
<1>3. Forms!TypeOK'
  BY <1>1 DEF FormsInv, Forms!TypeOK
<1> QED
  BY <1>1, <1>2, <1>3 DEF FormsInv

LEMMA FormsNext == FormsInv /\ [Forms!Next]_(Forms!vars) => FormsInv'
<1> SUFFICES ASSUME FormsInv, [Forms!Next]_(Forms!vars)
             PROVE  FormsInv'
  OBVIOUS
<1>0. /\ Forms!TypeOK /\ formPage \in FormPages /\ stored \in Forms!Docs /\ value \in Forms!Docs
      /\ dirty \in BOOLEAN /\ formError \in BOOLEAN /\ read \in Forms!Read /\ save \in Forms!Save
      /\ read.state = "served" => read.doc \in Forms!Docs
  BY DEF FormsInv, Forms!TypeOK
<1>1. ASSUME NEW f \in Forms!Fields, NEW v \in Forms!Values,
             Forms!Type(f, v) \/ Forms!UploadDone(f)
      PROVE  FormsInv'
  BY <1>1, TouchStep DEF Forms!Type, Forms!UploadDone, Forms!Values
<1>2. ASSUME NEW f \in Forms!Fields, NEW v \in Forms!Values, Forms!SaveElsewhere(f, v)
      PROVE  FormsInv'
  <2>1. stored' \in Forms!Docs
    BY <1>0, <1>2 DEF Forms!SaveElsewhere, Forms!Docs
  <2> QED
    BY <1>0, <1>2, <2>1, FormKept DEF Forms!SaveElsewhere, Forms!screen
<1>3. CASE Forms!Serve
  <2>1. /\ read' = [read EXCEPT !.state = "served", !.doc = stored]
        /\ UNCHANGED <<formPage, stored, value, dirty, touched, formData, formError, save>>
    BY <1>3 DEF Forms!Serve
  <2>2. read' \in Forms!Read /\ read'.doc = stored
    BY <1>0, <2>1 DEF Forms!Read
  <2> QED
    BY <1>0, <2>1, <2>2, FormKept
<1>4. CASE Forms!FailRead \/ Forms!Retry \/ Forms!ReadAgain \/ Forms!Overtaken \/ Forms!FailSave
  <2>1. /\ UNCHANGED <<formPage, stored, value, touched, formData>>
        /\ dirty' \in BOOLEAN /\ formError' \in BOOLEAN
        /\ read' \in {read, Forms!NoRead, Forms!Asked(TRUE), Forms!Asked(FALSE)}
        /\ save' \in {save, Forms!NoSave, [save EXCEPT !.pc = "refresh"]}
    BY <1>0, <1>4
    DEF Forms!FailRead, Forms!Retry, Forms!ReadAgain, Forms!Overtaken, Forms!FailSave
  <2>2. read' \in Forms!Read /\ (read'.state = "served" => read'.doc \in Forms!Docs)
    BY <1>0, <2>1, Blanks
  <2>3. /\ [save EXCEPT !.pc = "refresh"] \in Forms!Save
        /\ [save EXCEPT !.pc = "refresh"].pc = "refresh"
    BY <1>0 DEF Forms!Save
  <2>4. save' \in Forms!Save /\ (save'.pc = "put" => save' = save)
    BY <1>0, <2>1, <2>3, Blanks
  <2> QED
    BY <1>0, <2>1, <2>2, <2>4, FormKept
<1>5. CASE Forms!Put
  <2>1. /\ save.pc = "put" /\ stored' = Forms!Written(save.doc)
        /\ save' = [save EXCEPT !.pc = "stored"]
        /\ UNCHANGED <<formPage, value, dirty, touched, formData, formError, read>>
    BY <1>5 DEF Forms!Put
  <2>2. save' \in Forms!Save /\ save'.pc = "stored"
    BY <1>0, <2>1 DEF Forms!Save
  <2>3. stored' \in Forms!Docs
    BY <1>0, <2>1 DEF FormsInv, Forms!Written, Forms!Docs
  <2> QED
    BY <1>0, <2>1, <2>2, <2>3, FormKept
<1>6. CASE Forms!Submit
  <2>1. /\ save' = [pc |-> "put", doc |-> value, seen |-> formData, touched |-> touched]
        /\ UNCHANGED <<formPage, stored, value, dirty, touched, formData, formError, read>>
    BY <1>6 DEF Forms!Submit
  <2>2. /\ save' \in Forms!Save /\ save'.doc = value /\ save'.seen = formData
        /\ save'.touched = touched
    BY <1>0, <2>1 DEF Forms!Save, Forms!TypeOK
  <2>3. UNCHANGED <<Forms!Fields, Forms!Docs, Forms!Read, Forms!Save>>
    BY <2>1 DEF Forms!Fields, Forms!Docs, Forms!Read, Forms!Save, Forms!Values
  <2>4. \A doc : Forms!Merge(doc)' = Forms!Merge(doc)
    BY <2>1 DEF Forms!Merge, Forms!Fields
  <2>5. Forms!TypeOK'
    BY <1>0, <2>1, <2>2, <2>3 DEF Forms!TypeOK
  <2> QED
    BY <1>0, <2>1, <2>2, <2>3, <2>4, <2>5 DEF FormsInv
<1>7. CASE Forms!Answer
  <2> DEFINE doc == read.doc
  <2>1. /\ formData' = doc /\ formError' = FALSE /\ value' = Forms!Merge(doc)
        /\ dirty' = FALSE /\ touched' = {} /\ read' = Forms!NoRead
        /\ save' \in {save, Forms!NoSave} /\ UNCHANGED <<formPage, stored>>
        /\ doc \in Forms!Docs
    BY <1>0, <1>7 DEF Forms!Answer, Forms!Fill
  <2>2. UNCHANGED <<Forms!Fields, Forms!Docs, Forms!Read, Forms!Save>>
    BY <2>1 DEF Forms!Fields, Forms!Docs, Forms!Read, Forms!Save, Forms!Values
  <2>3. \A d : Forms!Merge(d)' = Forms!Merge(d)
    BY <2>1 DEF Forms!Merge, Forms!Fields
  <2>4. Forms!Merge(doc) \in Forms!Docs
    BY <1>0, <2>1, Merged
  <2>5. Forms!TypeOK'
    BY <1>0, <2>1, <2>2, <2>4, Blanks DEF Forms!TypeOK
  <2>6. formData' # Forms!NoDoc =>
          \A f \in (Forms!Fields)' \ touched' : value'[f] = (Forms!Merge(formData))'[f]
    BY <2>1 DEF Forms!Merge, Forms!Fields
  <2>7. CASE save' = save
    BY <1>0, <2>1, <2>2, <2>3, <2>5, <2>6, <2>7, Blanks DEF FormsInv
  <2>8. CASE save' = Forms!NoSave
    BY <1>0, <2>1, <2>2, <2>5, <2>6, <2>8, Blanks DEF FormsInv
  <2> QED
    BY <2>1, <2>7, <2>8
<1>8. CASE UNCHANGED Forms!vars
  BY <1>0, <1>8, FormKept DEF Forms!vars, Forms!screen
<1> QED
  BY <1>1, <1>2, <1>3, <1>4, <1>5, <1>6, <1>7, <1>8 DEF Forms!Next, Forms!Values

LEMMA StepWritten ==
  ASSUME FormsInv, Forms!Put, NEW f \in Forms!Fields \ save.touched
  PROVE  \/ stored'[f] = stored[f]
         \/ stored[f] = "none" /\ stored'[f] = formPage.shown[f]
         \/ save.seen # stored
<1> SUFFICES ASSUME save.seen = stored
             PROVE  \/ stored'[f] = stored[f]
                    \/ stored[f] = "none" /\ stored'[f] = formPage.shown[f]
  OBVIOUS
<1>1. stored \in [Forms!Fields -> Forms!Values] /\ save.pc = "put"
  BY DEF FormsInv, Forms!TypeOK, Forms!Docs, Forms!Put
<1>2. stored # Forms!NoDoc
  <2>1. DOMAIN stored = Forms!Fields
    BY <1>1
  <2>2. DOMAIN Forms!NoDoc = {}
    BY DEF Forms!NoDoc
  <2> QED
    BY <2>1, <2>2
<1>3. save.doc[f] = IF stored[f] = "none" THEN formPage.shown[f] ELSE stored[f]
  BY <1>1, <1>2 DEF FormsInv, Forms!Merge
<1>4. stored'[f] = IF formPage.section \/ save.doc[f] # "none" THEN save.doc[f] ELSE stored[f]
  BY DEF Forms!Put, Forms!Written
<1> QED
  BY <1>3, <1>4

LEMMA StepClean ==
  ASSUME FormsInv, [Forms!Next]_(Forms!vars),
         formPage.section, dirty, ~dirty', Forms!HasForm', formData' # Forms!NoDoc
  PROVE  value' = Forms!Merge(formData') \/ Forms!Overtaken
<1>1. CASE Forms!Answer
  BY <1>1 DEF Forms!Answer, Forms!Fill
<1>2. ~Forms!FailRead
  <2>1. formPage.givesUp
    BY PageShape DEF FormsInv, Forms!TypeOK
  <2> QED
    BY <2>1 DEF Forms!FailRead, Forms!HasForm
<1> QED
  BY <1>1, <1>2
  DEF Forms!Next, Forms!UploadDone, Forms!Type, Forms!SaveElsewhere, Forms!Serve, Forms!Retry,
      Forms!Submit, Forms!Put, Forms!ReadAgain, Forms!FailSave, Forms!screen, Forms!vars

\* The form, what it loaded and what it saves keep their types.
THEOREM FormsTypeCorrect == Forms!Spec => []Forms!TypeOK
<1>1. FormsInv => Forms!TypeOK
  BY DEF FormsInv
<1> QED
  BY FormsInit, FormsNext, <1>1, PTL DEF Forms!Spec

\* Saving a page writes down, for a field that nobody touched, what the server has
\* of it or the default that the form showed, unless the form was out of date.
THEOREM Untouched == Forms!Spec => UntouchedKept
<1>1. FormsInv /\ [Forms!Next]_(Forms!vars) =>
        [Forms!Put => \A f \in Forms!Fields \ save.touched :
                        \/ stored'[f] = stored[f]
                        \/ stored[f] = "none" /\ stored'[f] = formPage.shown[f]
                        \/ save.seen # stored]_(Forms!vars)
  BY StepWritten
<1> QED
  BY FormsInit, FormsNext, <1>1, PTL DEF Forms!Spec, UntouchedKept, Forms!UntouchedKept

\* A configuration form is marked as saved only when it shows what was last loaded,
\* or when a retry overtook the read after the save (SettingsForm's effect).
THEOREM Clean == Forms!Spec => CleanWhenLoaded
<1>1. FormsInv /\ [Forms!Next]_(Forms!vars) =>
        [(formPage.section /\ dirty /\ ~dirty' /\ Forms!HasForm' /\ formData' # Forms!NoDoc)
           => value' = Forms!Merge(formData') \/ Forms!Overtaken]_(Forms!vars)
  BY StepClean
<1> QED
  BY FormsInit, FormsNext, <1>1, PTL DEF Forms!Spec, CleanWhenLoaded, Forms!CleanWhenLoaded
----------------------------------------------------------------------------
(* The wallets screen.  The inductive invariant says what a screen still   *)
(* knows of the nodes: their answer stands unless it is marked as stale,   *)
(* or where the list never agreed with them.  A screen changes a key that  *)
(* has a row; and what a sync has counted stands until it commits, but for *)
(* the end users whose keys come or go meanwhile.                          *)

Informed(q) ==
    /\ q.pc = "record" => q.stale \/ node[q.key] = q.to
    /\ q.pc \in {"check", "post", "upserted", "mark", "count", "commit"} =>
         q.stale \/ \A k \in Keys \ q.wrong : q.keys[k] = node[k]
    /\ (/\ q.pc \in {"post", "upserted", "mark", "count", "commit"}
        /\ q.keys = Inventory!NoKeys /\ q.total > 0) => q.confirmed

\* The rows as a sync leaves them.
Left(q) == [k \in Keys |-> IF q.keys[k] # "absent" THEN q.keys[k]
                          ELSE IF k \in q.marked THEN "deleted" ELSE keyRow[k]]

Counted(q) ==
    q.pc = "commit" => \A s \in Subjects \ q.overtaken : q.counts[s] = Inventory!Held(Left(q), s)

Known(q) ==
    q.pc \in {"node", "record"} =>
        q.key \in Keys /\ q.to \in {"enabled", "disabled"} /\ keyRow[q.key] # "none"

ShownBehind ==
    \A d \in Screens, k \in Keys :
        (shown[d] # Inventory!NotRead /\ shown[d][k] # "none") => keyRow[k] # "none"

InventoryInv ==
    /\ Inventory!TypeOK /\ ShownBehind /\ CountsFollow
    /\ \A d \in Screens : Informed(job[d]) /\ Counted(job[d]) /\ Known(job[d])

\* The instance counts as the provers' library does.
LEMMA Counting == \A S : Inventory!Cardinality(S) = Cardinality(S)
  BY DEF Inventory!Cardinality, Cardinality

LEMMA SomeKeys ==
  /\ 0 \in 0..Inventory!Cardinality(Keys)
  /\ \A S \in SUBSET Keys : Inventory!Cardinality(S) \in 0..Inventory!Cardinality(Keys)
<1>1. Cardinality(Keys) \in Nat
  BY KeysAssumption, FS_CardinalityType
<1>2. ASSUME NEW S \in SUBSET Keys
      PROVE  Cardinality(S) \in 0..Cardinality(Keys)
  <2>1. /\ IsFiniteSet(S) /\ Cardinality(S) <= Cardinality(Keys)
    BY KeysAssumption, FS_Subset
  <2>2. Cardinality(S) \in Nat
    BY <2>1, FS_CardinalityType
  <2> QED
    BY <1>1, <2>1, <2>2
<1> QED
  BY <1>1, <1>2, Counting

LEMMA IdleJob ==
  /\ Inventory!Idle \in Inventory!Job /\ Inventory!Idle.pc = "idle"
  /\ Inventory!Done \in Inventory!Job /\ Inventory!Done.pc = "refresh"
<1>1. 0 \in 0..Inventory!Cardinality(Keys)
  BY SomeKeys
<1>2. /\ Inventory!NoKeys \in [Keys -> Inventory!Listed]
      /\ Inventory!Nobody \in [Subjects -> 0..Inventory!Cardinality(Keys)]
  BY <1>1 DEF Inventory!NoKeys, Inventory!Listed, Inventory!OnNodes, Inventory!Nobody
<1> QED
  BY <1>1, <1>2 DEF Inventory!Idle, Inventory!Done, Inventory!Job, Inventory!OnNodes

LEMMA HeldType ==
  \A rows, s : Inventory!Held(rows, s) \in 0..Inventory!Cardinality(Keys)
  BY SomeKeys DEF Inventory!Held

LEMMA HeldSame ==
  ASSUME NEW s, NEW old, NEW new,
         \A k \in Keys : Owner[k] = s => (Inventory!Live(old[k]) <=> Inventory!Live(new[k]))
  PROVE  Inventory!Held(old, s) = Inventory!Held(new, s)
<1>1. {k \in Keys : Owner[k] = s /\ Inventory!Live(old[k])}
        = {k \in Keys : Owner[k] = s /\ Inventory!Live(new[k])}
  OBVIOUS
<1> QED
  BY <1>1 DEF Inventory!Held

LEMMA InventoryInit == Inventory!Init => InventoryInv
<1> SUFFICES ASSUME Inventory!Init
             PROVE  InventoryInv
  OBVIOUS
<1>1. Inventory!Nobody \in [Subjects -> 0..Inventory!Cardinality(Keys)]
  BY SomeKeys DEF Inventory!Nobody
<1>2. \A d \in Screens : job[d].pc = "idle" /\ shown[d] = Inventory!NotRead
  BY IdleJob DEF Inventory!Init
<1>3. job \in [Screens -> Inventory!Job]
  BY IdleJob DEF Inventory!Init
<1>4. Inventory!TypeOK
  BY <1>1, <1>3 DEF Inventory!Init, Inventory!TypeOK, Inventory!OnNodes, Inventory!Row
<1>5. CountsFollow
  <2>1. ASSUME NEW s \in Subjects
        PROVE  count[s] = Inventory!Held(keyRow, s)
    <3>1. {k \in Keys : Owner[k] = s /\ Inventory!Live(keyRow[k])} = {}
      BY DEF Inventory!Init, Inventory!Live
    <3>2. Inventory!Cardinality({}) = 0
      BY Counting, FS_EmptySet
    <3> QED
      BY <3>1, <3>2 DEF Inventory!Init, Inventory!Nobody, Inventory!Held
  <2> QED
    BY <2>1 DEF CountsFollow, Inventory!CountsFollow
<1> QED
  BY <1>2, <1>4, <1>5 DEF InventoryInv, ShownBehind, Informed, Counted, Known

\* A screen's own step: the nodes keep what they hold, and the platform its rows.
LEMMA JobStep ==
  ASSUME InventoryInv, NEW d \in Screens, NEW q \in Inventory!Job,
         UNCHANGED <<node, keyRow, count, drifted>>,
         job' = [job EXCEPT ![d] = q], Informed(q), Counted(q), Known(q),
         shown' \in [Screens -> [Keys -> Inventory!Row] \cup {Inventory!NotRead}],
         ShownBehind'
  PROVE  InventoryInv'
<1>1. Inventory!TypeOK'
  BY DEF InventoryInv, Inventory!TypeOK
<1>2. \A e \in Screens : job'[e] = IF e = d THEN q ELSE job[e]
  BY DEF InventoryInv, Inventory!TypeOK
<1>3. ASSUME NEW e \in Screens
      PROVE  Informed(job[e])' /\ Counted(job[e])' /\ Known(job[e])'
  <2>1. PICK p \in Inventory!Job : job'[e] = p /\ Informed(p) /\ Counted(p) /\ Known(p)
    BY <1>2 DEF InventoryInv, Inventory!TypeOK
  <2> QED
    BY <2>1 DEF Informed, Counted, Left, Known
<1>4. CountsFollow'
  BY DEF InventoryInv, CountsFollow, Inventory!CountsFollow
<1> QED
  BY <1>1, <1>3, <1>4 DEF InventoryInv

\* A step in which the screens go on showing what they show.
LEMMA WorkStep ==
  ASSUME InventoryInv, NEW d \in Screens, NEW q \in Inventory!Job,
         UNCHANGED <<node, keyRow, count, drifted, shown>>,
         job' = [job EXCEPT ![d] = q], Informed(q), Counted(q), Known(q)
  PROVE  InventoryInv'
<1>1. ShownBehind'
  BY DEF InventoryInv, ShownBehind
<1> QED
  BY <1>1, JobStep DEF InventoryInv, Inventory!TypeOK

\* A screen changes the rows: other syncs' counts stand, but for the end users whose
\* keys come or go.
LEMMA RowStep ==
  ASSUME InventoryInv, NEW d \in Screens, NEW moved \in SUBSET Subjects,
         UNCHANGED <<node, shown>>,
         job' = [Inventory!Overtake(d, moved) EXCEPT ![d] = Inventory!Done],
         keyRow' \in [Keys -> Inventory!Row],
         count' \in [Subjects -> 0..Inventory!Cardinality(Keys)], drifted' \subseteq Subjects,
         \A k \in Keys : keyRow[k] # "none" => keyRow'[k] # "none",
         \A e \in Screens \ {d}, k \in Keys :
            (/\ job[e].pc = "commit" /\ job[e].keys[k] = "absent" /\ k \notin job[e].marked
             /\ Owner[k] \notin moved)
               => (Inventory!Live(keyRow[k]) <=> Inventory!Live(keyRow'[k])),
         CountsFollow'
  PROVE  InventoryInv'
<1>0. /\ Inventory!TypeOK /\ job \in [Screens -> Inventory!Job]
      /\ \A e \in Screens : Informed(job[e]) /\ Counted(job[e]) /\ Known(job[e])
  BY DEF InventoryInv, Inventory!TypeOK
<1>1. ASSUME NEW e \in Screens, e # d
      PROVE  /\ job'[e] \in Inventory!Job /\ job'[e].pc = job[e].pc
             /\ job'[e].key = job[e].key /\ job'[e].to = job[e].to
             /\ job'[e].keys = job[e].keys /\ job'[e].total = job[e].total
             /\ job'[e].confirmed = job[e].confirmed /\ job'[e].marked = job[e].marked
             /\ job'[e].counts = job[e].counts /\ job'[e].stale = job[e].stale
             /\ job'[e].wrong = job[e].wrong
             /\ job[e].pc = "commit" => job'[e].overtaken = job[e].overtaken \cup moved
  <2>1. job'[e] = IF job[e].pc = "commit"
                  THEN [job[e] EXCEPT !.overtaken = job[e].overtaken \cup moved] ELSE job[e]
    BY <1>1 DEF Inventory!Overtake
  <2>2. job[e] \in Inventory!Job
    BY <1>0
  <2> QED
    BY <2>1, <2>2 DEF Inventory!Job
<1>2. job'[d] = Inventory!Done
  BY DEF Inventory!Overtake
<1>3. job' \in [Screens -> Inventory!Job]
  <2>1. \A e \in Screens : job'[e] \in Inventory!Job
    BY <1>1, <1>2, IdleJob
  <2>2. job' = [e \in Screens |-> job'[e]]
    BY DEF Inventory!Overtake
  <2> QED
    BY <2>1, <2>2
<1>4. Inventory!TypeOK'
  BY <1>0, <1>3 DEF Inventory!TypeOK
<1>5. ASSUME NEW e \in Screens
      PROVE  Informed(job[e])' /\ Counted(job[e])' /\ Known(job[e])'
  <2>1. CASE e = d
    <3>1. job'[e].pc = "refresh"
      BY <1>2, <2>1, IdleJob
    <3> QED
      BY <3>1 DEF Informed, Counted, Known
  <2>2. CASE e # d
    <3> DEFINE p == job[e]
    <3>0. p = job[e] /\ p \in Inventory!Job /\ Informed(p) /\ Counted(p) /\ Known(p)
      BY <1>0
    <3> HIDE DEF p
    <3>1. /\ job'[e].pc = p.pc /\ job'[e].key = p.key /\ job'[e].to = p.to
          /\ job'[e].keys = p.keys /\ job'[e].total = p.total
          /\ job'[e].confirmed = p.confirmed /\ job'[e].stale = p.stale
          /\ job'[e].wrong = p.wrong
      BY <1>1, <2>2, <3>0
    <3>2. /\ job'[e].marked = p.marked /\ job'[e].counts = p.counts
          /\ p.pc = "commit" => job'[e].overtaken = p.overtaken \cup moved
      BY <1>1, <2>2, <3>0
    <3>3. Informed(job[e])'
      BY <3>0, <3>1 DEF Informed
    <3>4. Known(job[e])'
      BY <3>0, <3>1 DEF Known
    <3>5. Counted(job[e])'
      <4> SUFFICES ASSUME p.pc = "commit", NEW s \in Subjects, s \notin p.overtaken, s \notin moved
                   PROVE  p.counts[s] = Inventory!Held(Left(job[e])', s)
        BY <3>1, <3>2 DEF Counted
      <4>1. p.counts[s] = Inventory!Held(Left(p), s)
        BY <3>0 DEF Counted
      <4>2. ASSUME NEW k \in Keys, Owner[k] = s
            PROVE  Inventory!Live(Left(p)[k]) <=> Inventory!Live(Left(job[e])'[k])
        <5>1. /\ Left(p)[k] = IF p.keys[k] # "absent" THEN p.keys[k]
                              ELSE IF k \in p.marked THEN "deleted" ELSE keyRow[k]
              /\ Left(job[e])'[k] = IF p.keys[k] # "absent" THEN p.keys[k]
                                    ELSE IF k \in p.marked THEN "deleted" ELSE keyRow'[k]
          BY <3>1, <3>2 DEF Left
        <5> QED
          BY <2>2, <3>0, <4>2, <5>1
      <4> QED
        BY <4>1, <4>2, HeldSame
    <3> QED
      BY <3>3, <3>4, <3>5
  <2> QED
    BY <2>1, <2>2
<1>6. ShownBehind'
  BY DEF InventoryInv, ShownBehind
<1> QED
  BY <1>4, <1>5, <1>6 DEF InventoryInv

\* The nodes change a key, for a screen or for somebody else: whoever has their
\* answer in hand is behind from here on.
LEMMA NodesStep ==
  ASSUME InventoryInv, NEW k \in Keys, NEW status \in Inventory!OnNodes,
         NEW jobs \in [Screens -> Inventory!Job],
         \A d \in Screens :
            \/ jobs[d] = job[d]
            \/ /\ job[d].pc = "node" /\ jobs[d].pc = "record" /\ jobs[d].key = k
               /\ jobs[d].to = status /\ status # "absent" /\ keyRow[k] # "none",
         Inventory!Nodes(k, status, jobs), UNCHANGED <<keyRow, count, drifted, shown>>
  PROVE  InventoryInv'
<1> DEFINE told(d) == job[d].pc \in Inventory!Told /\ status # node[k]
<1>0. /\ Inventory!TypeOK /\ node' = [node EXCEPT ![k] = status]
      /\ job' = [d \in Screens |-> IF told(d) THEN [jobs[d] EXCEPT !.stale = TRUE] ELSE jobs[d]]
  BY DEF InventoryInv, Inventory!Nodes
<1>1. ASSUME NEW d \in Screens
      PROVE  [jobs[d] EXCEPT !.stale = TRUE] \in Inventory!Job /\ jobs[d] \in Inventory!Job
  BY DEF Inventory!Job
<1>2. job' \in [Screens -> Inventory!Job]
  BY <1>0, <1>1
<1>3. Inventory!TypeOK' /\ ShownBehind' /\ CountsFollow'
  BY <1>0, <1>2
  DEF InventoryInv, Inventory!TypeOK, ShownBehind, CountsFollow, Inventory!CountsFollow
<1>4. ASSUME NEW d \in Screens
      PROVE  Informed(job[d])' /\ Counted(job[d])' /\ Known(job[d])'
  <2> DEFINE p == job[d]
  <2>0. p = job[d] /\ p \in Inventory!Job /\ Informed(p) /\ Counted(p) /\ Known(p)
    BY DEF InventoryInv, Inventory!TypeOK
  <2> HIDE DEF p
  <2>1. CASE told(d)
    <3>1. job'[d] = [p EXCEPT !.stale = TRUE]
      BY <1>0, <2>0, <2>1 DEF Inventory!Told
    <3>2. /\ job'[d].stale /\ job'[d].pc = p.pc /\ job'[d].key = p.key /\ job'[d].to = p.to
          /\ job'[d].keys = p.keys /\ job'[d].total = p.total
          /\ job'[d].confirmed = p.confirmed /\ job'[d].marked = p.marked
          /\ job'[d].counts = p.counts /\ job'[d].overtaken = p.overtaken
      BY <2>0, <3>1 DEF Inventory!Job
    <3> HIDE DEF told
    <3> QED
      BY <2>0, <3>2 DEF Informed, Counted, Left, Known
  <2>2. CASE ~told(d) /\ jobs[d] = job[d]
    <3>1. job'[d] = p
      BY <1>0, <2>0, <2>2
    <3>2. p.pc \in Inventory!Told => node' = node
      BY <1>0, <2>0, <2>2 DEF Inventory!TypeOK
    <3> HIDE DEF told
    <3> QED
      BY <2>0, <3>1, <3>2 DEF Informed, Counted, Left, Known, Inventory!Told
  <2>3. CASE jobs[d] # job[d]
    <3>1. job'[d] = jobs[d] /\ jobs[d].pc = "record" /\ jobs[d].key = k /\ jobs[d].to = status
      BY <1>0, <2>3 DEF Inventory!Told
    <3>2. node'[k] = status /\ status \in {"enabled", "disabled"} /\ keyRow[k] # "none"
      BY <1>0, <2>3 DEF Inventory!TypeOK, Inventory!OnNodes
    <3> QED
      BY <3>1, <3>2 DEF Informed, Counted, Known
  <2> QED
    BY <2>1, <2>2, <2>3
<1> QED
  BY <1>3, <1>4 DEF InventoryInv

LEMMA SetStep ==
  ASSUME InventoryInv, NEW d \in Screens, Inventory!SetKeyStatus(d)
  PROVE  InventoryInv'
<1>0. /\ Inventory!TypeOK /\ job[d] \in Inventory!Job /\ Known(job[d])
      /\ job \in [Screens -> Inventory!Job] /\ CountsFollow
  BY DEF InventoryInv, Inventory!TypeOK
<1> DEFINE k == job[d].key
           revived == IF keyRow[k] = "deleted" THEN {Owner[k]} ELSE {}
<1>1. /\ job[d].pc = "record" /\ Inventory!Free(d, {k}) /\ UNCHANGED <<node, count, shown>>
      /\ keyRow' = [keyRow EXCEPT ![k] = job[d].to] /\ drifted' = drifted \cup revived
      /\ job' = [Inventory!Overtake(d, revived) EXCEPT ![d] = Inventory!Done]
  BY DEF Inventory!SetKeyStatus
<1>2. k \in Keys /\ job[d].to \in {"enabled", "disabled"} /\ keyRow[k] # "none"
  BY <1>0, <1>1 DEF Known
<1>3. revived \in SUBSET Subjects
  BY <1>2, OwnerAssumption
<1>4. keyRow' \in [Keys -> Inventory!Row] /\ keyRow[k] \in Inventory!Row
  BY <1>0, <1>1, <1>2 DEF Inventory!TypeOK, Inventory!Row
<1>5. /\ Inventory!Live(keyRow'[k])
      /\ Owner[k] \notin revived => Inventory!Live(keyRow[k])
      /\ \A j \in Keys : j # k => keyRow'[j] = keyRow[j]
  BY <1>0, <1>1, <1>2, <1>4 DEF Inventory!TypeOK, Inventory!Live, Inventory!Row
<1>7. ASSUME NEW j \in Keys, Owner[j] \notin revived
      PROVE  Inventory!Live(keyRow[j]) <=> Inventory!Live(keyRow'[j])
  <2> HIDE DEF revived, k
  <2>1. CASE j = k
    BY <1>5, <1>7, <2>1
  <2>2. CASE j # k
    BY <1>5, <2>2
  <2> QED
    BY <2>1, <2>2
<1>8. CountsFollow'
  <2> SUFFICES ASSUME NEW s \in Subjects, s \notin drifted, s \notin revived
               PROVE  count[s] = Inventory!Held(keyRow', s)
    BY <1>1 DEF CountsFollow, Inventory!CountsFollow
  <2>1. count[s] = Inventory!Held(keyRow, s)
    BY <1>0 DEF CountsFollow, Inventory!CountsFollow
  <2>2. ASSUME NEW j \in Keys, Owner[j] = s
        PROVE  Inventory!Live(keyRow[j]) <=> Inventory!Live(keyRow'[j])
    <3> HIDE DEF revived, k
    <3>1. CASE j = k
      BY <1>5, <2>2, <3>1
    <3>2. CASE j # k
      BY <1>5, <3>2
    <3> QED
      BY <3>1, <3>2
  <2> QED
    BY <2>1, <2>2, HeldSame
<1>9. \A j \in Keys : keyRow[j] # "none" => keyRow'[j] # "none"
  BY <1>2, <1>5 DEF Inventory!Live
<1>10. drifted' \subseteq Subjects
  BY <1>0, <1>1, <1>3 DEF Inventory!TypeOK
<1> HIDE DEF revived, k
<1> QED
  <2>1. UNCHANGED <<node, shown>> /\ count' \in [Subjects -> 0..Inventory!Cardinality(Keys)]
    BY <1>0, <1>1 DEF Inventory!TypeOK
  <2>2. PICK moved \in SUBSET Subjects : moved = revived
    BY <1>3
  <2> QED
    BY <1>1, <1>4, <1>7, <1>8, <1>9, <1>10, <2>1, <2>2, RowStep

LEMMA CommitStep ==
  ASSUME InventoryInv, NEW d \in Screens, Inventory!Commit(d)
  PROVE  InventoryInv'
<1>0. /\ Inventory!TypeOK /\ job[d] \in Inventory!Job /\ Counted(job[d])
      /\ job \in [Screens -> Inventory!Job] /\ CountsFollow
  BY DEF InventoryInv, Inventory!TypeOK
<1> DEFINE counts == job[d].counts
           moved == {s \in Subjects : \E k \in Keys :
                        Owner[k] = s /\ Inventory!Live(keyRow'[k]) # Inventory!Live(keyRow[k])}
<1>1. /\ job[d].pc = "commit" /\ UNCHANGED <<node, shown>>
      /\ keyRow' = Left(job[d])
      /\ count' = [s \in Subjects |-> IF counts[s] = 0 THEN count[s] ELSE counts[s]]
      /\ drifted' = {s \in Subjects : \/ s \in job[d].overtaken
                                      \/ /\ Inventory!Held(keyRow', s) = 0
                                         /\ s \in drifted \cup moved}
      /\ job' = [Inventory!Overtake(d, moved) EXCEPT ![d] = Inventory!Done]
  BY DEF Inventory!Commit, Inventory!After, Left
<1>2. keyRow' \in [Keys -> Inventory!Row]
  BY <1>0, <1>1
  DEF Left, Inventory!TypeOK, Inventory!Job, Inventory!Row, Inventory!Listed, Inventory!OnNodes
<1>3. \A k \in Keys : keyRow[k] # "none" => keyRow'[k] # "none"
  BY <1>0, <1>1 DEF Left, Inventory!TypeOK, Inventory!Job, Inventory!Listed, Inventory!OnNodes
<1>4. counts \in [Subjects -> 0..Inventory!Cardinality(Keys)]
  BY <1>0 DEF Inventory!Job
<1>5. count' \in [Subjects -> 0..Inventory!Cardinality(Keys)]
  BY <1>0, <1>1, <1>4 DEF Inventory!TypeOK
<1>6. \A k \in Keys : Owner[k] \notin moved
        => (Inventory!Live(keyRow[k]) <=> Inventory!Live(keyRow'[k]))
  BY OwnerAssumption DEF Inventory!Live
<1>7. CountsFollow'
  <2> SUFFICES ASSUME NEW s \in Subjects, s \notin drifted'
               PROVE  count'[s] = Inventory!Held(keyRow', s)
    BY DEF CountsFollow, Inventory!CountsFollow
  <2>1. /\ s \notin job[d].overtaken
        /\ Inventory!Held(keyRow', s) = 0 => s \notin drifted /\ s \notin moved
    BY <1>1
  <2>2. counts[s] = Inventory!Held(keyRow', s)
    BY <1>0, <1>1, <2>1 DEF Counted
  <2>3. count'[s] = IF counts[s] = 0 THEN count[s] ELSE counts[s]
    BY <1>1
  <2>4. CASE Inventory!Held(keyRow', s) # 0
    BY <2>2, <2>3, <2>4
  <2>5. CASE Inventory!Held(keyRow', s) = 0
    <3>1. count[s] = Inventory!Held(keyRow, s)
      BY <1>0, <2>1, <2>5 DEF CountsFollow, Inventory!CountsFollow
    <3>2. \A k \in Keys : Owner[k] = s
            => (Inventory!Live(keyRow[k]) <=> Inventory!Live(keyRow'[k]))
      BY <1>6, <2>1, <2>5
    <3>3. Inventory!Held(keyRow, s) = Inventory!Held(keyRow', s)
      BY <3>2, HeldSame
    <3> QED
      BY <2>2, <2>3, <2>5, <3>1, <3>3
  <2> QED
    BY <2>4, <2>5
<1>8. moved \in SUBSET Subjects /\ drifted' \subseteq Subjects
  BY <1>1
<1> HIDE DEF moved, counts
<1> QED
  BY <1>0, <1>1, <1>2, <1>3, <1>5, <1>6, <1>7, <1>8, RowStep

LEMMA InventoryDo ==
  ASSUME InventoryInv, NEW d \in Screens, Inventory!Do(d)
  PROVE  InventoryInv'
<1>0. /\ Inventory!TypeOK /\ job[d] \in Inventory!Job
      /\ Informed(job[d]) /\ Counted(job[d]) /\ Known(job[d])
      /\ job \in [Screens -> Inventory!Job]
  BY DEF InventoryInv, Inventory!TypeOK
<1>1. ASSUME NEW k \in Keys, Inventory!Press(d, k)
      PROVE  InventoryInv'
  <2> DEFINE to == IF shown[d][k] = "enabled" THEN "disabled" ELSE "enabled"
             q == [job[d] EXCEPT !.pc = "node", !.key = k, !.to = to]
  <2>1. to \in {"enabled", "disabled"} /\ to \in Inventory!OnNodes
    BY DEF Inventory!OnNodes
  <2>2. job' = [job EXCEPT ![d] = q] /\ UNCHANGED <<node, keyRow, count, drifted, shown>>
    BY <1>0, <1>1 DEF Inventory!Press, Inventory!platform
  <2> HIDE DEF to
  <2>3. q \in Inventory!Job /\ q.pc = "node" /\ q.key = k /\ q.to = to
    BY <1>0, <2>1 DEF Inventory!Job
  <2> HIDE DEF q
  <2>4. keyRow[k] # "none"
    BY <1>1 DEF InventoryInv, ShownBehind, Inventory!Press
  <2>5. Informed(q) /\ Counted(q) /\ Known(q)
    BY <2>1, <2>3, <2>4 DEF Informed, Counted, Known
  <2> QED
    BY <2>2, <2>3, <2>5, WorkStep
<1>2. CASE Inventory!AskNodes(d)
  <2> DEFINE q == [job[d] EXCEPT !.pc = "record"]
             jobs == [job EXCEPT ![d].pc = "record"]
  <2>1. /\ job[d].pc = "node" /\ job[d].key \in Keys /\ job[d].to \in {"enabled", "disabled"}
        /\ keyRow[job[d].key] # "none" /\ Inventory!Nodes(job[d].key, job[d].to, jobs)
        /\ UNCHANGED <<keyRow, count, drifted, shown>>
    BY <1>0, <1>2 DEF Inventory!AskNodes, Known, Inventory!platform
  <2>2. jobs = [job EXCEPT ![d] = q]
    BY <1>0
  <2>3. q \in Inventory!Job /\ q.pc = "record" /\ q.key = job[d].key /\ q.to = job[d].to
    BY <1>0 DEF Inventory!Job
  <2>4. /\ jobs \in [Screens -> Inventory!Job]
        /\ \A e \in Screens : jobs[e] = IF e = d THEN q ELSE job[e]
    BY <1>0, <2>2, <2>3
  <2>5. job[d].to \in Inventory!OnNodes /\ job[d].to # "absent"
    BY <2>1 DEF Inventory!OnNodes
  <2> HIDE DEF q, jobs
  <2> QED
    BY <2>1, <2>3, <2>4, <2>5, NodesStep
<1>3. CASE Inventory!Refresh(d) \/ Inventory!Open(d) \/ Inventory!Fail(d)
  <2>1. /\ job' = [job EXCEPT ![d] = Inventory!Idle]
        /\ UNCHANGED <<node, keyRow, count, drifted>>
        /\ \E v \in {keyRow, Inventory!NotRead, shown[d]} : shown' = [shown EXCEPT ![d] = v]
    BY <1>0, <1>3
    DEF Inventory!Refresh, Inventory!Open, Inventory!Fail, Inventory!platform, Inventory!TypeOK
  <2>2. /\ shown' \in [Screens -> [Keys -> Inventory!Row] \cup {Inventory!NotRead}]
        /\ ShownBehind'
    BY <1>0, <2>1 DEF InventoryInv, Inventory!TypeOK, ShownBehind
  <2>3. Informed(Inventory!Idle) /\ Counted(Inventory!Idle) /\ Known(Inventory!Idle)
    BY IdleJob DEF Informed, Counted, Known
  <2> QED
    BY <2>1, <2>2, <2>3, IdleJob, JobStep
<1>4. CASE Inventory!StartSync(d)
  <2> DEFINE total == Inventory!Total(d)
             q == [Inventory!Idle EXCEPT !.pc = "fetch", !.total = total]
  <2>1. total \in 0..Inventory!Cardinality(Keys)
    <3>1. 0 \in 0..Inventory!Cardinality(Keys)
      BY SomeKeys
    <3>2. Inventory!Cardinality({k \in Keys : Inventory!Live(shown[d][k])}) \in 0..Inventory!Cardinality(Keys)
      BY SomeKeys
    <3> QED
      BY <3>1, <3>2 DEF Inventory!Total
  <2>2. job' = [job EXCEPT ![d] = q] /\ UNCHANGED <<node, keyRow, count, drifted, shown>>
    BY <1>4 DEF Inventory!StartSync, Inventory!platform
  <2> HIDE DEF total
  <2>3. q \in Inventory!Job /\ q.pc = "fetch"
    BY <2>1, IdleJob DEF Inventory!Job
  <2> HIDE DEF q
  <2>4. Informed(q) /\ Counted(q) /\ Known(q)
    BY <2>3 DEF Informed, Counted, Known
  <2> QED
    BY <2>2, <2>3, <2>4, WorkStep
<1>5. CASE Inventory!Fetch(d)
  <2> PICK keys \in [Keys -> Inventory!Listed] :
        job' = [job EXCEPT ![d].pc = "check", ![d].keys = keys,
                           ![d].wrong = {k \in Keys : keys[k] # node[k]}]
    BY <1>5 DEF Inventory!Fetch
  <2> DEFINE wrong == {k \in Keys : keys[k] # node[k]}
             q == [job[d] EXCEPT !.pc = "check", !.keys = keys, !.wrong = wrong]
  <2>1. job' = [job EXCEPT ![d] = q] /\ UNCHANGED <<node, keyRow, count, drifted, shown>>
    BY <1>0, <1>5 DEF Inventory!Fetch, Inventory!platform
  <2>2. wrong \in SUBSET Keys /\ \A k \in Keys \ wrong : keys[k] = node[k]
    OBVIOUS
  <2> HIDE DEF wrong
  <2>3. q \in Inventory!Job /\ q.pc = "check" /\ q.keys = keys /\ q.wrong = wrong
    BY <1>0, <2>2 DEF Inventory!Job
  <2> HIDE DEF q
  <2>4. Informed(q) /\ Counted(q) /\ Known(q)
    BY <2>2, <2>3 DEF Informed, Counted, Known
  <2> QED
    BY <2>1, <2>3, <2>4, WorkStep
<1>6. CASE Inventory!Check(d)
  <2> DEFINE empty == job[d].keys = Inventory!NoKeys /\ job[d].total > 0
             q == [job[d] EXCEPT !.pc = "post", !.confirmed = empty]
  <2>1. /\ job' = [job EXCEPT ![d] = q] /\ UNCHANGED <<node, keyRow, count, drifted, shown>>
        /\ job[d].pc = "check"
    BY <1>0, <1>6 DEF Inventory!Check, Inventory!platform
  <2>2. empty \in BOOLEAN
    OBVIOUS
  <2>3. /\ q \in Inventory!Job /\ q.pc = "post" /\ q.keys = job[d].keys
        /\ q.total = job[d].total /\ q.stale = job[d].stale /\ q.confirmed = empty
        /\ q.wrong = job[d].wrong
    BY <1>0, <2>2 DEF Inventory!Job
  <2> HIDE DEF q
  <2>4. Informed(q) /\ Counted(q) /\ Known(q)
    BY <1>0, <2>1, <2>3 DEF Informed, Counted, Known
  <2> QED
    BY <2>1, <2>3, <2>4, WorkStep
<1>7. CASE Inventory!UpsertKeys(d)
  <2> DEFINE q == [job[d] EXCEPT !.pc = "upserted"]
  <2>1. /\ job' = [job EXCEPT ![d] = q] /\ UNCHANGED <<node, keyRow, count, drifted, shown>>
        /\ job[d].pc = "post"
    BY <1>0, <1>7 DEF Inventory!UpsertKeys, Inventory!Goto, Inventory!platform
  <2>2. /\ q \in Inventory!Job /\ q.pc = "upserted" /\ q.keys = job[d].keys
        /\ q.total = job[d].total /\ q.stale = job[d].stale
        /\ q.confirmed = job[d].confirmed /\ q.wrong = job[d].wrong
    BY <1>0 DEF Inventory!Job
  <2> HIDE DEF q
  <2>3. Informed(q) /\ Counted(q) /\ Known(q)
    BY <1>0, <2>1, <2>2 DEF Informed, Counted, Known
  <2> QED
    BY <2>1, <2>2, <2>3, WorkStep
<1>m. ASSUME NEW marked \in SUBSET Keys, NEW at \in {"mark", "count"},
             job' = [job EXCEPT ![d].pc = at, ![d].marked = marked],
             job[d].pc \in {"upserted", "mark"}, UNCHANGED <<node, keyRow, count, drifted, shown>>
      PROVE  InventoryInv'
  <2> DEFINE q == [job[d] EXCEPT !.pc = at, !.marked = marked]
  <2>1. job' = [job EXCEPT ![d] = q]
    BY <1>0, <1>m
  <2>2. /\ q \in Inventory!Job /\ q.pc = at /\ q.keys = job[d].keys
        /\ q.total = job[d].total /\ q.stale = job[d].stale
        /\ q.confirmed = job[d].confirmed /\ q.wrong = job[d].wrong
    BY <1>0 DEF Inventory!Job
  <2> HIDE DEF q
  <2>3. Informed(q) /\ Counted(q) /\ Known(q)
    BY <1>0, <1>m, <2>2 DEF Informed, Counted, Known
  <2> QED
    BY <1>m, <2>1, <2>2, <2>3, WorkStep
<1>8. CASE Inventory!SeeKeys(d)
  <2> DEFINE marked == {k \in Keys : job[d].keys[k] = "absent" /\ Inventory!Live(keyRow[k])}
  <2>1. /\ job' = [job EXCEPT ![d].pc = "mark", ![d].marked = marked]
        /\ job[d].pc = "upserted" /\ UNCHANGED <<node, keyRow, count, drifted, shown>>
    BY <1>8 DEF Inventory!SeeKeys, Inventory!platform
  <2>2. PICK m \in SUBSET Keys : m = marked
    OBVIOUS
  <2> HIDE DEF marked
  <2> QED
    BY <1>m, <2>1, <2>2
<1>10. CASE Inventory!MarkDeleted(d)
  <2> DEFINE marked == {k \in job[d].marked : Inventory!Live(keyRow[k])}
  <2>1. /\ job' = [job EXCEPT ![d].pc = "count", ![d].marked = marked]
        /\ job[d].pc = "mark" /\ UNCHANGED <<node, keyRow, count, drifted, shown>>
    BY <1>10 DEF Inventory!MarkDeleted, Inventory!platform
  <2>2. PICK m \in SUBSET Keys : m = marked
    BY <1>0 DEF Inventory!Job
  <2> HIDE DEF marked
  <2> QED
    BY <1>m, <2>1, <2>2
<1>9. CASE Inventory!CountKeys(d)
  <2> DEFINE counts == [s \in Subjects |-> Inventory!Held(Inventory!After(d), s)]
             q == [job[d] EXCEPT !.pc = "commit", !.counts = counts]
  <2>1. /\ job' = [job EXCEPT ![d] = q] /\ UNCHANGED <<node, keyRow, count, drifted, shown>>
        /\ job[d].pc = "count"
    BY <1>0, <1>9 DEF Inventory!CountKeys, Inventory!platform
  <2>2. /\ counts \in [Subjects -> 0..Inventory!Cardinality(Keys)]
        /\ \A s \in Subjects : counts[s] = Inventory!Held(Left(job[d]), s)
    BY HeldType DEF Inventory!After, Left
  <2> HIDE DEF counts
  <2>3. /\ q \in Inventory!Job /\ q.pc = "commit" /\ q.keys = job[d].keys
        /\ q.total = job[d].total /\ q.stale = job[d].stale
        /\ q.confirmed = job[d].confirmed /\ q.wrong = job[d].wrong
        /\ q.counts = counts /\ q.marked = job[d].marked
    BY <1>0, <2>2 DEF Inventory!Job
  <2> HIDE DEF q
  <2>4. Informed(q) /\ Counted(q) /\ Known(q)
    BY <1>0, <2>1, <2>2, <2>3 DEF Informed, Counted, Left, Known
  <2> QED
    BY <2>1, <2>3, <2>4, WorkStep
<1> QED
  BY <1>1, <1>2, <1>3, <1>4, <1>5, <1>6, <1>7, <1>8, <1>9, <1>10, SetStep, CommitStep
  DEF Inventory!Do

LEMMA InventoryNext == InventoryInv /\ [Inventory!Next]_(Inventory!vars) => InventoryInv'
<1> SUFFICES ASSUME InventoryInv, [Inventory!Next]_(Inventory!vars)
             PROVE  InventoryInv'
  OBVIOUS
<1>1. ASSUME NEW k \in Keys, NEW status \in Inventory!OnNodes,
             Inventory!ChangeOutside(k, status)
      PROVE  InventoryInv'
  <2>1. Inventory!Nodes(k, status, job) /\ UNCHANGED <<keyRow, count, drifted, shown>>
    BY <1>1 DEF Inventory!ChangeOutside, Inventory!platform
  <2>2. job \in [Screens -> Inventory!Job]
    BY DEF InventoryInv, Inventory!TypeOK
  <2> QED
    BY <2>1, <2>2, NodesStep
<1>2. CASE UNCHANGED Inventory!vars
  BY <1>2
  DEF Inventory!vars, InventoryInv, Inventory!TypeOK, ShownBehind, CountsFollow,
      Inventory!CountsFollow, Informed, Counted, Left, Known
<1> QED
  BY <1>1, <1>2, InventoryDo DEF Inventory!Next

\* Only a change of one key's status and a sync's commit touch the rows.
LEMMA RowWriters ==
  ASSUME [Inventory!Next]_(Inventory!vars), keyRow' # keyRow
  PROVE  \E d \in Screens : Inventory!SetKeyStatus(d) \/ Inventory!Commit(d)
  BY DEF Inventory!Next, Inventory!Do, Inventory!vars, Inventory!ChangeOutside, Inventory!Press,
         Inventory!AskNodes, Inventory!StartSync, Inventory!Fetch, Inventory!Check,
         Inventory!UpsertKeys, Inventory!SeeKeys, Inventory!MarkDeleted, Inventory!CountKeys,
         Inventory!Refresh, Inventory!Open, Inventory!Fail, Inventory!platform

LEMMA WritersEffect ==
  ASSUME InventoryInv, NEW d \in Screens, Inventory!SetKeyStatus(d) \/ Inventory!Commit(d)
  PROVE  job'[d].pc = "refresh"
<1>1. job \in [Screens -> Inventory!Job]
  BY DEF InventoryInv, Inventory!TypeOK
<1>2. job'[d] = Inventory!Done
  BY DEF Inventory!SetKeyStatus, Inventory!Commit, Inventory!Overtake
<1> QED
  BY <1>2, IdleJob

LEMMA StepDisabled ==
  ASSUME InventoryInv, [Inventory!Next]_(Inventory!vars), NEW k \in Keys,
         keyRow[k] # "disabled", keyRow'[k] = "disabled"
  PROVE  \/ node[k] # "enabled"
         \/ \E d \in Screens :
               /\ job[d].pc \in {"record", "commit"} /\ job'[d].pc = "refresh"
               /\ job[d].stale \/ k \in job[d].wrong
<1>0. Inventory!TypeOK
  BY DEF InventoryInv
<1>1. PICK d \in Screens : Inventory!SetKeyStatus(d) \/ Inventory!Commit(d)
  BY RowWriters
<1>2. Informed(job[d]) /\ job[d] \in Inventory!Job /\ job'[d].pc = "refresh"
  BY <1>0, <1>1, WritersEffect DEF InventoryInv, Inventory!TypeOK
<1>3. CASE Inventory!SetKeyStatus(d)
  <2>1. job[d].key = k /\ job[d].to = "disabled" /\ job[d].pc = "record"
    BY <1>0, <1>3 DEF Inventory!SetKeyStatus, Inventory!TypeOK
  <2>2. job[d].stale \/ node[k] = "disabled"
    BY <1>2, <2>1 DEF Informed
  <2> QED
    BY <1>2, <2>1, <2>2
<1>4. CASE Inventory!Commit(d)
  <2>1. job[d].keys[k] = "disabled" /\ job[d].pc = "commit"
    BY <1>0, <1>4 DEF Inventory!Commit, Inventory!After
  <2>2. job[d].stale \/ k \in job[d].wrong \/ node[k] = "disabled"
    BY <1>2, <2>1 DEF Informed
  <2> QED
    BY <1>2, <2>1, <2>2
<1> QED
  BY <1>1, <1>3, <1>4

LEMMA StepWiped ==
  ASSUME InventoryInv, [Inventory!Next]_(Inventory!vars), NEW k \in Keys,
         Inventory!Live(keyRow[k]), keyRow'[k] = "deleted", node[k] # "absent"
  PROVE  \E d \in Screens :
            /\ job[d].pc = "commit" /\ job'[d].pc # "commit"
            /\ \/ job[d].stale \/ job[d].confirmed \/ job[d].total = 0
               \/ job[d].keys # Inventory!NoKeys /\ k \in job[d].wrong
<1>0. Inventory!TypeOK
  BY DEF InventoryInv
<1>1. PICK d \in Screens : Inventory!SetKeyStatus(d) \/ Inventory!Commit(d)
  BY RowWriters DEF Inventory!Live
<1>2. /\ Informed(job[d]) /\ Known(job[d]) /\ job[d] \in Inventory!Job
      /\ job'[d].pc = "refresh"
  BY <1>0, <1>1, WritersEffect DEF InventoryInv, Inventory!TypeOK
<1>3. Inventory!Commit(d)
  <2> SUFFICES ASSUME Inventory!SetKeyStatus(d)
               PROVE  FALSE
    BY <1>1
  <2>1. job[d].to \in {"enabled", "disabled"}
    BY <1>2 DEF Inventory!SetKeyStatus, Known
  <2> QED
    BY <1>0, <2>1 DEF Inventory!SetKeyStatus, Inventory!TypeOK, Inventory!Live
<1>4. job[d].pc = "commit" /\ job[d].keys[k] \in {"absent", "deleted"}
  BY <1>3 DEF Inventory!Commit, Inventory!After, Inventory!Live
<1>5. job[d].keys[k] # node[k]
  BY <1>0, <1>4 DEF Inventory!TypeOK, Inventory!OnNodes
<1>6. job[d].stale \/ k \in job[d].wrong
  BY <1>2, <1>4, <1>5 DEF Informed
<1>7. CASE job[d].keys = Inventory!NoKeys
  <2>1. job[d].total \in 0..Inventory!Cardinality(Keys)
    BY <1>2 DEF Inventory!Job
  <2>2. job[d].total = 0 \/ job[d].total > 0
    BY <2>1, SomeKeys
  <2>3. job[d].confirmed \/ job[d].total = 0
    BY <1>2, <1>4, <1>7, <2>2 DEF Informed
  <2> QED
    BY <1>2, <1>4, <2>3
<1>8. CASE job[d].keys # Inventory!NoKeys
  BY <1>2, <1>4, <1>6, <1>8
<1> QED
  BY <1>7, <1>8

\* The rows, the counts and every screen's work keep their types.
THEOREM InventoryTypeCorrect == Inventory!Spec => []Inventory!TypeOK
<1>1. InventoryInv => Inventory!TypeOK
  BY DEF InventoryInv
<1> QED
  BY InventoryInit, InventoryNext, <1>1, PTL DEF Inventory!Spec

\* The console comes to show as disabled a key that can still sign only when the
\* nodes were told otherwise after they had answered (setStatus asks them first), or
\* the list that was posted said what they never did.
THEOREM DisabledKnown == Inventory!Spec => DisabledOnNodes
<1>1. InventoryInv /\ [Inventory!Next]_(Inventory!vars) =>
        [\A k \in Keys : (keyRow[k] # "disabled" /\ keyRow'[k] = "disabled") =>
            \/ node[k] # "enabled"
            \/ \E d \in Screens :
                  /\ job[d].pc \in {"record", "commit"} /\ job'[d].pc = "refresh"
                  /\ job[d].stale \/ k \in job[d].wrong]_(Inventory!vars)
  BY StepDisabled
<1> QED
  BY InventoryInit, InventoryNext, <1>1, PTL
  DEF Inventory!Spec, DisabledOnNodes, Inventory!DisabledOnNodes

\* A key that the nodes hold is marked deleted only by an answer older than it, by a
\* list of others that does not say so, or by an empty one that was confirmed or had
\* no key to lose (SyncModal's check, which looks at empty lists alone).
THEOREM WipedKnowingly == Inventory!Spec => NoSilentWipe
<1>1. InventoryInv /\ [Inventory!Next]_(Inventory!vars) =>
        [\A k \in Keys :
            (Inventory!Live(keyRow[k]) /\ keyRow'[k] = "deleted" /\ node[k] # "absent") =>
               \E d \in Screens :
                  /\ job[d].pc = "commit" /\ job'[d].pc # "commit"
                  /\ \/ job[d].stale \/ job[d].confirmed \/ job[d].total = 0
                     \/ job[d].keys # Inventory!NoKeys /\ k \in job[d].wrong]_(Inventory!vars)
  BY StepWiped
<1> QED
  BY InventoryInit, InventoryNext, <1>1, PTL
  DEF Inventory!Spec, NoSilentWipe, Inventory!NoSilentWipe

\* The users screen's number of an end user's keys is the wallets screen's, whatever
\* syncs and changes overlap, until a deleted key is enabled again, the last one goes
\* or a sync counts while another has yet to commit (SyncKeys, SetKeyStatus).
THEOREM CountsRight == Inventory!Spec => []CountsFollow
<1>1. InventoryInv => CountsFollow
  BY DEF InventoryInv
<1> QED
  BY InventoryInit, InventoryNext, <1>1, PTL DEF Inventory!Spec

----------------------------------------------------------------------------
(* All the screens.  One of them is open, and the others rest in a state   *)
(* of their own: each keeps its invariant.                                 *)

ScreensInv == QueryInv /\ OnchainInv /\ WizardInv /\ FormsInv /\ InventoryInv

LEMMA QueryRests == QueryShut => QueryInv
<1> SUFFICES ASSUME QueryShut
             PROVE  QueryInv
  OBVIOUS
<1>1. now = 0 /\ now \in 0..MaxChanges /\ question \in Questions /\ generation = 1
  BY BoundsAssumption, QuestionsAssumption DEF QueryShut
<1>2. 1 \in Generations /\ NoData \in Data
  BY BoundsAssumption DEF Generations, Data
<1>3. \A g \in Generations : run[g] = NoRun
  BY DEF QueryShut
<1>4. TypeOK
  BY <1>1, <1>2, NoRunType DEF QueryShut, TypeOK
<1>5. RunsAsked
  BY <1>3, NoRunType DEF RunsAsked
<1>6. LatestRun
  <2>1. data.version = -1 /\ -1 <= 0
    BY DEF QueryShut, NoData
  <2>2. run[generation].state = "none"
    BY <1>1, <1>2, <1>3, NoRunType
  <2> QED
    BY <1>1, <2>1, <2>2 DEF LatestRun
<1> QED
  BY <1>4, <1>5, <1>6 DEF QueryShut, QueryInv, AnswersItsQuestion, Latched

LEMMA ScreensStart == ScreensInit => ScreensInv
<1>1. OnchainShut => Onchain!Init
  BY DEF OnchainShut
<1>2. WizardShut => WizardInit
  BY DEF WizardShut
<1>3. FormShut => Forms!Init
  BY DEF FormShut
<1>4. InventoryShut => Inventory!Init
  BY DEF InventoryShut
<1> QED
  BY <1>1, <1>2, <1>3, <1>4, QueryInit, QueryRests, OnchainInit, InitInv, FormsInit, InventoryInit
  DEF ScreensInit, ScreensInv

\* A step of the screens is a step of one of them, which the others sit out.
LEMMA EachScreen ==
  ASSUME [ScreensNext]_<<screen, vars, onchain, wizard, forms, inventory>>
  PROVE  /\ [Next]_vars /\ [Onchain!Next]_(Onchain!vars) /\ [WizardNext]_wizard
         /\ [Forms!Next]_(Forms!vars) /\ [Inventory!Next]_(Inventory!vars)
<1>1. UNCHANGED onchain => UNCHANGED Onchain!vars
  BY DEF onchain, Onchain!vars
<1>2. UNCHANGED forms => UNCHANGED Forms!vars
  BY DEF forms, Forms!vars, Forms!screen
<1>3. UNCHANGED inventory => UNCHANGED Inventory!vars
  BY DEF inventory, Inventory!vars
<1> QED
  BY <1>1, <1>2, <1>3 DEF ScreensNext

LEMMA ScreensStep ==
  ScreensInv /\ [ScreensNext]_<<screen, vars, onchain, wizard, forms, inventory>> => ScreensInv'
  BY EachScreen, QueryNext, OnchainNext, WizardStep, FormsNext, InventoryNext DEF ScreensInv

\* Whichever screen is open, all of them keep their types.
THEOREM ScreensTypeCorrect == ScreensSpec => []ScreensTypeOK
<1>1. ScreensInv => ScreensTypeOK
  BY DEF ScreensInv, QueryInv, OnchainInv, WizardInv, FormsInv, InventoryInv, ScreensTypeOK
<1> QED
  BY ScreensStart, ScreensStep, <1>1, PTL DEF ScreensSpec

\* What a behaviour of the screens is to each of them: one of its own behaviours.
\* A query that is not open has ended, where its own behaviours begin with a read.
THEOREM EachBehaves ==
  ScreensSpec => Onchain!Spec /\ WizardSpec /\ Forms!Spec /\ Inventory!Spec
<1>1. ScreensInit => Onchain!Init /\ WizardInit /\ Forms!Init /\ Inventory!Init
  BY DEF ScreensInit, OnchainShut, WizardShut, FormShut, InventoryShut
<1>2. [ScreensNext]_<<screen, vars, onchain, wizard, forms, inventory>> =>
        /\ [Onchain!Next]_(Onchain!vars) /\ [WizardNext]_wizard
        /\ [Forms!Next]_(Forms!vars) /\ [Inventory!Next]_(Inventory!vars)
  BY EachScreen
<1> QED
  BY <1>1, <1>2, PTL DEF ScreensSpec, Onchain!Spec, WizardSpec, Forms!Spec, Inventory!Spec

\* The screens together promise what each of them promises.
THEOREM ScreensPromise ==
  ScreensSpec =>
    /\ []AnswersItsQuestion /\ []OneActionAtATime /\ NeverGoesBack
    /\ []ThresholdPossible /\ []LiveAsReviewed
    /\ RevertsOnlyAfterHandover /\ GoneFromBoth /\ UntouchedKept /\ CleanWhenLoaded
    /\ DisabledOnNodes /\ NoSilentWipe /\ []CountsFollow
<1>1. ScreensInv => AnswersItsQuestion /\ OneActionAtATime
  BY DEF ScreensInv, QueryInv, Latched, OneActionAtATime
<1>2. ScreensInv /\ [ScreensNext]_<<screen, vars, onchain, wizard, forms, inventory>> =>
        [data.of = data'.of => data'.version >= data.version]_vars
  BY EachScreen, StepForward DEF ScreensInv
<1>3. ScreensSpec => []AnswersItsQuestion /\ []OneActionAtATime /\ NeverGoesBack
  BY <1>1, <1>2, ScreensStart, ScreensStep, PTL DEF ScreensSpec, NeverGoesBack
<1> QED
  BY <1>3, EachBehaves, Reachable, Live, Reverts, Gone, Untouched, Clean, DisabledKnown,
     WipedKnowingly, CountsRight, PTL
=============================================================================
