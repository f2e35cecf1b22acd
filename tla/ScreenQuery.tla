---------------------------- MODULE ScreenQuery ----------------------------
(***************************************************************************)
(* The two hooks every console screen is built on (web/lib/hooks.ts):      *)
(* useQuery, which reads an endpoint on mount, when its dependencies change*)
(* and on demand, and useAction, which runs what a button does.            *)
(*                                                                         *)
(* The wallets screen is the liveliest user: its question changes with the *)
(* tab and with every letter of the search box, and a finished sync or     *)
(* status change refreshes it.                                             *)
(***************************************************************************)
EXTENDS Integers

CONSTANTS Questions,    \* what the dependencies may ask for
          MaxRuns,      \* bound on the generations of one mounted query
          MaxChanges    \* bound on the changes of what the server would answer

ASSUME QuestionsAssumption == Questions # {}
ASSUME BoundsAssumption == MaxRuns \in Nat \ {0} /\ MaxChanges \in Nat

VARIABLES
    now,        \* how often the server's data has changed
    question,   \* deps
    generation, \* generation.current
    data, error, loading,
    run,        \* the run of each generation
    inFlight,   \* useAction's ref
    pending,    \* useAction's state, as last rendered
    actions     \* the action's runs that have not ended

query == <<question, generation, data, error, loading, run>>
action == <<inFlight, pending, actions>>
vars == <<now, query, action>>

Generations == 1..MaxRuns
NoData == [of |-> {}, version |-> -1]
Data == {NoData} \cup [of : {{q} : q \in Questions}, version : 0..MaxChanges]
Run == [state : {"none", "asked", "answered"}, answer : Data, spinner : BOOLEAN]
NoRun == [state |-> "none", answer |-> NoData, spinner |-> FALSE]

TypeOK ==
    /\ now \in 0..MaxChanges
    /\ question \in Questions
    /\ generation \in Generations
    /\ data \in Data /\ error \in BOOLEAN /\ loading \in BOOLEAN
    /\ run \in [Generations -> Run]
    /\ inFlight \in BOOLEAN /\ pending \in BOOLEAN /\ actions \in Nat

Asked(q, spinner) == [state |-> "asked", answer |-> [of |-> {q}, version |-> now],
                      spinner |-> spinner]

\* The screen has just mounted: the first run is on its way.
Init ==
    /\ now = 0
    /\ question \in Questions
    /\ generation = 1
    /\ data = NoData /\ error = FALSE /\ loading = TRUE
    /\ run = [g \in Generations |-> IF g = 1 THEN Asked(question, TRUE) ELSE NoRun]
    /\ inFlight = FALSE /\ pending = FALSE /\ actions = 0

Change ==
    /\ now < MaxChanges
    /\ now' = now + 1
    /\ UNCHANGED <<query, action>>

----------------------------------------------------------------------------
(* useQuery                                                                *)

Start(g, q, spinner) ==
    /\ g \in Generations
    /\ generation' = g
    /\ run' = [run EXCEPT ![g] = Asked(q, spinner)]
    /\ loading' = (spinner \/ loading)

\* The cleanup takes one generation, the new run the next.
ChangeQuestion(q) ==
    /\ q # question
    /\ question' = q
    /\ Start(generation + 2, q, TRUE)
    /\ UNCHANGED <<now, data, error, action>>

\* A button, or an action that has finished; fetcherRef is the latest fetcher.
Refresh ==
    /\ Start(generation + 1, question, FALSE)
    /\ UNCHANGED <<now, question, data, error, action>>

\* The server answers with what it has by now.
Serve(g) ==
    /\ run[g].state = "asked"
    /\ run' = [run EXCEPT ![g].state = "answered", ![g].answer.version = now]
    /\ UNCHANGED <<now, question, generation, data, error, loading, action>>

Finished(g) == run' = [run EXCEPT ![g] = NoRun]

\* Whatever arrives is shown.
ResolveUnguarded(g) ==
    /\ run[g].state = "answered"
    /\ data' = run[g].answer /\ error' = FALSE /\ loading' = FALSE
    /\ Finished(g)
    /\ UNCHANGED <<now, question, generation, action>>

\* Each run puts out the spinner only if it had lit it.
ResolveOwnSpinner(g) ==
    /\ run[g].state = "answered"
    /\ IF g = generation THEN data' = run[g].answer /\ error' = FALSE
                              /\ loading' = (loading /\ ~run[g].spinner)
       ELSE UNCHANGED <<data, error, loading>>
    /\ Finished(g)
    /\ UNCHANGED <<now, question, generation, action>>

Resolve(g) ==
    /\ run[g].state = "answered"
    /\ IF g = generation THEN data' = run[g].answer /\ error' = FALSE /\ loading' = FALSE
       ELSE UNCHANGED <<data, error, loading>>
    /\ Finished(g)
    /\ UNCHANGED <<now, question, generation, action>>

Reject(g) ==
    /\ run[g].state # "none"
    /\ IF g = generation THEN error' = TRUE /\ loading' = FALSE /\ UNCHANGED data
       ELSE UNCHANGED <<data, error, loading>>
    /\ Finished(g)
    /\ UNCHANGED <<now, question, generation, action>>

----------------------------------------------------------------------------
(* useAction                                                               *)

\* The button's rendered state alone decides.
ClickUnlatched ==
    /\ ~pending
    /\ inFlight' = TRUE /\ actions' = actions + 1
    /\ UNCHANGED <<now, query, pending>>

\* A click on the button as it was last drawn.
Click ==
    /\ ~pending /\ ~inFlight
    /\ inFlight' = TRUE /\ actions' = actions + 1
    /\ UNCHANGED <<now, query, pending>>

Render ==
    /\ pending # inFlight
    /\ pending' = inFlight
    /\ UNCHANGED <<now, query, inFlight, actions>>

\* Resolved or rejected: the finally clears the latch.
Settle ==
    /\ actions > 0
    /\ actions' = actions - 1 /\ inFlight' = FALSE
    /\ UNCHANGED <<now, query, pending>>

----------------------------------------------------------------------------

Answer(g) == Serve(g) \/ Resolve(g) \/ Reject(g)

Next ==
    \/ Change
    \/ \E q \in Questions : ChangeQuestion(q)
    \/ Refresh
    \/ \E g \in Generations : Answer(g)
    \/ Click \/ Render \/ Settle

\* Every request is answered or fails, if only by its connection.
Fairness == \A g \in Generations : WF_vars(Answer(g))

Spec == Init /\ [][Next]_vars /\ Fairness

----------------------------------------------------------------------------
(* Properties                                                              *)

\* What is on screen answers the question asked now, unless the screen says that
\* it is loading or that it failed, in whatever order the answers come back.
AnswersItsQuestion ==
    (~loading /\ ~error) => data.of = {question}

\* A slow request never overwrites fresher data (useQuery's generation).
NeverGoesBack ==
    [][data.of = data'.of => data'.version >= data.version]_vars

\* The spinner goes out, although the run that lit it may have been superseded by
\* a refresh that had not.
LoadingEnds == loading ~> ~loading

\* An impatient double click does not run an action twice at once.
OneActionAtATime == actions <= 1
=============================================================================
