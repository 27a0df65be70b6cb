----------------------------- MODULE MCKeptFiles -----------------------------
(***************************************************************************)
(* What several threads and processes keep in files, and find there again: *)
(* the log of one execution while it is written, the folder of logs as the *)
(* history reads it, the secrets of the bundled scripts, and the scripts   *)
(* imported from Gitea. They share nothing; a behaviour takes one part.    *)
(***************************************************************************)
EXTENDS ExecutionLog, ExecutionHistory, SecretsStore, GiteaImport

CONSTANTS ann, bob, m1, m2, p1, p2, i1, i2, repo1, repo2

VARIABLE part

keptVars == <<part, vars, historyVars, secretsVars, importVars>>

Asks == [p \in Scripts |-> IF p = p1 THEN "token" ELSE "url"]

KeptInit ==
    /\ part \in {"log", "history", "secrets", "import"}
    /\ Init /\ HistoryInit /\ SecretsInit /\ ImportInit
    /\ part # "history" => pattern = {}
    /\ part # "import" => \A s \in Sources : upstream[s] = {}

InLog(step) == part = "log" /\ step /\ UNCHANGED <<part, historyVars, secretsVars, importVars>>

InHistory == part = "history" /\ HistoryNext /\ UNCHANGED <<part, vars, secretsVars, importVars>>

InSecrets(step) == part = "secrets" /\ step /\ UNCHANGED <<part, vars, historyVars, importVars>>

InImport == part = "import" /\ ImportNext /\ UNCHANGED <<part, vars, historyVars, secretsVars>>

(* The threads that write a log run, and so do the scripts that ask for a  *)
(* secret, again and again.                                                *)
KeptSpec ==
    /\ KeptInit
    /\ [][InLog(Next) \/ InHistory \/ InSecrets(SecretsNext) \/ InImport]_keptVars
    /\ WF_keptVars(InLog(MainStep)) /\ WF_keptVars(InLog(Notify))
    /\ \A t \in Thread : WF_keptVars(InLog(Step(t)))
    /\ \A p \in Scripts : WF_keptVars(InSecrets(ScriptRun(p)))

\* A secret a script asks for comes to be listed: its placeholder gets into the
\* store, whatever the other scripts of the machine save in the meantime.
SecretsListed == part = "secrets" => AskedIsListed

\* What was entered once stays: the description of a secret through updates, and
\* the placeholder of a secret that is asked for.
SecretsKept == NoteSurvives /\ SecretsListed
==============================================================================
