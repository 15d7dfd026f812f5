------------------------------ MODULE MCTaskRun ------------------------------
(* An instance of TaskRun for TLC: a coder's task, native or plain, that      *)
(* explores with two attempts, and another turn that wants the one permit.    *)
EXTENDS TaskRun

CONSTANTS coder, elsewhere, look, build

MCTask == {coder}
MCAsker == {coder, elsewhere}

MCLoops(t) == {"native", "plain"}

MCBatches == {<<>>, <<look>>, <<build, look>>}

MCMaxInflight == [b \in Backend |-> 1]
=============================================================================
