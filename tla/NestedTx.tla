------------------------------- MODULE NestedTx -------------------------------
(* What one connection of std.data promises its user: writes, and transactions *)
(* that nest.  A begin inside a transaction opens an inner one, a commit of an  *)
(* inner one keeps its writes for the outer one to decide about, a rollback     *)
(* takes back exactly what was written since the matching begin, and only the   *)
(* commit of the outermost one makes writes durable.  The engine underneath may *)
(* take a transaction back by itself; until its user has ended it, only what    *)
(* was durable is sure.                                                         *)
EXTENDS Sequences, SequencesExt

CONSTANT Writes      \* what can be written, each once

VARIABLES
  durable,           \* the writes another connection can see
  visible,           \* the writes this connection sees
  open,              \* what was visible at each begin still open, outermost first
  broken             \* the engine took a transaction back that its user has open

txVars == <<durable, visible, open, broken>>

TxTypeOK ==
  /\ durable \in SUBSET Writes
  /\ visible \in SUBSET Writes
  /\ open \in Seq(SUBSET Writes)
  /\ broken \in BOOLEAN

TxInit == durable = {} /\ visible = {} /\ open = <<>> /\ broken = FALSE

TxWrite(w) ==
  /\ w \notin visible
  /\ visible' = visible \union {w}
  /\ durable' = IF open = <<>> THEN visible' ELSE durable
  /\ open' = open

TxBegin ==
  /\ UNCHANGED <<durable, visible>>
  /\ open' = Append(open, visible)

TxCommit ==
  /\ open # <<>>
  /\ open' = Front(open)
  /\ durable' = IF open' = <<>> THEN visible ELSE durable
  /\ visible' = visible

TxRollback ==
  /\ open # <<>>
  /\ open' = Front(open)
  /\ visible' = Last(open)
  /\ durable' = durable

\* The connection goes away, with whatever was not durable.
TxLost ==
  /\ visible' = durable
  /\ durable' = durable
  /\ open' = <<>>

\* What a transaction does while the engine lets it.
TxSound ==
  \/ \E w \in Writes : TxWrite(w)
  \/ TxBegin
  \/ TxCommit
  \/ TxRollback
  \/ TxLost

\* The engine takes the whole transaction back.
TxBreaks ==
  /\ open # <<>> /\ open' = <<>>
  /\ visible' = durable /\ durable' = durable
  /\ broken' = TRUE

\* Its user goes on, in transactions that are not the ones it means.
TxBroken ==
  /\ broken' = TRUE /\ open' = <<>>
  /\ durable \subseteq durable' /\ durable' \subseteq visible'

\* The user has ended the transaction, and starts afresh.
TxMends ==
  /\ broken' = FALSE /\ open' = <<>>
  /\ durable' = durable /\ visible' = durable

TxNext ==
  \/ ~broken /\ TxSound /\ broken' = broken
  \/ ~broken /\ TxBreaks
  \/ broken /\ (TxBroken \/ TxMends)

TxSpec == TxInit /\ [][TxNext]_txVars
===============================================================================
