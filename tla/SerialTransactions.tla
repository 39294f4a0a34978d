------------------------- MODULE SerialTransactions -------------------------
(***************************************************************************)
(* What the gate of a connection promises: transactions have the           *)
(* connection one at a time, in the order in which they asked for it, and  *)
(* whoever asks may give up while it waits.  Who has it may keep it, but   *)
(* while nobody does and somebody waits, it is given to the next.          *)
(***************************************************************************)
EXTENDS Sequences, SequencesExt

CONSTANTS Transactions, Nobody

VARIABLES line, owner   \* those who wait, in their order, and who has the connection

serialVars == <<line, owner>>

SerialInit == line = <<>> /\ owner = Nobody

Ask(t) == t \notin ToSet(line) \union {owner} /\ line' = Append(line, t) /\ UNCHANGED owner
GiveUp(t) == t \in ToSet(line) /\ line' = SelectSeq(line, LAMBDA u : u # t) /\ UNCHANGED owner
Take == owner = Nobody /\ line # <<>> /\ owner' = Head(line) /\ line' = Tail(line)
Leave == owner # Nobody /\ owner' = Nobody /\ UNCHANGED line

SerialNext == Take \/ Leave \/ \E t \in Transactions : Ask(t) \/ GiveUp(t)

Serial == SerialInit /\ [][SerialNext]_serialVars /\ WF_serialVars(Take)
=============================================================================
