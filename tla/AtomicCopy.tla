----------------------------- MODULE AtomicCopy -----------------------------
(***************************************************************************)
(* What COPY ... TO ... (FORMAT OPENZL) promises: the archive a reader     *)
(* finds at the target is the one that was there before or the whole       *)
(* table, the table in order, and a COPY that succeeds has put it there.   *)
(***************************************************************************)
EXTENDS Integers, Sequences

CONSTANTS
    Copies,     \* COPY statements, each with a target of its own
    RowCounts,  \* how many rows a table may have
    Nothing,    \* a read of the target fails
    Before      \* the archive that was at the target

VARIABLES
    rows,     \* the number of rows each COPY writes
    table,    \* what a reader of each target gets
    status    \* of each COPY: "running", "ok" or "error"

vars == << rows, table, status >>

Table(c) == [i \in 1 .. rows[c] |-> i]

Init ==
    /\ rows \in [Copies -> RowCounts]
    /\ table \in [Copies -> {Nothing, Before}]
    /\ status = [c \in Copies |-> "running"]

Publish(c) ==
    /\ status[c] = "running"
    /\ table[c] \in {Nothing, Before}
    /\ table' = [table EXCEPT ![c] = Table(c)]
    /\ UNCHANGED << rows, status >>

Succeed(c) ==
    /\ status[c] = "running"
    /\ table[c] = Table(c)
    /\ status' = [status EXCEPT ![c] = "ok"]
    /\ UNCHANGED << rows, table >>

Fail(c) ==
    /\ status[c] = "running"
    /\ table[c] \in {Nothing, Before}
    /\ status' = [status EXCEPT ![c] = "error"]
    /\ UNCHANGED << rows, table >>

Next == \E c \in Copies : Publish(c) \/ Succeed(c) \/ Fail(c)

Spec == Init /\ [][Next]_vars
=============================================================================
