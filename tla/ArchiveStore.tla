---------------------------- MODULE ArchiveStore ----------------------------
(***************************************************************************)
(* What writing through openzl:// promises: a store of files that changes  *)
(* in whole steps.  A handle that is closed puts exactly the bytes written *)
(* to it at its path and reports success, or changes nothing and reports   *)
(* an error; a crash forgets the handles and leaves the files alone.       *)
(***************************************************************************)
CONSTANTS
    Handles,
    Paths,
    Datas,    \* what a file may hold
    Nothing   \* no file, or no call in progress

VARIABLES
    stored,   \* what a reader of each path gets
    asked,    \* the (path, data) that a Close in progress has to store
    result    \* of a handle's last Close: "none", "ok" or "error"

vars == << stored, asked, result >>

Init ==
    /\ stored \in [Paths -> Datas \cup {Nothing}]
    /\ asked = [h \in Handles |-> Nothing]
    /\ result = [h \in Handles |-> "none"]

Ask(h) ==
    /\ asked[h] = Nothing /\ result[h] = "none"
    /\ \E p \in Paths, d \in Datas :
          asked' = [asked EXCEPT ![h] = << p, d >>]
    /\ UNCHANGED << stored, result >>

Put(h) ==
    /\ asked[h] # Nothing
    /\ stored' = [stored EXCEPT ![asked[h][1]] = asked[h][2]]
    /\ asked' = [asked EXCEPT ![h] = Nothing]
    /\ result' = [result EXCEPT ![h] = "ok"]

Fail(h) ==
    /\ asked[h] # Nothing
    /\ asked' = [asked EXCEPT ![h] = Nothing]
    /\ result' = [result EXCEPT ![h] = "error"]
    /\ UNCHANGED stored

Drop(h) ==
    /\ asked[h] = Nothing
    /\ result' = [result EXCEPT ![h] = "none"]
    /\ UNCHANGED << stored, asked >>

Remove(p) ==
    /\ stored' = [stored EXCEPT ![p] = Nothing]
    /\ UNCHANGED << asked, result >>

Move(p, q) ==
    /\ stored[p] # Nothing
    /\ stored' = [stored EXCEPT ![q] = stored[p], ![p] = Nothing]
    /\ UNCHANGED << asked, result >>

Crash ==
    /\ asked' = [h \in Handles |-> Nothing]
    /\ result' = [h \in Handles |-> "none"]
    /\ UNCHANGED stored

Next ==
    \/ \E h \in Handles : Ask(h) \/ Put(h) \/ Fail(h) \/ Drop(h)
    \/ \E p \in Paths : Remove(p)
    \/ \E p, q \in Paths : p # q /\ Move(p, q)
    \/ Crash

Spec == Init /\ [][Next]_vars
=============================================================================
