------------------------------ MODULE FileSpec ------------------------------
(***************************************************************************)
(* What the file system promises the programs that use it, without         *)
(* entries, blocks, control blocks and locks.  For each name: whether      *)
(* there is a file, how many units were appended to it, and how many of    *)
(* them a reset leaves for certain.  A program that reads gets the same.   *)
(*                                                                         *)
(* Of a file that is being created ("new") or removed ("going") a reset    *)
(* may leave anything.  Of one in use ("open") it leaves as much as was    *)
(* stored, and that grows only; of one in no call, with nothing in a       *)
(* buffer ("safe"), it leaves everything.  A reset changes nothing here.   *)
(***************************************************************************)
EXTENDS Integers

CONSTANT Name

VARIABLES state,   \* "none", "new", "open", "safe" or "going"
          written, \* units appended
          stored   \* units that a reset leaves

vars == <<state, written, stored>>

Init == /\ state = [n \in Name |-> "none"]
        /\ written = [n \in Name |-> 0]
        /\ stored = [n \in Name |-> 0]

Create(n) == /\ state[n] = "none"
             /\ state' = [state EXCEPT ![n] = "new"]
             /\ UNCHANGED <<written, stored>>

(* A call begins to use the file.                                          *)
Take(n) == /\ state[n] = "safe"
           /\ state' = [state EXCEPT ![n] = "open"]
           /\ UNCHANGED <<written, stored>>

(* One unit is appended, behind all the others.                            *)
Append(n) == /\ state[n] \in {"new", "open", "safe"}
             /\ written' = [written EXCEPT ![n] = @ + 1]
             /\ state' = [state EXCEPT ![n] = IF @ = "safe" THEN "open" ELSE @]
             /\ UNCHANGED stored

(* More of the file is stored, or a call is done with it.                  *)
Store(n) == /\ state[n] \in {"new", "open"}
            /\ \E k \in stored[n]..written[n], s \in {"open", "safe"} :
                 /\ s = "safe" => k = written[n]
                 /\ stored' = [stored EXCEPT ![n] = k]
                 /\ state' = [state EXCEPT ![n] = s]
            /\ UNCHANGED written

(* Only a file that nobody is changing is removed.                         *)
BeginRemove(n) == /\ state[n] = "safe"
                  /\ state' = [state EXCEPT ![n] = "going"]
                  /\ stored' = [stored EXCEPT ![n] = 0]
                  /\ UNCHANGED written

Remove(n) == /\ state[n] = "going"
             /\ state' = [state EXCEPT ![n] = "none"]
             /\ written' = [written EXCEPT ![n] = 0]
             /\ UNCHANGED stored

(* A file in use is renamed, too, in one step.                             *)
Rename(m, n) == /\ state[m] \in {"new", "open", "safe"} /\ state[n] = "none"
                /\ state' = [state EXCEPT ![m] = "none", ![n] = state[m]]
                /\ written' = [written EXCEPT ![m] = 0, ![n] = written[m]]
                /\ stored' = [stored EXCEPT ![m] = 0, ![n] = stored[m]]

Next == \/ \E n \in Name : \/ Create(n) \/ Take(n) \/ Append(n) \/ Store(n)
                           \/ BeginRemove(n) \/ Remove(n)
        \/ \E m, n \in Name : Rename(m, n)

Spec == Init /\ [][Next]_vars
=============================================================================
