----------------------------- MODULE AlarmSpec -----------------------------
(***************************************************************************)
(* What the alarms of MansOS promise their clients (include/alarms.h),     *)
(* without the list, the kernel thread and the interrupts.  An alarm that  *)
(* is set fires once, when its time has passed and not before; setting it  *)
(* again replaces the time.                                                *)
(***************************************************************************)
EXTENDS Integers

CONSTANTS Alarm, NoCallback, MaxDelay

VARIABLES armed,   \* the alarms that are set
          wait,    \* the time left to each of them, 0 when none is
          calling  \* the alarm whose callback runs, or NoCallback

vars == <<armed, wait, calling>>

Init == armed = {} /\ wait = [a \in Alarm |-> 0] /\ calling = NoCallback

Set(a) == /\ armed' = armed \cup {a}
          /\ \E d \in 0..MaxDelay : wait' = [wait EXCEPT ![a] = d]
          /\ UNCHANGED calling

Cancel(a) == /\ armed' = armed \ {a}
             /\ wait' = [wait EXCEPT ![a] = 0]
             /\ UNCHANGED calling

Fire(a) == /\ a \in armed /\ wait[a] = 0
           /\ calling = NoCallback
           /\ armed' = armed \ {a}
           /\ calling' = a
           /\ UNCHANGED wait

CallbackEnds == /\ calling' = NoCallback
                /\ UNCHANGED <<armed, wait>>

Jiffy == /\ wait' = [a \in Alarm |-> IF wait[a] = 0 THEN 0 ELSE wait[a] - 1]
         /\ UNCHANGED <<armed, calling>>

Next == Jiffy \/ CallbackEnds \/ \E a \in Alarm : Set(a) \/ Cancel(a) \/ Fire(a)

Spec == Init /\ [][Next]_vars

(* No alarm stays set and due for ever.                                    *)
DueFires == \A a \in Alarm : []<>~(a \in armed /\ wait[a] = 0)
=============================================================================
