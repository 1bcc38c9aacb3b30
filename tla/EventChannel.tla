---------------------------- MODULE EventChannel ----------------------------
(***************************************************************************)
(* What a udev monitor promises to the application that holds it, without  *)
(* the thread, the pipe, the mutex or devd.                                *)
(*                                                                         *)
(* The producer publishes device events one at a time and announces each   *)
(* of them before it publishes the next.  An announcement is what makes    *)
(* the monitor's file descriptor readable.  A receiver takes announced     *)
(* events only, each once, in the order of publication.  When the channel  *)
(* is closed what was not taken is dropped and nothing is taken any more.  *)
(***************************************************************************)
EXTENDS Integers, Sequences

CONSTANT Event      \* the device events a producer may publish

VARIABLES
    log,        \* the events published so far, oldest first
    announced,  \* how many of them have been announced
    taken,      \* how many of them have been taken
    closed      \* the receivers' side is gone

vars == <<log, announced, taken, closed>>

TypeOK ==
    /\ log \in Seq(Event)
    /\ announced \in 0..Len(log)
    /\ taken \in 0..announced
    /\ closed \in BOOLEAN

Init ==
    /\ log = <<>>
    /\ announced = 0
    /\ taken = 0
    /\ closed = FALSE

Publish(e) ==
    /\ ~closed
    /\ announced = Len(log)
    /\ log' = Append(log, e)
    /\ UNCHANGED <<announced, taken, closed>>

Announce ==
    /\ ~closed
    /\ announced < Len(log)
    /\ announced' = announced + 1
    /\ UNCHANGED <<log, taken, closed>>

Take ==
    /\ ~closed
    /\ taken < announced
    /\ taken' = taken + 1
    /\ UNCHANGED <<log, announced, closed>>

Close ==
    /\ ~closed
    /\ closed' = TRUE
    /\ log' = SubSeq(log, 1, taken)
    /\ announced' = taken
    /\ UNCHANGED taken

Next ==
    \/ \E e \in Event : Publish(e)
    \/ Announce
    \/ Take
    \/ Close

Spec == Init /\ [][Next]_vars
=============================================================================
