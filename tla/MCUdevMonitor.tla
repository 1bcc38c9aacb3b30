--------------------------- MODULE MCUdevMonitor ---------------------------
(***************************************************************************)
(* Instances of UdevMonitor for TLC.                                       *)
(***************************************************************************)
EXTENDS UdevMonitor, TLC

CONSTANTS r1, r2, hidraw, mouse, lost

TwoReaders == {r1, r2}
OneReader == {r1}

(* Two kinds the providers know, one message no provider understands.      *)
MCKinds == {hidraw, mouse, lost}
MCTwoKinds == {hidraw, lost}
MCDeliverable == {hidraw, mouse}
MCOneDeliverable == {hidraw}

(* Descriptors of an application whose standard streams are open, and one  *)
(* of an application that has closed its standard input.                   *)
OrdinaryFds == {3}
StdinClosed == {0}
=============================================================================
