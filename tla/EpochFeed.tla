----------------------------- MODULE EpochFeed ------------------------------
(***************************************************************************)
(* What the forwarder watch channel of a supervised datapath promises its  *)
(* readers: it offers at most one epoch at a time, epochs are numbered     *)
(* from 1 in the order they are offered, and an epoch that was withdrawn   *)
(* is never offered again.  The supervisor implements it (Supervisor);     *)
(* every supervised port forward is driven by it (PortForward).            *)
(***************************************************************************)
EXTENDS Naturals

VARIABLES
  offer,   \* the epoch whose forwarder the channel holds, 0 for None
  epoch,   \* the last epoch that was offered
  closed   \* the supervisor is gone: the sender is dropped

feedVars == <<offer, epoch, closed>>

FeedInit == offer = 0 /\ epoch = 0 /\ closed = FALSE

\* forwarder_tx.send(Some(..)) for a fresh epoch.
Publish ==
  /\ ~closed /\ offer = 0
  /\ epoch' = epoch + 1
  /\ offer' = epoch + 1
  /\ UNCHANGED closed

\* forwarder_tx.send(None) as the epoch ends.
Withdraw ==
  /\ ~closed /\ offer # 0
  /\ offer' = 0
  /\ UNCHANGED <<epoch, closed>>

\* The sender is dropped: after a fatal verdict, or as the task is aborted,
\* possibly in the middle of an epoch.  The last value stays readable.
Close ==
  /\ ~closed
  /\ closed' = TRUE
  /\ UNCHANGED <<offer, epoch>>

FeedNext == Publish \/ Withdraw \/ Close

FeedSpec == FeedInit /\ [][FeedNext]_feedVars
=============================================================================
