----------------------------- MODULE MCSettlement ---------------------------
(***************************************************************************)
(* Two small marketplaces for TLC, with the same rules.  In the first      *)
(* cycles are closed while submissions and a deadline time out, votes are  *)
(* cast and a transaction is interrupted.  In the second nothing is closed:*)
(* somebody who works and publishes spends what a dispute has paid before  *)
(* it is reopened.                                                         *)
(***************************************************************************)
EXTENDS SettlementProperties

VARIABLE area

\* One publisher offers one task at the one reward; no dispute is reopened.
InClosing ==
  /\ area = "closing"
  /\ reopens' = 0
  /\ \A t \in Existing(db'.task) : t = 1 /\ db'.task[t].reward = 2 /\ db'.task[t].publisher = 1

\* Tasks have one slot and may be repeated; nothing times out, is voted on or fails.
InDebt ==
  /\ area = "debt"
  /\ db'.active = db.active /\ tx'.kind # "CLOSE"
  /\ expired' = {} /\ stale' = 0 /\ crashes' = 0
  /\ \A t \in Existing(db'.task) : db'.task[t].slots = 1
  /\ \A x \in Disps : db'.disp[x].votes = {}

MarketInit == Init /\ area \in {"closing", "debt"}

MarketNext == Next /\ (InClosing \/ InDebt) /\ UNCHANGED area

Closing == InClosing /\ UNCHANGED area
everything == <<vars, area>>

\* As in FairSpec.
MarketSpec ==
  /\ MarketInit /\ [][MarketNext]_everything
  /\ WF_everything(BeginClose /\ Closing)
  /\ WF_everything(TxStep /\ Closing)
  /\ WF_everything(Commit /\ Closing)
  /\ WF_everything(Abort /\ Closing)

-----------------------------------------------------------------------------
\* Where cycles are closed, every cycle that has a successor is.
EveryCycleCloses ==
  \A c \in Cycles : c + 1 \in Cycles =>
    (area = "closing" /\ db.active = c ~> db.active > c)
=============================================================================
