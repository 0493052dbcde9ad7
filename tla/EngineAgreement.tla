--------------------------- MODULE EngineAgreement --------------------------
(***************************************************************************)
(* The repository's transactions and the engine's methods are two programs *)
(* for one marketplace.  Here the engine is the specification: whatever a  *)
(* committed transaction did to the tables, the method of the engine does  *)
(* in one step.                                                            *)
(***************************************************************************)
EXTENDS SettlementProperties

\* A reopening counts when it is committed.
CommittedReopens == reopens - (IF tx.kind = "REOPEN" THEN 1 ELSE 0)

Memory == INSTANCE Engine WITH reopens <- CommittedReopens

\* The one known difference: penalties levied by closing itself reach the pool
\* that the engine pays, and miss the one the repository has read.
PenaltyWhileClosing ==
  LET c == db.active
  IN /\ db'.active # c
     /\ db'.cycle[c].penalty # db.cycle[c].penalty
     /\ db' = [Memory!Closed(db).d EXCEPT !.avail = db'.avail,
                                          !.cycle[c].credited = db'.cycle[c].credited]
     /\ UNCHANGED <<expired, stale, reopens>>

\* Both back ends of the API agree: every committed write, closing and override
\* does what the engine's method does, and a failed or interrupted one nothing.
ImplementsEngine ==
  Memory!Init /\ [][Memory!Next \/ PenaltyWhileClosing]_<<db, expired, stale, CommittedReopens>>
=============================================================================
