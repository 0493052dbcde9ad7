------------------------------- MODULE MCEngine -------------------------------
(***************************************************************************)
(* The engine and its snapshots, for TLC, which share no state here.  A    *)
(* behaviour is about the engine's methods on several tasks, about the     *)
(* disputes of one task, about one call of mutate at a time and all        *)
(* tables, or about two calls at once that pay and intend for the only     *)
(* agent.                                                                  *)
(***************************************************************************)
EXTENDS EngineProperties

CONSTANTS Members, Calls, MaxCommits, MaxBalance

\* Whoever has registered at first is a member, with a balance.
ASSUME MembersAssumption ==
  /\ 1 \in Members /\ IsFiniteSet(Members)
  /\ MaxCommits \in Nat /\ MaxBalance \in Nat \ {0}

VARIABLES about, stored, process, call, direct, instant, overwritten

snapshotVars == <<stored, process, call, direct, instant, overwritten>>

Synchronised == INSTANCE Snapshots

EngineInit ==
  /\ about \in {"methods", "rounds", "tables", "calls"}
  /\ Init
  /\ Synchronised!Init

\* All tasks and one dispute, voted for as completed and reopened once.
OneDispute ==
  /\ \A x \in Disps : x # 1 => db'.disp[x].status = "NONE"
  /\ \A x \in Disps : \A v \in db'.disp[x].votes : v.vote = "COMPLETED"
  /\ reopens' <= 1

\* All disputes about one task, before anything expires.
OneTask ==
  /\ \A t \in Tasks : t # 1 => db'.task[t].status = "NONE"
  /\ UNCHANGED <<expired, stale>>

OneCall == \A c \in Calls : c # 1 => call'[c].at = "idle"

PaysAndIntends ==
  /\ DOMAIN stored'.profile = {1} /\ stored'.dispute.status = "none"
  /\ \A c \in Calls : call'[c].at = "submit" =>
       \A o \in call'[c].ops : o.kind \in {"pay", "intend"}

EngineNext ==
  /\ \/ about = "methods" /\ Next /\ OneDispute /\ UNCHANGED snapshotVars
     \/ about = "rounds" /\ Next /\ OneTask /\ UNCHANGED snapshotVars
     \/ about = "tables" /\ Synchronised!Next /\ OneCall /\ UNCHANGED engineVars
     \/ /\ about = "calls"
        /\ ~overwritten
        /\ \/ stored.commits + 1 < MaxCommits /\ Synchronised!Committing
           \/ Synchronised!Underway
        /\ PaysAndIntends /\ UNCHANGED engineVars
  /\ UNCHANGED about

EngineSpec == EngineInit /\ [][EngineNext]_<<about, engineVars, snapshotVars>>

-----------------------------------------------------------------------------

\* What is derived from rows agrees with them as long as no update has been
\* overwritten, and an engine loaded or synchronised at the present state of the
\* database is that state.
SnapshotsTrue == Synchronised!TypeOK /\ Synchronised!DerivedAgree /\ Synchronised!EngineCurrent

\* As long as nothing has been overwritten, every commit is one operation on the
\* database as it was; and the revision check lets an update be overwritten only
\* where it cannot see the other one.
CommitsSerial ==
  [][Synchronised!SerialCommit /\ Synchronised!OvertakenOnlyUnseen]_snapshotVars
=============================================================================
