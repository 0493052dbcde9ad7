------------------------------- MODULE MCAround -------------------------------
(***************************************************************************)
(* What surrounds the marketplace, for TLC.  A behaviour is about one of   *)
(* six things that share no state.  On the server: the processes of a      *)
(* deployment start, or one API process handles sign-ins.  At its clients: *)
(* the files of the command line client, one call of the SDK over a network*)
(* that loses requests and answers, a list of the dashboard, or a drawer of*)
(* it.                                                                     *)
(***************************************************************************)
EXTENDS Integers, FiniteSets

CONSTANTS
    Apis, WorkerProcesses, RuleSet, MaxCycle, MaxWrites, MaxUpdates, MaxStops,
    Addresses, Requests, Ttl, SweepInterval, MaxEntries, MaxChallenges, MaxTime,
    Shells, Values, MaxCommands, MaxKeys, MaxFailures,
    MaxRetries,
    Queries, Pages, Ids, MaxChanges, MaxRefreshes, MaxOpens, MaxErrors

\* 0 stands for no rules, nobody, no value, no query and no id.
ASSUME StartAssumption ==
  0 \notin RuleSet /\ MaxCycle \in Nat \ {0} /\ MaxWrites \in Nat

ASSUME SignInAssumption ==
  /\ 0 \notin Addresses /\ IsFiniteSet(Addresses) /\ IsFiniteSet(Requests)
  /\ Ttl \in Nat /\ SweepInterval \in Nat /\ MaxEntries \in Nat
  /\ MaxChallenges \in Nat /\ MaxTime \in Nat

ASSUME FilesAssumption == 0 \notin Values /\ MaxKeys \in Nat

ASSUME CallAssumption == MaxRetries \in Nat

ASSUME DashboardAssumption == 0 \notin Queries /\ Pages \in Nat \ {0} /\ 0 \notin Ids

VARIABLES
    area,
    pc, guard, current, engine, index, runtime, cycles, rules, writes, updates, stops,
    now, challenges, nextSweepAt, given, verifying, tokens, overtaken, refused,
    config, keyFile, shell, wanted, disturbed, registered, commands, keys, failures,
    retries, operation, attempt, at, result, requests, answers, applied, unanswered,
    query, streamsLoaded, list, loading, load, cancelled, loadingMore, more, refreshing, refresh,
    loadError, crossed, open, drawer, fetching, dropped, changes, refreshes, opens, errors

Starting == INSTANCE Startup
SigningIn == INSTANCE SignIn
Files == INSTANCE CliConfig
Calling == INSTANCE SdkCalls
Showing == INSTANCE Dashboard

startVars == <<pc, guard, current, engine, index, runtime, cycles, rules, writes, updates, stops>>
signInVars == <<now, challenges, nextSweepAt, given, verifying, tokens, overtaken, refused>>
serverVars == <<startVars, signInVars>>
cliVars == <<config, keyFile, shell, wanted, disturbed, registered, commands, keys, failures>>
callVars == <<retries, operation, attempt, at, result, requests, answers, applied, unanswered>>
dashVars == <<query, streamsLoaded, list, loading, load, cancelled, loadingMore, more, refreshing, refresh,
              loadError, crossed, open, drawer, fetching, dropped, changes, refreshes, opens, errors>>
clientVars == <<cliVars, callVars, dashVars>>
everything == <<area, serverVars, clientVars>>

\* What an area is about varies, the others stay at one of their initial states.
AroundInit ==
  /\ area \in {"start", "signIn", "files", "call", "list", "drawer"}
  /\ Starting!Init
  /\ SigningIn!Init
  /\ Files!Init
  /\ Calling!Init
  /\ Showing!Init
  /\ area # "start" => \A p \in Apis \cup WorkerProcesses : current[p] = 1
  /\ area # "call" => retries = 0 /\ operation = "read"
  /\ area # "list" => query = Showing!DefaultQuery /\ ~streamsLoaded

ServerOnly == UNCHANGED <<area, clientVars>>
StartOnly == area = "start" /\ ServerOnly /\ UNCHANGED signInVars
SignInOnly == area = "signIn" /\ ServerOnly /\ UNCHANGED startVars

ClientOnly == UNCHANGED <<area, serverVars>>
FilesOnly == area = "files" /\ ClientOnly /\ UNCHANGED <<callVars, dashVars>>
CallOnly == area = "call" /\ ClientOnly /\ UNCHANGED <<cliVars, dashVars>>
ListOnly == area = "list" /\ ClientOnly /\ UNCHANGED <<cliVars, callVars>>
DrawerOnly == area = "drawer" /\ ClientOnly /\ UNCHANGED <<cliVars, callVars>>

\* It is all one which shell a command is started in and which value comes first: a
\* later shell is used only when the first is busy, and the first value is 1.
InOrder ==
  /\ \A s \in Shells \ {1} :
       shell[s] = Files!Idle /\ shell'[s] # Files!Idle => shell[1] # Files!Idle
  /\ commands = 0 => \A s \in Shells : shell'[s].value \in {0, 1}

AroundNext ==
  \/ StartOnly /\ Starting!Next
  \/ SignInOnly /\ SigningIn!Next
  \/ FilesOnly /\ Files!Next /\ InOrder
  \/ CallOnly /\ Calling!Next
  \/ ListOnly /\ Showing!ListNext
  \/ DrawerOnly /\ Showing!DrawerNext

\* What goes on by itself: the supervisor starts processes that ended and a process
\* that starts goes on; a client that can go on by itself does, its timer included;
\* what the dashboard asked for is answered or fails.
GoesOn(p) ==
  \/ StartOnly /\ Starting!Boot(p)
  \/ CallOnly /\ Calling!Client
  \/ ListOnly /\ Showing!ListAnswers
  \/ DrawerOnly /\ Showing!DrawerAnswers

\* Every process, and outside the area of the processes the one client there is.
AroundSpec ==
  /\ AroundInit /\ [][AroundNext]_everything
  /\ \A p \in Apis \cup WorkerProcesses : WF_everything(GoesOn(p))

-----------------------------------------------------------------------------

\* A process that serves, a worker too, finds the rows and the index that its
\* writes rely on, and all processes work with the rules of the database, whoever
\* wrote them first.
StartsRight == area = "start" => Starting!TypeOK /\ Starting!Ready /\ Starting!OneRuleSet

\* Once the first rows are there and nobody is about to insert them, no start
\* takes back what was written, and only an administrator changes the rules; and
\* when nothing stops them any more, all processes come to run.
StartsEnd ==
  /\ [][Starting!NothingTakenBack /\ Starting!OnlyAdministrators]_startVars
  /\ area = "start" => Starting!AllRun

\* A challenge that has earned a token is found by no later verification, and those that
\* were under way earn one token each; the last one an agent was given is lost
\* unexpired and unused only to the token of an older one of the same agent; and
\* nobody is refused a challenge but for as many others that have not expired.
ChallengesKept ==
  area = "signIn" =>
    /\ SigningIn!TypeOK
    /\ SigningIn!SpentIsGone
    /\ SigningIn!OnePerVerification
    /\ SigningIn!OvertakenByEarlier
    /\ SigningIn!LatestKept
    /\ SigningIn!RefusedWhenFull

\* What commands that did not overlap or fail half-way have set and not removed can
\* be read, there is a key exactly as long as there is a secret, and after a register
\* the wallet and its token can be used.
FilesKept ==
  area = "files" =>
    /\ Files!TypeOK
    /\ Files!SettingsKept
    /\ Files!KeyNeeded
    /\ Files!RegisterUsable

\* At most one attempt of a call is applied that the client knew the end of, and what
\* the caller of the SDK is told is what happened.
CallsTold == area = "call" => Calling!TypeOK /\ Calling!AppliedOnce /\ Calling!ResultTrue

\* A list at rest shows the pages of its query from the first on, and a drawer at
\* rest what the address bar names.
ViewsMatch ==
  area \in {"list", "drawer"} => Showing!TypeOK /\ Showing!ListInOrder /\ Showing!DrawerMatches

\* Every call comes to an end, whatever the network does, and when the user rests
\* nothing keeps spinning.
ClientRests ==
  /\ area = "call" => Calling!CallEnds
  /\ area \in {"list", "drawer"} => Showing!ComesToRest
=============================================================================
