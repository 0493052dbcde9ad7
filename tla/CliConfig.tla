------------------------------ MODULE CliConfig ------------------------------
(***************************************************************************)
(* The two files of the command line client, apps/cli/src/cli-config.ts:   *)
(* the configuration, whose secrets are encrypted, and the key they are    *)
(* encrypted with.  The commands that change them                          *)
(* (commands/auth.ts, commands/config.ts) run as processes of their own,   *)
(* without a lock, and every write of a file is two steps: it is emptied,  *)
(* then filled.  adminKey is handled like token, and baseUrl, timeoutMs    *)
(* and retries are like walletAddress.  A wallet is a number, which is     *)
(* both its address and its private key.                                   *)
(***************************************************************************)
EXTENDS Integers, Sequences

CONSTANTS
    Shells,         \* processes that can run at once
    Values,         \* wallets and tokens
    MaxCommands, MaxKeys, MaxFailures

VARIABLES
    config,         \* the configuration file: its kind and its values
    keyFile,        \* what wallet.key holds
    shell,          \* the command of each process
    wanted,         \* what the commands that ended have set, unless disturbed
    disturbed,      \* commands overlapped or failed half-way since the last clear
    registered,     \* the last command was a register that nothing disturbed
    commands, keys, failures

cliVars == <<config, keyFile, shell, wanted, disturbed, registered, commands, keys, failures>>

Secrets == {"token", "walletPrivateKey"}

Fields == Secrets \cup {"walletAddress"}

NoKey == 0

Short == -1     \* a key file that is not 32 bytes long

Unset == [value |-> 0, key |-> NoKey]

Nothing == [f \in Fields |-> Unset]

\* A process without a command
Idle ==
  [command |-> "none", todo |-> <<>>, at |-> "idle", value |-> 0, read |-> Nothing, key |-> NoKey,
   alone |-> FALSE]

NothingWanted == [f \in Fields |-> 0]

Init ==
  /\ config = [kind |-> "absent", values |-> Nothing]
  /\ keyFile = NoKey
  /\ shell = [s \in Shells |-> Idle]
  /\ wanted = NothingWanted
  /\ disturbed = FALSE /\ registered = FALSE
  /\ commands = 0 /\ keys = 0 /\ failures = 0

-----------------------------------------------------------------------------

AllIdle == \A s \in Shells : shell[s] = Idle

\* loadCliPersistedConfig, of a file that can be parsed: an empty one is no error.
Loaded == IF config.kind = "whole" THEN config.values ELSE Nothing

\* Fault: only the private key counts as a secret.
HasEncryptedWallet(values) == values["walletPrivateKey"] # Unset

HasEncryptedSecrets(values) == \E f \in Secrets : values[f] # Unset

\* resolveStoredCliSecret: the value that a stored one decrypts to
Readable(values, f) ==
  /\ values[f] # Unset
  /\ f \in Secrets => values[f].key = keyFile

Decrypts(values, f, v) == Readable(values, f) /\ values[f].value = v

-----------------------------------------------------------------------------

\* What each command does to the files, one field after the other
Effects ==
  [register |-> <<"walletAddress", "walletPrivateKey", "token">>,
   login |-> <<"token">>,
   setToken |-> <<"token">>, setAddress |-> <<"walletAddress">>, setKey |-> <<"walletPrivateKey">>,
   unsetToken |-> <<"token">>, unsetAddress |-> <<"walletAddress">>, unsetKey |-> <<"walletPrivateKey">>,
   clear |-> <<"all">>]

Removes(command) == command \in {"unsetToken", "unsetAddress", "unsetKey", "clear"}

\* A login signs with the stored private key, whose address has to be the stored
\* one if there is one.
CanLogin(values) ==
  /\ Readable(values, "walletPrivateKey")
  /\ values["walletAddress"] # Unset =>
       values["walletAddress"].value = values["walletPrivateKey"].value

\* A command starts, and has the server's answer if it needs one.
Begin(s) ==
  /\ shell[s] = Idle /\ commands < MaxCommands
  /\ config.kind # "torn"
  /\ \E command \in DOMAIN Effects, v \in Values :
        /\ command = "login" => CanLogin(Loaded) /\ v = Loaded["walletPrivateKey"].value
        /\ shell' = [t \in Shells |->
             IF t = s
               THEN [Idle EXCEPT !.command = command, !.todo = Effects[command], !.at = "load",
                                 !.value = IF Removes(command) THEN 0 ELSE v, !.alone = AllIdle]
               ELSE [shell[t] EXCEPT !.alone = FALSE]]
        /\ Removes(command) => v = CHOOSE w \in Values : TRUE
  /\ disturbed' = (disturbed \/ ~AllIdle)
  /\ wanted' = IF disturbed' THEN NothingWanted ELSE wanted
  /\ registered' = FALSE
  /\ commands' = commands + 1
  /\ UNCHANGED <<config, keyFile, keys, failures>>

Goto(s, label) == shell' = [shell EXCEPT ![s].at = label]

\* An error ends the process, what was written stays.
Throw(s) ==
  /\ shell' = [shell EXCEPT ![s] = Idle]
  /\ disturbed' = TRUE /\ wanted' = NothingWanted
  /\ UNCHANGED <<config, keyFile, registered, commands, keys>>

Quiet == UNCHANGED <<wanted, disturbed, registered, commands, failures>>

Field(s) == Head(shell[s].todo)

\* Every setCliPersistedConfigValue loads the file again.
Load(s) ==
  /\ shell[s].at = "load"
  /\ \/ config.kind = "torn" /\ Throw(s) /\ UNCHANGED failures
     \/ /\ config.kind # "torn"
        /\ shell' = [shell EXCEPT ![s].read = IF shell[s].command = "clear" THEN Nothing ELSE Loaded,
             ![s].at = CASE Removes(shell[s].command) -> "removeKey"
                         [] ~Removes(shell[s].command) /\ Field(s) \in Secrets -> "findKey"
                         [] OTHER -> "truncate"]
        /\ Quiet /\ UNCHANGED <<config, keyFile, keys>>

\* readPersistedSecretKey: the key that is there, or a new one.
FindKey(s) ==
  /\ shell[s].at = "findKey"
  /\ \/ keyFile = Short /\ Throw(s) /\ UNCHANGED failures
     \/ /\ keyFile = NoKey /\ keys < MaxKeys
        /\ keys' = keys + 1
        /\ shell' = [shell EXCEPT ![s].key = keys', ![s].at = "createKey"]
        /\ Quiet /\ UNCHANGED <<config, keyFile>>
     \/ /\ keyFile \notin {Short, NoKey}
        /\ shell' = [shell EXCEPT ![s].key = keyFile, ![s].at = "truncate"]
        /\ Quiet /\ UNCHANGED <<config, keyFile, keys>>

CreateKey(s) ==
  /\ shell[s].at = "createKey"
  /\ keyFile' = Short
  /\ Goto(s, "fillKey")
  /\ Quiet /\ UNCHANGED <<config, keys>>

FillKey(s) ==
  /\ shell[s].at = "fillKey"
  /\ keyFile' = shell[s].key
  /\ Goto(s, "truncate")
  /\ Quiet /\ UNCHANGED <<config, keys>>

\* The values that a process is about to write
NewValues(s) ==
  LET c == shell[s]
      stored == IF Removes(c.command) THEN Unset
                ELSE [value |-> c.value, key |-> IF Field(s) \in Secrets THEN c.key ELSE NoKey]
  IN  IF c.command = "clear" THEN Nothing ELSE [c.read EXCEPT ![Field(s)] = stored]

\* The key goes before the configuration is rewritten, with the last secret.
RemoveKey(s) ==
  /\ shell[s].at = "removeKey"
  /\ keyFile' = IF shell[s].command # "clear" /\ HasEncryptedSecrets(NewValues(s)) THEN keyFile ELSE NoKey
  /\ Goto(s, "truncate")
  /\ Quiet /\ UNCHANGED <<config, keys>>

\* One field is done: the next, or the command ends.
Done(s) ==
  LET c == shell[s]
      last == Len(c.todo) = 1
      written == IF c.command = "clear" THEN Fields ELSE {Field(s)}
  IN  /\ shell' = [shell EXCEPT ![s] = IF last THEN Idle
                      ELSE [@ EXCEPT !.todo = Tail(c.todo), !.at = "load", !.read = Nothing, !.key = NoKey]]
      /\ disturbed' = (disturbed /\ ~(c.command = "clear" /\ c.alone))
      /\ wanted' = IF disturbed' THEN NothingWanted
                   ELSE [f \in Fields |-> IF f \in written THEN c.value ELSE wanted[f]]
      /\ registered' = (last /\ c.command = "register" /\ c.alone)
      /\ UNCHANGED <<keyFile, commands, keys, failures>>

\* writeCliPersistedConfig: a configuration without values is no file,
Truncate(s) ==
  /\ shell[s].at = "truncate"
  /\ IF NewValues(s) = Nothing
       THEN config' = [kind |-> "absent", values |-> Nothing] /\ Done(s)
       ELSE /\ config' = [kind |-> "empty", values |-> Nothing]
            /\ Goto(s, "fill")
            /\ Quiet /\ UNCHANGED <<keyFile, keys>>

\* any other is written into the emptied file.
Fill(s) ==
  /\ shell[s].at = "fill"
  /\ config' = [kind |-> "whole", values |-> NewValues(s)]
  /\ Done(s)

\* The process is killed, or the disk is full: a part of the file may be written.
Fails(s) ==
  /\ shell[s] # Idle /\ failures < MaxFailures
  /\ failures' = failures + 1
  /\ shell' = [shell EXCEPT ![s] = Idle]
  /\ disturbed' = TRUE /\ wanted' = NothingWanted
  /\ \/ UNCHANGED config
     \/ shell[s].at = "fill" /\ config' = [kind |-> "torn", values |-> Nothing]
  /\ UNCHANGED <<keyFile, registered, commands, keys>>

Next ==
  \E s \in Shells :
    \/ Begin(s)
    \/ Load(s)
    \/ FindKey(s) \/ CreateKey(s) \/ FillKey(s) \/ RemoveKey(s)
    \/ Truncate(s) \/ Fill(s)
    \/ Fails(s)

-----------------------------------------------------------------------------

\* Every variable has its type.
TypeOK ==
  LET Stored == [value : Values \cup {0}, key : 0..MaxKeys]
  IN  /\ config \in [kind : {"absent", "empty", "whole", "torn"}, values : [Fields -> Stored]]
      /\ keyFile \in {Short} \cup 0..MaxKeys
      /\ \A s \in Shells : shell[s].read \in [Fields -> Stored] /\ shell[s].key \in 0..MaxKeys
      /\ wanted \in [Fields -> Values \cup {0}]

\* Unless commands overlapped or failed half-way, everything that was set and not
\* removed can be read, whatever else was set and removed since; a clear that
\* nothing disturbs makes an end of the trouble.
SettingsKept ==
  AllIdle /\ ~disturbed =>
    \A f \in Fields :
      IF wanted[f] = 0 THEN config.values[f] = Unset ELSE Decrypts(config.values, f, wanted[f])

\* Then there is a key exactly as long as there is a secret.
KeyNeeded == AllIdle /\ ~disturbed => (keyFile # NoKey <=> HasEncryptedSecrets(config.values))

\* After a register that nothing disturbed the wallet and its token can be used,
\* whatever happened to the files before.
RegisterUsable ==
  registered =>
    \E v \in Values :
      /\ \A f \in Fields : Decrypts(config.values, f, v)
      /\ CanLogin(config.values)
=============================================================================
