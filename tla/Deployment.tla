----------------------------- MODULE Deployment -----------------------------
(***************************************************************************)
(* The deployment script (blockchain/scripts/deploy.ts), run again and     *)
(* again, one run at a time, with a crash possible between any two steps,  *)
(* beside the contract it publishes (module Registry) and the accounts     *)
(* that use it.  A key stands for the account it opens.  The Aptos SDK,    *)
(* the faucet and the developer's own transfers are external.              *)
(***************************************************************************)
EXTENDS Registry

CONSTANTS
    Others,               \* the accounts of other people
    FaucetDefined         \* whether FaucetClient, which deploy.ts uses and does
                          \* not import, resolves: {FALSE} as shipped

VARIABLES
    key,        \* the file .aptos/dev.key: <<>>, <<"empty">> or <<account>>
    pc,         \* where the run is; "idle" between runs
    account,    \* the account of the run under way, <<>> before it has one
    rich,       \* the accounts with a balance of at least 5000
    touched     \* every account the script has asked the chain about

chain == <<published, products, now, receipt>>
script == <<key, pc, account, rich, touched>>

Empty == <<"empty">>    \* the file after open and before write

DeploymentInit ==
    /\ Init
    /\ key = <<>>
    /\ pc = "idle"
    /\ account = <<>>
    /\ rich = {}
    /\ touched = {}
-----------------------------------------------------------------------------
(* Both ways out of main: the last line, and process.exit(1). *)
Exit == pc' = "idle" /\ account' = <<>>

LoadAccount ==
    /\ pc = "idle"
    /\ key \notin {<<>>, Empty}
    /\ account' = key
    /\ pc' = "saved"
    /\ UNCHANGED <<chain, key, rich, touched>>

(* new AptosAccount(bytes) throws on the bytes of an empty file. *)
LoadFails ==
    /\ pc = "idle"
    /\ key = Empty
    /\ Exit
    /\ UNCHANGED <<chain, key, rich, touched>>

CreateAccount ==
    /\ pc = "idle"
    /\ key = <<>>
    /\ \E a \in Address \ (Others \cup touched \cup rich) : account' = <<a>>
    /\ pc' = "unsaved"
    /\ UNCHANGED <<chain, key, rich, touched>>

SaveKey_skipped ==
    /\ pc = "unsaved"
    /\ pc' = "saved"
    /\ UNCHANGED <<chain, key, account, rich, touched>>

SaveKey ==
    /\ pc = "unsaved"
    /\ key' = account
    /\ pc' = "saved"
    /\ UNCHANGED <<chain, account, rich, touched>>

(* getAccountBalance answers at least 5000. *)
BalanceSuffices ==
    /\ pc = "saved"
    /\ account[1] \in rich
    /\ touched' = touched \cup {account[1]}
    /\ pc' = "funded"
    /\ UNCHANGED <<chain, key, account, rich>>

(* It answers less, and the faucet is asked, if the name stands for one. *)
FundAccount ==
    /\ pc = "saved"
    /\ account[1] \notin rich
    /\ touched' = touched \cup {account[1]}
    /\ \/ TRUE \in FaucetDefined /\ rich' = rich \cup {account[1]}
          /\ pc' = "funded" /\ UNCHANGED account
       \/ FALSE \in FaucetDefined /\ Exit /\ UNCHANGED rich
    /\ UNCHANGED <<chain, key>>

(* Either request fails, the second one perhaps after it was honoured. *)
RequestFails ==
    /\ pc = "saved"
    /\ touched' = touched \cup {account[1]}
    /\ Exit
    /\ \/ UNCHANGED rich
       \/ TRUE \in FaucetDefined /\ rich' = rich \cup {account[1]}
    /\ UNCHANGED <<chain, key>>

(***************************************************************************)
(* publishPackage publishes the code and calls init_registry.  On a later  *)
(* run init_registry aborts; a request may fail before or after the chain  *)
(* has acted, and the run ends either way.                                 *)
(***************************************************************************)
PublishPackage ==
    /\ pc = "funded"
    /\ \/ init_registry(account[1])
       \/ init_registry_abort(account[1])
       \/ UNCHANGED chain
    /\ Exit
    /\ UNCHANGED <<key, rich, touched>>

(* The run is killed; a write under way may leave the file empty. *)
Crash ==
    /\ pc # "idle"
    /\ Exit
    /\ key' = key \/ (pc = "unsaved" /\ key' = Empty)
    /\ UNCHANGED <<chain, rich, touched>>

(* Coins come from anywhere to the account of the saved key. *)
DeveloperFunds ==
    /\ key \notin {<<>>, Empty}
    /\ rich' = rich \cup {key[1]}
    /\ UNCHANGED <<chain, key, pc, account, touched>>

(* The chain: its clock, and transactions of whoever holds a key. *)
ChainStep ==
    /\ Next
    /\ now' # now \/ receipt'.sender \in Others \/ key = <<receipt'.sender>>
    /\ UNCHANGED script

DeploymentNext ==
    \/ LoadAccount \/ LoadFails \/ CreateAccount \/ SaveKey
    \/ BalanceSuffices \/ FundAccount \/ RequestFails \/ PublishPackage \/ Crash
    \/ DeveloperFunds \/ ChainStep

DeploymentSpec == DeploymentInit /\ [][DeploymentNext]_<<chain, script>>
-----------------------------------------------------------------------------
(* Type invariant of the script: the key file, the run, the accounts it met. *)
DeploymentTypeOK ==
    /\ key \in {<<>>, Empty} \cup {<<a>> : a \in Address}
    /\ pc \in {"idle", "unsaved", "saved", "funded"}
    /\ account \in {<<>>} \cup {<<a>> : a \in Address}
    /\ rich \subseteq Address
    /\ touched \subseteq Address

(***************************************************************************)
(* An account that the chain knows, by a balance, by code or by a          *)
(* registry, is one whose key is in dev.key: main writes the file before   *)
(* its first request, so no crash or failed request strands coins or a     *)
(* registry under a key nobody has.                                        *)
(***************************************************************************)
KeyIsKept ==
    \A a \in rich \cup touched \cup (published \ Others) : key = <<a>>

(***************************************************************************)
(* Running the script again never takes a product off the chain: however   *)
(* runs, crashes and registrations alternate, each registry only grows.    *)
(***************************************************************************)
RedeployKeepsProducts ==
    [][\A a \in Address :
          /\ Len(products'[a]) >= Len(products[a])
          /\ SubSeq(products'[a], 1, Len(products[a])) = products[a]]_<<chain, script>>
=============================================================================
