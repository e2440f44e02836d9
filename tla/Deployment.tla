----------------------------- MODULE Deployment -----------------------------
(***************************************************************************)
(* The scripts that put the contracts on the network: deployLazySecureTrade,*)
(* deployLazyGasStation, deployBidderContractFactory and configureLST-LGS.  *)
(* Each makes contracts one after the other, giving the constructor of one  *)
(* the identities of earlier ones, and stops at the first that fails, at a  *)
(* prompt that is declined or with its process; the next run goes by what   *)
(* the operator has copied from the output into .env.  The tokens of the    *)
(* Lazy Superheroes, which a run also looks up there, are taken as present. *)
(*                                                                         *)
(* A contract is what its constructor was told.  What it then does is in    *)
(* the other modules.                                                       *)
(***************************************************************************)
EXTENDS Naturals, Sequences

CONSTANT MaxContracts     \* bound on what is ever made

ASSUME DeploymentAssumption == MaxContracts \in Nat

Kinds == {"creator", "token", "station", "registry", "tierLib", "envelopeLib",
          "trade", "stash", "factory"}
Nothing == 0
NoIds == [k \in Kinds |-> Nothing]

\* What a script needs in .env, and what it sees to, in order; "user" is the
\* trade contract's admission to the gas station.
Needs == [trade |-> {}, station |-> {"creator", "token"},
          factory |-> {"trade", "token", "station"}, configure |-> {"trade", "station"}]

Steps == [trade |-> <<"creator", "token", "station", "registry",
                      "tierLib", "envelopeLib", "trade", "user">>,
          station |-> <<"station">>,
          factory |-> <<"tierLib", "envelopeLib", "stash", "factory">>,
          configure |-> <<"user">>,
          none |-> <<>>]

\* The identities a constructor, or a linker, is given.
Uses == [creator |-> {}, token |-> {"creator"}, station |-> {"token", "creator"},
         registry |-> {}, tierLib |-> {}, envelopeLib |-> {},
         trade |-> {"token", "station", "registry", "tierLib"},
         stash |-> {"envelopeLib"},
         factory |-> {"trade", "token", "station", "registry", "stash"}]

VARIABLES
    made,        \* contracts and tokens on the network; their number is their id
    users,       \* <<station, trade>>: contract users of a gas station
    env,         \* .env: the id of every kind, if it is there
    session,     \* the run: its script, its step, the ids it holds
    announced    \* <<station, trade>>: admissions reported to the operator

deploymentVars == <<made, users, env, session, announced>>

NoSession == [script |-> "none", at |-> 1, holds |-> NoIds]

\* Either nothing is there, or the token and its creator have been for years.
DeploymentInit ==
    /\ \/ made = <<>> /\ env = NoIds
       \/ /\ made = <<[kind |-> "creator", uses |-> {}], [kind |-> "token", uses |-> {1}]>>
          /\ env = [NoIds EXCEPT !["creator"] = 1, !["token"] = 2]
    /\ users = {} /\ session = NoSession /\ announced = {}

-----------------------------------------------------------------------------
Due ==
    LET steps == Steps[session.script]
    IN IF session.at \in 1 .. Len(steps) THEN steps[session.at] ELSE "nothing"

\* A run goes on to its next step, or gets no further.
Onward(ids) == [script |-> session.script, at |-> session.at + 1, holds |-> ids]
Stopped == [session EXCEPT !.at = 0]

\* deployLazySecureTrade looks for everything as it goes, the others first.
StartScript(script) ==
    /\ session = NoSession
    /\ \A k \in Needs[script] : env[k] # Nothing
    /\ session' = [script |-> script, at |-> 1,
                   holds |-> IF script = "trade" THEN NoIds ELSE env]
    /\ UNCHANGED <<made, users, env, announced>>

\* Mutant of InEnv: the gas station is made anew by every run.
InEnvExceptStation(k) ==
    /\ k \notin {"station", "trade", "stash", "factory", "user"}
    /\ env[k] # Nothing
    /\ k \in {"creator", "token"} => env["creator"] # Nothing /\ env["token"] # Nothing

\* Found in .env: the token and its creator only together; the trade contract,
\* the stashes' implementation and the factory are made anew by every run.
InEnv(k) ==
    /\ k \notin {"trade", "stash", "factory", "user"}
    /\ env[k] # Nothing
    /\ k \in {"creator", "token"} => env["creator"] # Nothing /\ env["token"] # Nothing

Reuse ==
    /\ Due \in Kinds /\ InEnv(Due)
    /\ session' = Onward([session.holds EXCEPT ![Due] = env[Due]])
    /\ UNCHANGED <<made, users, env, announced>>

\* contractDeployFunction, and mintLazy for the token, either of which may fail
\* to hear that it has succeeded: it throws, and the script ends there.
Deploy ==
    /\ Due \in Kinds /\ ~ InEnv(Due) /\ Len(made) < MaxContracts
    /\ made' = Append(made, [kind |-> Due,
           uses |-> {session.holds[k] : k \in Uses[Due]} \ {Nothing}])
    /\ \/ session' = Onward([session.holds EXCEPT ![Due] = Len(made) + 1])
       \/ session' = Stopped
    /\ UNCHANGED <<users, env, announced>>

\* addContractUser.  The contract is admitted and the script says so, or the
\* answer is lost.  A refusal is logged and then read like a receipt: it throws.
AddContractUser ==
    LET admission == <<session.holds["station"], session.holds["trade"]>>
    IN /\ Due = "user"
       /\ users' = users \cup {admission}
       /\ \/ announced' = announced \cup {admission}
          \/ UNCHANGED announced
       /\ session' = Stopped
       /\ UNCHANGED <<made, env>>

\* A run ends, wherever it is.  What it has printed goes into .env.
EndScript ==
    /\ session # NoSession
    /\ env' = [k \in Kinds |-> IF session.holds[k] # Nothing THEN session.holds[k] ELSE env[k]]
    /\ session' = NoSession
    /\ UNCHANGED <<made, users, announced>>

Deploying ==
    \/ \E script \in DOMAIN Needs : StartScript(script)
    \/ Reuse \/ Deploy \/ AddContractUser \/ EndScript

DeploymentSpec == DeploymentInit /\ [][Deploying]_deploymentVars

-----------------------------------------------------------------------------
OfKind(c, kind) == {d \in made[c].uses : made[d].kind = kind}

\* Whatever runs stop half-way and whatever is made twice in consequence, two
\* contracts of which one was told the other were told the same token, creator
\* and gas station (a factory and its trade contract, a trade contract and its
\* gas station), .env names contracts that agree, and an admission the operator
\* was told of is one to the gas station the trade contract draws from.
DeploymentsAgree ==
    /\ \A c \in DOMAIN made, k \in {"creator", "token", "station"} :
          \A d \in made[c].uses :
             OfKind(c, k) # {} /\ OfKind(d, k) # {} => OfKind(c, k) = OfKind(d, k)
    /\ env["factory"] # Nothing => OfKind(env["factory"], "station") = {env["station"]}
    /\ \A a \in announced : a \in users /\ OfKind(a[2], "station") = {a[1]}

=============================================================================
